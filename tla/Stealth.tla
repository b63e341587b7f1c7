------------------------------ MODULE Stealth ------------------------------
(***************************************************************************)
(* The three stealth reports of src/backend: resistance to DPI, closeness  *)
(* to ordinary HTTPS, exposure of the origin.  Each builder lists the      *)
(* factors whose evidence was observed and folds their impacts into a      *)
(* score; a factor without evidence is never made (stealth_common.factor   *)
(* raises), which here is the condition of its row.                        *)
(***************************************************************************)
EXTENDS Evidence

CdnObserved(r) == r.conn.http_cdn # ""
CdnLevel(r) == IF CdnObserved(r) THEN "Proven" ELSE "Strong"

----------------------------------------------------------------------------
(* DPI detectability. *)

Signals(r) ==
    LET c == r.cfg IN
    Selected(<<
        <<c.protocol # "Unknown", c.protocol>>,
        <<c.reality, "reality">>,
        <<~c.reality /\ c.tls, "tls">>,
        <<~c.reality /\ ~c.tls, "no_tls">>,
        <<EffectiveTransport(c) # "Unknown", EffectiveTransport(c)>>,
        <<c.port = 443, "port:443">>,
        <<c.port = 80, "port:80">>,
        <<c.port \notin {0, 80, 443}, "port:nonstandard">>,
        <<HasBrowserFp(c), "browser_fp">>,
        <<~HasBrowserFp(c) /\ c.tls /\ ~c.reality, "no_browser_fp">>,
        <<r.dep.cdn_type # "" \/ CdnObserved(r), "cdn_front">>,
        <<c.flow = "vision", "xtls_vision">>,
        <<r.conn.reality_test = "Valid", "reality_probe_ok">>,
        <<LiveProxyOk(r), "live_ok">> >>)

Pattern(name, required, optional, base) ==
    [name |-> name, required |-> required, optional |-> optional, base |-> base]

BlockingPatterns == {
    Pattern("plaintext_ws", {"no_tls", "WebSocket"}, {"port:80", "VMESS"}, -22),
    Pattern("vmess_clear", {"no_tls", "VMESS"}, {}, -26),
    Pattern("odd_port", {"port:nonstandard", "no_tls"}, {"VMESS", "Shadowsocks"}, -18),
    Pattern("tls_no_mimicry", {"tls", "no_browser_fp"}, {"WebSocket", "VMESS"}, -14),
    Pattern("wireguard_udp", {"WireGuard"}, {"port:nonstandard"}, -16),
    Pattern("reality_vision", {"reality", "xtls_vision", "browser_fp"},
            {"port:443", "reality_probe_ok"}, 18),
    Pattern("cdn_shield", {"cdn_front", "tls"}, {"port:443", "browser_fp"}, 10)}

\* 650 when no optional signal is seen, 1000 when all are, in thousandths.
Strength(p, signals) ==
    650 + (350 * Cardinality(p.optional \cap signals)) \div Max({1, Cardinality(p.optional)})

\* Python's int(): towards zero, not down.
Truncated(n, d) == IF n >= 0 THEN n \div d ELSE -((-n) \div d)

PatternImpact(p, signals) == Truncated(p.base * Strength(p, signals), 1000)

MatchPatterns(signals) == {p \in BlockingPatterns : p.required \subseteq signals}

ProtocolWeights ==
    [VLESS |-> 14, Trojan |-> 11, VMESS |-> -4, Shadowsocks |-> 2,
     Hysteria2 |-> 5, TUIC |-> 5, WireGuard |-> -8, OpenVPN |-> -12]

ProtocolFactor(r) ==
    IF r.cfg.protocol = "Unknown" THEN {}
    ELSE {Factor("protocol", ProtocolWeights[r.cfg.protocol], "Speculative")}

EncryptionStack(r) ==
    LET handshake == r.conn.tls_handshake IN
    FirstOf(<< <<r.cfg.reality, {Factor("reality", 22, "Proven")}>>,
               <<r.cfg.tls, {Factor("tls", IF handshake # "Invalid" THEN 10 ELSE 4,
                                    IF handshake = "Valid" THEN "Proven" ELSE "Strong")}>> >>,
            {Factor("no_tls", -28, "Proven")})

TransportImpact ==
    [TCP |-> 12, gRPC |-> 8, HTTPUpgrade |-> 9, XHTTP |-> 10, WebSocket |-> -6,
     QUIC |-> 4, Hysteria2 |-> 3, TUIC |-> 3]

DpiFactors(r) ==
    LET c == r.cfg
        conn == r.conn
        transport == EffectiveTransport(c)
        signals == Signals(r)
    IN  ProtocolFactor(r) \cup EncryptionStack(r) \cup
        (IF transport = "Unknown" THEN {}
         ELSE {Factor("transport", TransportImpact[transport], "Speculative")}) \cup
        Selected(<<
            <<HasBrowserFp(c), Factor("utls", 12, "Proven")>>,
            <<~HasBrowserFp(c) /\ c.tls /\ ~c.reality, Factor("no_utls", -10, "Strong")>>,
            <<c.port = 443, Factor("port", 14, "Proven")>>,
            <<c.port \in AltTlsPorts \ {443}, Factor("port", 6, "Proven")>>,
            <<c.port \notin AltTlsPorts \cup {0}, Factor("port", -8, "Proven")>>,
            <<c.flow = "vision", Factor("flow", 6, "Proven")>>,
            <<conn.reality_test = "Valid", Factor("reality_probe", 5, "Proven")>>,
            <<conn.reality_test = "Invalid" /\ c.reality, Factor("reality_probe", -8, "Proven")>>,
            <<LiveProxyOk(r), Factor("live", 4, "Proven")>>,
            <<r.dep.cdn_type # "", Factor("cdn_edge", 5, CdnLevel(r))>> >>) \cup
        {Factor(p.name, PatternImpact(p, signals),
                IF Strength(p, signals) >= 850 THEN "Strong" ELSE "Weak") :
            p \in MatchPatterns(signals)}

DpiSynergy(r) ==
    LET signals == Signals(r)
        helpful == {p \in MatchPatterns(signals) : PatternImpact(p, signals) > 0}
    IN  SumFunction([p \in helpful |-> Min({6, PatternImpact(p, signals) \div 3})])

\* Higher is more resistant.
DpiReport(r) ==
    IF ~HasAnalyzableConfig(r.cfg)
    THEN [score |-> NoScore, factors |-> {}]
    ELSE [score |-> WeightedComposite(DpiFactors(r), DpiSynergy(r)),
          factors |-> DpiFactors(r)]

----------------------------------------------------------------------------
(* Traffic camouflage. *)

RealityFingerprintScore(c) ==
    (IF c.sni # "" THEN 8 ELSE 0) + (IF c.public_key THEN 6 ELSE 0)
    + (IF c.short_id THEN 4 ELSE 0) + (IF HasBrowserFp(c) THEN 6 ELSE 0)

RealityFactor(c) ==
    LET score == RealityFingerprintScore(c) IN
    Factor("reality_stack", Min({24, score}),
           FirstOf(<< <<score >= 18, "Proven">>, <<score >= 10, "Strong">> >>, "Weak"))

\* The config's ALPN against what the probe negotiated.
AlpnMimicry(c, tls) ==
    LET browserLike == c.alpn \cap {"h2", "http/1.1"} # {}
        probeH2 == "h2" \in tls.alpn
    IN  FirstOf(<< <<browserLike /\ probeH2, {Factor("alpn_h2_stack", 10, "Proven")}>>,
                   <<browserLike, {Factor("alpn_config", 6, "Strong")}>>,
                   <<tls.alpn # {}, {Factor("alpn_probe", IF probeH2 THEN 4 ELSE 2, "Strong")}>> >>,
                {})

TlsFingerprintLayer(r) ==
    LET tls == r.tls IN
    Selected(<<
        <<tls.sha256, Factor("cert_sha256", 3, "Proven")>>,
        <<tls.cipher # "",
          Factor("cipher", IF tls.weak_cipher THEN -10 ELSE IF tls.cipher = "modern" THEN 6 ELSE 3,
                 "Proven")>>,
        <<tls.version # "",
          Factor("version", IF tls.version = "1.3" THEN 8 ELSE 3,
                 IF tls.enabled THEN "Proven" ELSE "Strong")>>,
        <<tls.issuer # "" /\ ~r.cfg.reality,
          Factor("issuer", IF tls.issuer = "public_ca" THEN 4 ELSE 0, "Strong")>> >>)

TlsLayer(r) ==
    FirstOf(<< <<r.cfg.reality, RealityFactor(r.cfg)>>,
               <<r.cfg.tls /\ r.conn.tls_handshake = "Valid", Factor("tls_valid", 14, "Proven")>>,
               <<r.cfg.tls, Factor("tls_unverified", 6, "Strong")>> >>,
            Factor("no_tls", -30, "Proven"))

\* `sni in host': equal, or the host is a subdomain of the SNI.
Aligned(c) == c.host = c.sni \/ c.host = "sub." \o c.sni

CamouflageLayers(r) ==
    LET c == r.cfg
        conn == r.conn
    IN  {TlsLayer(r)} \cup TlsFingerprintLayer(r) \cup AlpnMimicry(c, r.tls) \cup
        Selected(<<
            <<HasBrowserFp(c), Factor("utls", 14, "Proven")>>,
            <<~HasBrowserFp(c) /\ c.tls /\ ~c.reality, Factor("no_utls", -8, "Strong")>>,
            <<c.sni # "" /\ c.host # "", Factor("sni_host", IF Aligned(c) THEN 8 ELSE -6, "Proven")>>,
            <<c.sni # "" /\ c.host = "", Factor("sni", 4, "Proven")>>,
            <<r.dep.cdn_type # "", Factor("cdn_front", 10, CdnLevel(r))>>,
            <<CdnObserved(r), Factor("http_cdn", 5, "Proven")>>,
            <<conn.http_panel, Factor("panel", -18, "Proven")>>,
            <<c.allow_insecure, Factor("allow_insecure", -12, "Proven")>>,
            <<EffectiveTransport(c) = "WebSocket" /\ c.path \in {"", "/"},
              Factor("ws_path", -5, "Strong")>>,
            <<EffectiveTransport(c) = "WebSocket" /\ c.path = "/long/path",
              Factor("ws_path", 4, "Strong")>>,
            <<conn.websocket_upgrade = "Valid", Factor("ws_upgrade", 5, "Proven")>>,
            <<LiveProxyOk(r) /\ ExitIp(r) # "", Factor("live_egress", 4, "Proven")>> >>)

CamouflageSynergy(r) ==
    (IF r.cfg.reality /\ RealityFingerprintScore(r.cfg) >= 18 THEN 4 ELSE 0)
    + (IF HasBrowserFp(r.cfg) THEN 3 ELSE 0)
    + (IF \E f \in AlpnMimicry(r.cfg, r.tls) : f.title = "alpn_h2_stack" THEN 3 ELSE 0)

\* Higher looks more like ordinary HTTPS.
CamouflageReport(r) ==
    IF ~HasAnalyzableConfig(r.cfg)
    THEN [score |-> NoScore, factors |-> {}]
    ELSE [score |-> WeightedComposite(CamouflageLayers(r), CamouflageSynergy(r)),
          factors |-> CamouflageLayers(r)]

----------------------------------------------------------------------------
(* Origin exposure. *)

Resolved(r) == IF r.dns.all # {} THEN r.dns.all ELSE r.dns.a

CtExposure(r) ==
    IF r.ct.total <= 0 THEN {}
    ELSE Selected(<<
        <<TRUE, Factor("ct_entries", IF r.ct.total > 15 THEN 8 ELSE 4, "Proven")>>,
        <<r.ct.top_issuer >= 3, Factor("ct_issuer", 6, "Strong")>>,
        <<r.ct.subdomains >= 8, Factor("ct_surface", 7, "Strong")>> >>)

AsnCorrelation(r) ==
    LET known == {ip \in r.net : ip.asn # ""}
        cdnAsns == {ip.asn : ip \in {i \in known : i.cdn # "" \/ r.dep.cdn_type # ""}}
        dcAsns == {ip.asn : ip \in {i \in known : i.is_datacenter /\ i.cdn = ""}}
        behindCdn == r.dep.cdn_type # "" /\ dcAsns # {}
    IN  Selected(<<
            <<behindCdn /\ cdnAsns = {}, Factor("asn_grey_cloud", 16, "Strong")>>,
            <<behindCdn /\ cdnAsns # {} /\ cdnAsns \cap dcAsns = {},
              Factor("asn_differs", 10, "Strong")>>,
            <<LiveProxyOk(r) /\ r.dep.cdn_type # "" /\ ExitIp(r) \notin Resolved(r) \cup {""}
                /\ \E ip \in r.net : ip.ip = ExitIp(r) /\ ip.is_datacenter,
              Factor("exit_asn", 12, "Proven")>> >>)

AddressHeaders == {"x-real-ip", "x-forwarded-for", "x-origin"}
OriginLeakHeaders == AddressHeaders \cup {"x-backend", "x-upstream", "x-served-by", "via"}

HeaderLeakage(r) ==
    {Factor(h, IF h \in AddressHeaders THEN 10 ELSE 6, "Proven") :
        h \in r.conn.headers \cap OriginLeakHeaders} \cup
    Selected(<<
        <<r.conn.http_server \in {"nginx", "apache", "openresty", "caddy"} /\ r.dep.cdn_type = "",
          Factor("server_banner", 8, "Proven")>>,
        <<r.conn.http_reverse_proxy # "" /\ r.dep.cdn_type = "",
          Factor("reverse_proxy", 5, "Strong")>> >>)

CertCorrelation(r) ==
    IF ~r.tls.sha256 THEN {}
    ELSE Selected(<<
        <<r.ct.subdomains > 0 /\ r.tls.subject # "", Factor("cert_captured", 5, "Proven")>>,
        <<r.tls.subject \notin {"", "cloudflare", r.cfg.sni} /\ r.cfg.sni # "",
          Factor("cert_sni_differs", 6, "Strong")>> >>)

OriginFactors(r) ==
    LET cdn == r.dep.cdn_type # ""
        direct == IsIp(r.cfg.address)
        exit == ExitIp(r)
        comparable == cdn /\ LiveProxyOk(r) /\ exit # "" /\ Resolved(r) # {}
    IN  Selected(<<
            <<direct, Factor("direct_ip", 38, "Proven")>>,
            <<~cdn /\ ~direct, Factor("no_cdn", 18, "Strong")>>,
            <<comparable /\ exit \in Resolved(r), Factor("exit_is_dns", 22, "Proven")>>,
            <<comparable /\ exit \notin Resolved(r), Factor("exit_is_not_dns", -12, "Proven")>>,
            <<r.dns.split, Factor("dns_split", 8, "Proven")>>,
            <<r.conn.http_panel, Factor("panel", 14, "Proven")>>,
            <<~cdn /\ \E ip \in r.net : ip.is_datacenter, Factor("datacenter_ip", 5, "Proven")>>,
            <<\E t \in r.threat : t.hits, Factor("blocklist", 8, "Strong")>> >>)
        \cup CtExposure(r) \cup AsnCorrelation(r) \cup HeaderLeakage(r) \cup CertCorrelation(r)

InferredOrigin(r) ==
    LET datacenters == {ip \in r.net : ip.is_datacenter} IN
    FirstOf(<< <<IsIp(r.cfg.address), r.cfg.address>>,
               <<r.dep.real_server_ip # "", r.dep.real_server_ip>>,
               <<r.dep.cdn_type = "" /\ datacenters # {},
                 IF datacenters = {} THEN ""
                 ELSE (CHOOSE d \in datacenters : \A e \in datacenters : d.pos <= e.pos).ip>> >>,
            "")

\* Higher is more exposed.
OriginReport(r) ==
    LET factors == OriginFactors(r)
        risk == Clamp(SumFunction([f \in factors |-> f.impact]), 0, 100)
    IN  IF ~HasAnalyzableConfig(r.cfg)
        THEN [score |-> NoScore, level |-> "unknown", factors |-> {}, inferred |-> ""]
        ELSE IF factors = {}
        THEN [score |-> NoScore, level |-> "unknown", factors |-> {}, inferred |-> InferredOrigin(r)]
        ELSE [score |-> {risk}, factors |-> factors, inferred |-> InferredOrigin(r),
              level |-> FirstOf(<< <<risk < 25, "hidden">>, <<risk < 55, "partial">> >>, "exposed")]

=============================================================================
