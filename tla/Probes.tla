-------------------------------- MODULE Probes --------------------------------
(***************************************************************************)
(* What the probes make of the answers they get: the resolver              *)
(* (src/dns_analyzer), the address lookup (src/network/cdn_detector.py),   *)
(* the connectivity tests (src/network), the certificate probe             *)
(* (src/tls/analyzer.py), the route, the transparency log and the report   *)
(* on the test environment.  An answer is a record of what the wire        *)
(* carried; a probe that failed answers with ok = FALSE.                   *)
(***************************************************************************)
EXTENDS Deployment, SequencesExt

CONSTANT CloudflareIps    \* the addresses inside Cloudflare's published ranges

ASSUME CloudflareIpsAssumption == CloudflareIps \subseteq Ips

----------------------------------------------------------------------------
(* Validation: the errors; the warnings change nothing. *)

ValidationErrors(c) ==
    Selected(<<
        <<c.protocol = "Unknown", "UNKNOWN_PROTOCOL">>,
        <<c.address = "", "MISSING_ADDRESS">>,
        <<c.port \notin 1..65535, "INVALID_PORT">>,
        <<c.protocol \in {"VLESS", "VMESS"} /\ c.secret = "", "MISSING_UUID">>,
        <<c.protocol = "Trojan" /\ c.secret = "", "MISSING_PASSWORD">> >>)

ValidateConfig(c) == ValidationErrors(c) = {}

----------------------------------------------------------------------------
(* Names.  The local resolver and DoH are united; the system resolver is   *)
(* asked only when neither has an address.                                 *)

EmptyDns(host) ==
    [hostname |-> host, a |-> {}, all |-> {}, order |-> << >>, first |-> "", cname |-> {},
     reverse |-> {}, split |-> FALSE, provider |-> "", doh_differs |-> FALSE]

AppendNew(seq, more) == seq \o SelectSeq(more, LAMBDA ip : ip \notin ToSet(seq))

\* The provider whose name servers match more keywords; the first one of equals.
DnsProviders == <<"ArvanCloud", "Cloudflare", "Hetzner">>

DnsProvider(ns) ==
    LET hits(i) == Min({3, ns[DnsProviders[i]]})
        best == {i \in DOMAIN DnsProviders : \A j \in DOMAIN DnsProviders : hits(i) >= hits(j)}
    IN  IF hits(Min(best)) = 0 THEN "" ELSE DnsProviders[Min(best)]

AnalyzeDns(host, answer) ==
    LET doh == ToSet(answer.doh)
        union == AppendNew(answer.a, answer.doh)
        resolved == IF union # << >> THEN union ELSE answer.system
        local == IF union # << >> THEN answer.a ELSE answer.system
        differs == answer.a # << >> /\ doh # {} /\ ToSet(answer.a) # doh
    IN  [hostname |-> host, a |-> ToSet(local), all |-> ToSet(resolved), order |-> resolved,
         first |-> IF local = << >> THEN "" ELSE Head(local), cname |-> answer.cname,
         reverse |-> answer.reverse, split |-> differs, provider |-> DnsProvider(answer.ns),
         doh_differs |-> differs]

HostForDns(host) == IF IsIp(host) THEN "" ELSE host

\* The names to resolve: a name asked before is not asked again.
DnsLabels(c) ==
    LET connect == HostForDns(c.address)
        sni == HostForDns(c.sni)
        host == HostForDns(IF c.host # "" THEN c.host ELSE c.sni)
    IN  (IF connect = "" THEN << >> ELSE <<[label |-> "connect", host |-> connect]>>) \o
        (IF sni = "" THEN << >>
         ELSE <<[label |-> IF sni = connect THEN "sni_same" ELSE "sni", host |-> sni]>>) \o
        (IF host \in {"", connect, sni} THEN << >> ELSE <<[label |-> "host", host |-> host]>>)

DnsTasks(c) == SelectSeq(DnsLabels(c), LAMBDA l : l.label # "sni_same")

\* The results come back in the order of the tasks and are paired by position.
LabelledDns(c, results) ==
    LET names == [i \in DOMAIN DnsTasks(c) |-> DnsTasks(c)[i].label]
    IN  [l \in ToSet(names) |-> results[CHOOSE i \in DOMAIN names : names[i] = l]]

ResolveEndpointTargets(c, results) ==
    LET of == LabelledDns(c, results)
        same == \E l \in ToSet(DnsLabels(c)) : l.label = "sni_same"
        connect == IF "connect" \in DOMAIN of THEN of["connect"] ELSE EmptyDns(c.address)
        ips == IF IsIp(c.address) THEN <<c.address>> ELSE connect.order
    IN  [connect |-> connect,
         sni |-> IF same THEN connect ELSE IF "sni" \in DOMAIN of THEN of["sni"] ELSE EmptyDns(""),
         host |-> IF "host" \in DOMAIN of THEN of["host"] ELSE EmptyDns(""),
         ips |-> ips, primary |-> IF ips = << >> THEN "" ELSE Head(ips)]

----------------------------------------------------------------------------
(* Addresses. *)

CdnKeywords == [Cloudflare |-> "cloudflare", ArvanCloud |-> "arvan", Akamai |-> "akamai",
                Fastly |-> "fastly", CloudFront |-> "cloudfront", Bunny |-> "bunny", Gcore |-> "gcore"]

CdnSignatures == <<"Cloudflare", "ArvanCloud", "Akamai", "Fastly", "CloudFront", "Bunny", "Gcore">>

\* The reverse names of every address of the link count for each of them.
CdnConfidence(label, ip, org, reverse, asn) ==
    LET keyword == CdnKeywords[label]
        orgHit == keyword \in {org} \cup reverse
        strict == label = "CloudFront"
        signals == (IF label = "Cloudflare" /\ ip \in CloudflareIps THEN {85} ELSE {}) \cup
                   (IF orgHit THEN {75} ELSE {}) \cup
                   (IF asn # keyword THEN {}
                    ELSE IF orgHit THEN {IF strict THEN 75 ELSE 88} ELSE {IF strict THEN 38 ELSE 42})
    IN  Min({Max({0} \cup signals)} \cup (IF strict /\ ~orgHit THEN {35} ELSE {}))

DetectCdn(ip, org, reverse, asn) ==
    LET conf(i) == CdnConfidence(CdnSignatures[i], ip, org, reverse, asn)
        best == {i \in DOMAIN CdnSignatures : \A j \in DOMAIN CdnSignatures : conf(j) <= conf(i)}
    IN  IF conf(Min(best)) = 0 THEN [cdn |-> "", conf |-> 0]
        ELSE [cdn |-> CdnSignatures[Min(best)], conf |-> conf(Min(best))]

\* `cloud' is a data centre keyword, so three CDN names match it.
DatacenterOrgs == {"hosting", "cloudflare", "cloudfront", "arvan"}

\* The geo service first, WHOIS for what it left out.
LookupIpIntelligence(ip, pos, reverse, answer) ==
    LET either(geo, whois) == IF geo # "" THEN geo ELSE whois
        org == either(answer.geo.org, answer.whois.org)
        asn == either(answer.geo.asn, answer.whois.asn)
        found == DetectCdn(ip, org, reverse, asn)
    IN  [pos |-> pos, ip |-> ip, asn |-> asn, org |-> org, cdn |-> found.cdn, conf |-> found.conf,
         country |-> either(answer.geo.country, answer.whois.country),
         datacenter |-> IF org \in DatacenterOrgs THEN org ELSE "",
         is_datacenter |-> org \in DatacenterOrgs, rep |-> 50]

\* Only the first five addresses.
LookedUpIps(ips) == SubSeq(ips, 1, Min({LookedUp, Len(ips)}))

LookupNetwork(ips, reverse, answers) ==
    LET asked == LookedUpIps(ips)
    IN  {LookupIpIntelligence(asked[i], i, reverse, answers[asked[i]]) : i \in DOMAIN asked}

\* The verdict on an address overwrites what the lookup had said.
ApplyThreats(net, threats) ==
    {LET t == CHOOSE s \in threats : s.ip = n.ip
     IN  [n EXCEPT !.rep = t.score, !.is_datacenter = t.is_datacenter] : n \in net}

TunnelRoute(client, net) ==
    LET server == IF net = {} THEN "" ELSE (CHOOSE n \in net : n.pos = 1).country
    IN  FirstOf(<< <<client # "" /\ server # "", "both">>, <<server # "", "server only">> >>, "unavailable")

----------------------------------------------------------------------------
(* HTTP.  An answer has a status (0: no answer), the server's name and the *)
(* headers; a panel shows in its headers or in the page.                   *)

ServerCdn == [arvan |-> "ArvanCloud", cloudflare |-> "Cloudflare", akamai |-> "Akamai",
              fastly |-> "Fastly", cloudfront |-> "CloudFront", bunny |-> "Bunny", gcore |-> "Gcore"]

ProxyServers == {"nginx", "caddy", "apache", "openresty"}

\* x-cache alone names nobody.
DetectCdnFromHeaders(h) ==
    FirstOf(<< <<h.server \in DOMAIN ServerCdn,
                 IF h.server \in DOMAIN ServerCdn THEN ServerCdn[h.server] ELSE "">>,
               <<"x-arvan" \in h.headers, "ArvanCloud">>,
               <<"cf-ray" \in h.headers, "Cloudflare">>,
               <<"x-sid" \in h.headers, "ArvanCloud">> >>, "")

DetectReverseProxyServer(h) == IF h.server \in ProxyServers THEN h.server ELSE ""

NoHttp == [status |-> 0, server |-> "", headers |-> {}, panel |-> FALSE]

FingerprintHeaders == {"server", "x-cache", "x-sid", "x-arvan", "cf-ray", "via", "set-cookie"}
BaselineHeaders == {"server", "connection", "upgrade", "sec-websocket-version",
                    "x-cache", "x-sid", "x-arvan", "cf-ray", "via"}

Seen(h, kept) == (h.headers \cup (IF h.server # "" THEN {"server"} ELSE {})) \cap kept

ClassifyHttpBaseline(h) ==
    FirstOf(<< <<h.status = 0, "Invalid">>, <<h.status < 500, "Valid">> >>, "Warning")

\* The scheme follows the port alone, whatever the link says of TLS.
FingerprintScheme(port) == IF port \in {443, 8443, 2053, 2083} THEN "https" ELSE "http"

----------------------------------------------------------------------------
(* Transports. *)

UsesTlsLayer(c) == c.reality \/ c.tls \/ c.security \in {"tls", "reality", "xtls"}

\* A handshake answer: its status, the two headers, and the accept key.
WebSocketAnswerOk(hs) ==
    /\ hs.status = 101
    /\ hs.upgrade
    /\ hs.connection
    /\ hs.accept = "right"

WebSocketStatus(hs) ==
    FirstOf(<< <<hs.ok /\ WebSocketAnswerOk(hs), "Valid">>, <<hs.status = 101, "Warning">> >>, "Invalid")

QuicStatus(h) ==
    FirstOf(<< <<h.status = 0, "Invalid">>, <<"alt-svc" \in h.headers, "Inconclusive">> >>, "Not tested")

\* A REALITY or gRPC server cannot be verified from outside, and is not.
RunTransportTests(c, answer) ==
    [websocket |-> IF c.transport = "WebSocket" THEN WebSocketStatus(answer.ws) ELSE "Not applicable",
     grpc |-> IF c.transport = "gRPC" THEN "Unsupported" ELSE "Pending",
     quic |-> IF c.transport = "QUIC" THEN QuicStatus(answer.quic) ELSE "Pending",
     reality |-> IF c.reality THEN "Unsupported" ELSE "Pending"]

\* min(n - 1, int(0.95 n)), counted from 0.
P95(samples) ==
    IF samples = << >> THEN 0
    ELSE SortSeq(samples, <)[1 + Min({Len(samples) - 1, (95 * Len(samples)) \div 100})]

FailureRate(attempts) ==
    (1000 * Len(SelectSeq(attempts, LAMBDA ok : ~ok))) \div Len(attempts)

ProbeStatus(ok) == IF ok THEN "Valid" ELSE "Invalid"

\* The baseline asks the address connected to.  For a name the fingerprint
\* probe asks it again through DNS, and its answer replaces the baseline's.
RunConnectivityTests(c, answer) ==
    LET port == IF c.port = 0 THEN 443 ELSE c.port
        transports == RunTransportTests(c, answer)
        base == answer.baseline
        named == ~IsIp(c.address)
        seen == IF named THEN answer.fingerprint[FingerprintScheme(port)] ELSE base
    IN  [dns_resolve |-> ProbeStatus(IsIp(c.address) \/ answer.dns_ok),
         tcp_connect |-> ProbeStatus(answer.tcp),
         tls_handshake |-> IF UsesTlsLayer(c) \/ port = 443 THEN ProbeStatus(answer.tls) ELSE "Pending",
         websocket_upgrade |-> transports.websocket,
         ws_validated |-> transports.websocket = "Valid",
         grpc_test |-> transports.grpc, quic_test |-> transports.quic, reality_test |-> transports.reality,
         p95 |-> IF answer.tcp THEN P95(answer.samples) ELSE 0,
         http_response |-> ClassifyHttpBaseline(base), http_baseline |-> ClassifyHttpBaseline(base),
         baseline_headers |-> Seen(base, BaselineHeaders),
         http_server |-> seen.server, http_cdn |-> DetectCdnFromHeaders(seen),
         http_panel |-> named /\ seen.panel, http_reverse_proxy |-> DetectReverseProxyServer(seen),
         headers |-> IF named THEN Seen(seen, FingerprintHeaders) ELSE {},
         failure_rate |-> FailureRate(answer.attempts)]

----------------------------------------------------------------------------
(* Certificate, route, transparency log. *)

WeakCiphers == {"RC4", "3DES"}

TlsOff == [enabled |-> FALSE, expired |-> FALSE, weak_cipher |-> FALSE, sha256 |-> FALSE, cipher |-> "",
           version |-> "", issuer |-> "", alpn |-> {}, subject |-> "", days |-> {}]

\* enabled says that TLS was to be probed, not that the handshake succeeded.
AnalyzeTls(c, answer) ==
    IF ~UsesTlsLayer(c) /\ c.port # 443 THEN TlsOff
    ELSE IF ~answer.ok THEN [TlsOff EXCEPT !.enabled = TRUE]
    ELSE [enabled |-> TRUE, expired |-> answer.days < 0, weak_cipher |-> answer.cipher \in WeakCiphers,
          sha256 |-> TRUE, cipher |-> answer.cipher, version |-> answer.version,
          issuer |-> answer.issuer, alpn |-> answer.alpn, subject |-> answer.subject, days |-> {answer.days}]

\* Hops that answered; when none did, hops that were tried.  A slow route has none.
HopCount(answer) ==
    IF answer.late THEN 0
    ELSE LET answered == SelectSeq(answer.hops, LAMBDA h : h # "")
         IN  IF answered # << >> THEN Len(answered) ELSE Len(answer.hops)

CtLimit == 25
CtDomain(c) == IF c.sni # "" THEN c.sni ELSE HostForDns(c.address)

NoCt == [total |-> 0, top_issuer |-> 0, subdomains |-> 0]

LookupCertTransparency(c, answer) ==
    IF CtDomain(c) = "" \/ IsIp(CtDomain(c)) \/ answer.status # 200 THEN NoCt
    ELSE LET kept == Min({CtLimit, answer.matching})
         IN  [total |-> IF kept > 0 THEN kept ELSE answer.rows,
              top_issuer |-> Min({kept, answer.top_issuer}), subdomains |-> kept]

----------------------------------------------------------------------------
(* Where the tests ran from.  A proxy of the environment is shown without  *)
(* its credentials.                                                        *)

ProxyEnvShown(raw) ==
    IF raw.scheme THEN raw.parts \ {"user", "password"} ELSE {"name"}

TestEnvironment(r, env) ==
    [baseline |-> r.xray.baseline,
     proxy_env |-> IF env.parts = {} THEN {} ELSE ProxyEnvShown(env),
     run_id |-> r.xray.status]

=============================================================================
