----------------------------- MODULE Deployment -----------------------------
(***************************************************************************)
(* What the analysis concludes about the deployment from one set of        *)
(* observations: the security score (src/backend/security.py), the         *)
(* deployment guesses, the reproduction guide, the reputation of an        *)
(* address (src/backend/intelligence.py) and the tunnel topologies         *)
(* (src/backend/tunnel_detection.py).  A record of r.net has the position  *)
(* of the address in the code's list.                                      *)
(***************************************************************************)
EXTENDS Evidence, TLC

----------------------------------------------------------------------------
(* Security score. *)

\* How many of the resolved addresses the analysis looks up.
LookedUp == 5

CdnIn(net) == {ip \in net : ip.cdn # ""}

SecFinding(title, cost, severity) ==
    [title |-> title, cost |-> cost, severity |-> severity]

TlsFinding(c, tls, conn) ==
    FirstOf(<< <<~c.tls /\ ~c.reality, {SecFinding("No TLS", 30, "high")}>>,
               <<tls.enabled /\ ~tls.expired, {SecFinding("TLS Enabled", 0, "info")}>>,
               <<tls.expired, {SecFinding("Expired Certificate", 25, "high")}>>,
               <<conn.tls_handshake = "Invalid", {SecFinding("Handshake Failed", 20, "high")}>> >>,
            {})

\* The findings other than TLS and REALITY, which move the score first.
OtherFindings(c, tls, net) ==
    Selected(<<
        <<tls.weak_cipher, SecFinding("Weak Cipher", 20, "high")>>,
        <<c.allow_insecure, SecFinding("Verification Disabled", 15, "medium")>>,
        <<c.fingerprint # "", SecFinding("Fingerprint Set", 0, "info")>>,
        <<c.fingerprint = "" /\ c.tls /\ ~c.reality, SecFinding("No Fingerprint", 5, "medium")>>,
        <<CdnIn(net) # {}, SecFinding("CDN Fronting", 0, "info")>>,
        <<CdnIn(net) = {} /\ ~IsIp(c.address), SecFinding("Direct Domain", 5, "medium")>>,
        <<"long" \in c.remark, SecFinding("Long Remark", 2, "low")>>,
        <<IsIp(c.address), SecFinding("Direct IP", 10, "medium")>> >>)

Recommendations(c, net) ==
    Selected(<<
        <<~c.tls /\ ~c.reality, [title |-> "Enable TLS or REALITY", gain |-> 30]>>,
        <<c.tls /\ ~c.reality /\ c.fingerprint = "", [title |-> "Set Fingerprint", gain |-> 5]>>,
        <<c.allow_insecure, [title |-> "Disable allowInsecure", gain |-> 15]>> >>)

\* Advice whose gain is not added to the potential score.
Suggestions(c, net) ==
    Selected(<< <<CdnIn(net) = {} /\ ~IsIp(c.address), "Use CDN Fronting">>,
                <<c.transport = "WebSocket", "Migrate to XHTTP">> >>)

AnalyzeSecurity(c, tls, conn, net) ==
    LET first == TlsFinding(c, tls, conn)
        others == OtherFindings(c, tls, net)
        afterTls == 100 - SumFunction([f \in first |-> f.cost])
        afterReality == IF c.reality THEN Min({100, afterTls + 5}) ELSE afterTls
        score == Clamp(afterReality - SumFunction([f \in others |-> f.cost]), 0, 100)
        gains == SumFunction([rec \in Recommendations(c, net) |-> rec.gain])
    IN  [score |-> score, potential |-> Min({100, score + gains}),
         findings |-> first \cup others,
         recommendations |-> {rec.title : rec \in Recommendations(c, net)} \cup Suggestions(c, net)]

----------------------------------------------------------------------------
(* Deployment guesses, in hundredths, in the order the code appends them. *)

GuessOrder == <<"Direct VPS", "CDN Fronted", "Cloudflare CDN", "Arvan CDN", "Akamai CDN",
                "Fastly CDN", "AWS CloudFront", "BunnyCDN", "Gcore CDN", "Reverse Proxy",
                "Cloudflare Tunnel", "SNI Fronting", "Reverse Tunnel", "Multi Hop">>
GuessNames == {GuessOrder[i] : i \in DOMAIN GuessOrder}
GuessPos(name) == CHOOSE i \in DOMAIN GuessOrder : GuessOrder[i] = name

\* Addresses on a CDN; an HTTP observation of another CDN counts as one more,
\* after all of them.
CdnEvidence(c, net, conn) ==
    LET known == CdnIn(net)
        first == IF net = {} THEN [ip |-> c.address, conf |-> 88]
                 ELSE LET n == CHOOSE n \in net : \A m \in net : n.pos <= m.pos
                      IN  [ip |-> n.ip, conf |-> Max({n.conf, 88})]
    IN  {[ip |-> n.ip, cdn |-> n.cdn, conf |-> n.conf, pos |-> n.pos] : n \in known} \cup
        (IF conn.http_cdn = "" \/ \E n \in known : n.cdn = conn.http_cdn THEN {}
         ELSE {[ip |-> first.ip, cdn |-> conn.http_cdn, conf |-> first.conf,
                pos |-> LookedUp + 1]})

CdnConfOf(net, label) ==
    LET confs == {ip.conf : ip \in {i \in net : i.cdn = label}}
    IN  IF confs = {} THEN 10 ELSE Min({95, Max(confs)})

StrongestCdn(cdnIps) ==
    CHOOSE b \in cdnIps : \A o \in cdnIps :
        o.conf < b.conf \/ (o.conf = b.conf /\ b.pos <= o.pos)

FrontedConf(c, dns, conn, cdnIps) ==
    LET http == IF conn.http_cdn # "" THEN 88 ELSE 10
        edge == IF cdnIps # {}
                THEN IF StrongestCdn(cdnIps).conf >= 72
                     THEN Min({95, Max({http, StrongestCdn(cdnIps).conf + 10})}) ELSE http
                ELSE IF dns.cname # {} THEN Max({http, 55}) ELSE http
    IN  IF c.sni \notin {"", c.address} THEN Min({95, edge + 15}) ELSE edge

ReverseProxyConf(c, conn) ==
    LET layered == IF EffectiveTransport(c) \in {"WebSocket", "gRPC", "HTTPUpgrade", "XHTTP"}
                      \/ c.extraType = "xhttp" THEN 40 ELSE 30
        observed == FirstOf(<<
            <<conn.http_reverse_proxy # "", Min({85, layered + 35})>>,
            <<conn.http_response = "Valid" /\ conn.http_cdn = "", Min({55, layered + 10})>> >>,
            layered)
    IN  IF conn.http_cdn # "" /\ conn.http_reverse_proxy = "" THEN Min({observed, 35}) ELSE observed

GuessOf(name, c, dns, net, conn) ==
    LET cdnIps == CdnEvidence(c, net, conn)
        names == dns.cname \cup dns.reverse
        onNet(label) == \E ip \in net : ip.cdn = label
    IN  CASE name = "Direct VPS" -> FirstOf(<< <<IsIp(c.address) /\ cdnIps = {}, 70>>,
                                              <<cdnIps = {} /\ dns.cname = {}, 45>> >>, 25)
          [] name = "CDN Fronted" -> FrontedConf(c, dns, conn, cdnIps)
          [] name = "Cloudflare CDN" -> FirstOf(<< <<onNet("Cloudflare"), 90>>, <<"cloudflare" \in names, 80>> >>, 10)
          [] name = "Arvan CDN" ->
                FirstOf(<< <<conn.http_cdn = "ArvanCloud" \/ conn.http_server = "arvan", 92>>,
                           <<onNet("ArvanCloud"), 90>>, <<"arvan" \in names, 75>> >>, 10)
          [] name = "Reverse Proxy" -> ReverseProxyConf(c, conn)
          [] name = "Cloudflare Tunnel" -> IF "cfargotunnel" \in dns.cname THEN 85 ELSE 15
          [] name = "SNI Fronting" -> IF IsIp(c.address) /\ c.sni \notin {"", c.address} THEN 82 ELSE 10
          [] name = "Reverse Tunnel" ->
                IF c.remark \cap {"frp", "nps", "ngrok", "bore", "rathole"} # {} THEN 65 ELSE 25
          [] name = "Multi Hop" -> 20
          [] name = "Akamai CDN" -> CdnConfOf(net, "Akamai")
          [] name = "Fastly CDN" -> CdnConfOf(net, "Fastly")
          [] name = "AWS CloudFront" -> CdnConfOf(net, "CloudFront")
          [] name = "BunnyCDN" -> CdnConfOf(net, "Bunny")
          [] name = "Gcore CDN" -> CdnConfOf(net, "Gcore")

Guesses(c, dns, net, conn) == [name \in GuessNames |-> GuessOf(name, c, dns, net, conn)]

AnalyzeDeployment(c, dns, net, conn, hops) ==
    LET cdnIps == CdnEvidence(c, net, conn)
        strong == cdnIps # {} /\ StrongestCdn(cdnIps).conf >= 72
    IN  [guesses |-> Guesses(c, dns, net, conn),
         cdn_type |-> FirstOf(<< <<conn.http_cdn # "", conn.http_cdn>>,
                                 <<strong, IF strong THEN StrongestCdn(cdnIps).cdn ELSE "">> >>, ""),
         cdn_ips |-> IF cdnIps # {} THEN {i.ip : i \in cdnIps}
                     ELSE IF conn.http_cdn # "" THEN dns.a ELSE {},
         real_server_ip |-> IF IsIp(c.address) THEN c.address ELSE "",
         proxy_type |-> ReverseProxyConf(c, conn) > 50,
         uncertain |-> Selected(<<
             <<cdnIps # {}, "CDN edge IPs">>,
             <<cdnIps = {}, "IP Origin behind CDN">>,
             <<~IsIp(c.address), "Real server IP">>,
             <<ReverseProxyConf(c, conn) <= 60, "Reverse proxy type">> >>),
         hop_count |-> hops]

\* Which fields of the config can be rebuilt; what only the server knows never is.
ServerSideFields == {"Internal Tunnel Structure", "Origin IP behind CDN", "Routing Rules",
                     "Server Side Scripts", "Firewall Rules", "Rate Limiting"}

ReproductionGuide(c) ==
    LET fields == Selected(<<
            <<c.protocol # "Unknown", "Protocol">>, <<c.address # "", "Address">>,
            <<c.port # 0, "Port">>, <<c.secret # "", "UUID/Password">>, <<c.flow # "", "Flow">>,
            <<c.public_key, "Public Key">>, <<c.short_id, "Short ID">>, <<c.sni # "", "SNI">>,
            <<c.host # "", "Host">>, <<c.alpn # {}, "ALPN">>, <<c.path # "", "WS Path">>,
            <<c.transport # "Unknown", "Transport">> >>) \cup {"TLS", "Reality"}
        all == {"Protocol", "Address", "Port", "UUID/Password", "Flow", "Public Key", "Short ID",
                "SNI", "Host", "ALPN", "WS Path", "Transport", "TLS", "Reality"}
    IN  [reproducible |-> fields, not_reproducible |-> (all \ fields) \cup ServerSideFields]

----------------------------------------------------------------------------
(* Reputation of an address.  Every failure of a DNSBL query, a timeout    *)
(* too, counts as not listed.                                              *)

DnsblHits(answers) == \E z \in DOMAIN answers : answers[z] = "listed"

\* The organisations whose name holds one of the data centre keywords.
ThreatOrgs == {"hosting", "cloudflare", "cloudfront", "arvan", "amazon"}

ThreatIntel(ip, answers) ==
    LET datacenter == ip.datacenter # "" \/ ip.org \in ThreatOrgs
        residential == ip.org = "telecom" /\ ~datacenter
        hits == DnsblHits(answers)
    IN  [ip |-> ip.ip, is_datacenter |-> datacenter, is_residential |-> residential, hits |-> hits,
         score |-> Clamp(70 - (IF datacenter THEN 5 ELSE 0) + (IF residential THEN 10 ELSE 0)
                         + (IF ip.cdn # "" THEN 5 ELSE 0) - (IF hits THEN 30 ELSE 0), 0, 100)]

----------------------------------------------------------------------------
(* Tunnel topologies.  A match has its confidence, the kinds of evidence   *)
(* it lists and the place where the code appends it: equal confidences     *)
(* keep that order.  The specific CDNs come out of a Python set, so their  *)
(* order is an input (setOrder) and not a function of the observations.    *)

Match(id, conf, evidence, place) ==
    [id |-> id, conf |-> conf, evidence |-> evidence, place |-> place]

CdnTunnels == {<<"Cloudflare", "cloudflare_cdn">>, <<"ArvanCloud", "arvan_cdn">>,
               <<"Akamai", "akamai_cdn">>, <<"Fastly", "fastly_cdn">>,
               <<"CloudFront", "cloudfront_cdn">>, <<"Bunny", "bunny_cdn">>, <<"Gcore", "gcore_cdn">>}

ProtocolMatches(c) ==
    Selected(<<
        <<c.protocol = "WireGuard", Match("wireguard_tunnel", 95, {"protocol", "endpoint"}, 10)>>,
        <<c.protocol = "OpenVPN", Match("openvpn_tunnel", 95, {"protocol", "endpoint"}, 10)>>,
        <<c.protocol = "Hysteria2", Match("hysteria2_quic", 95,
             {"protocol", "endpoint"} \cup (IF c.sni # "" THEN {"sni"} ELSE {}), 10)>>,
        <<c.protocol = "TUIC", Match("tuic_quic", 95, {"protocol", "endpoint"}, 10)>>,
        <<c.reality, Match("reality_camouflage", 92,
             Selected(<< <<TRUE, "security">>, <<c.sni # "", "sni">>, <<c.public_key, "pbk">> >>), 20)>> >>)

DetectedCdns(net, conn) ==
    {ip.cdn : ip \in {i \in net : i.cdn # "" /\ i.conf >= 72}}
        \cup (IF conn.http_cdn = "" THEN {} ELSE {conn.http_cdn})

PrimaryCdn(dep, conn) == IF dep.cdn_type # "" THEN dep.cdn_type ELSE conn.http_cdn

CdnNames == {"cloudflare", "arvan", "akamai", "fastly", "cloudfront"}

CdnMatches(c, dns, net, conn, dep, setOrder) ==
    LET onCdn == CdnIn(net)
        confs(S) == {ip.conf : ip \in S}
        signal == onCdn # {} \/ PrimaryCdn(dep, conn) # "" \/ dns.cname \cap CdnNames # {}
        listed == Selected(<<
            <<TRUE, "cdn_type">>, <<conn.http_server # "", "http_server">>,
            <<dep.cdn_ips # {} \/ dns.a # {}, "ips">>, <<IsIp(c.address) /\ c.sni # "", "link_ip">> >>)
    IN  (IF ~signal THEN {}
         ELSE {Match("cdn_fronting", IF onCdn = {} THEN 55 ELSE Min({95, Max(confs(onCdn)) + 5}), listed, 30)})
        \cup {LET own == {ip \in net : ip.cdn = t[1]} IN
              Match(t[2], Min({98, (IF own = {} THEN 70 ELSE Max(confs(own))) + 5}),
                    Selected(<< <<TRUE, "cdn">>, <<own # {}, "ips">>,
                                <<\E ip \in own : ip.asn # "", "asn">> >>), 40 + setOrder[t[1]]) :
              t \in {u \in CdnTunnels : u[1] \in DetectedCdns(net, conn)}}

DirectVpsMatch(c, dns, net, conn, dep) ==
    LET direct == IsIp(c.address)
        first == {n \in net : n.pos = 1 /\ n.is_datacenter}
        named == ~direct /\ dns.a # {}
    IN  IF CdnIn(net) # {} \/ PrimaryCdn(dep, conn) # "" THEN {}
        ELSE {Match("direct_vps",
                    FirstOf(<< <<direct, 75>>, <<first # {}, 70>>, <<named, 60>> >>, 45),
                    Selected(<< <<direct, "direct_ip">>, <<first # {}, "datacenter">>,
                                <<named, "dns_a">> >>), 60)}

\* An inbound of Xray itself is claimed only for a verified run without any CDN edge.
DirectInboundMatch(net, conn, dep, verified) ==
    IF verified /\ conn.http_reverse_proxy = "" /\ CdnIn(net) = {} /\ PrimaryCdn(dep, conn) = ""
    THEN {Match("direct_xray_inbound", IF conn.http_panel THEN 78 ELSE 62,
                {"internet_e2e_verified", "no_proxy_header"} \cup (IF conn.http_panel THEN {"panel"} ELSE {}), 70)}
    ELSE {}

ReverseProxyMatch(c, conn, dep, verified) ==
    LET guessed == dep.guesses["Reverse Proxy"]
        seen == conn.http_reverse_proxy # ""
        raised == FirstOf(<<
            <<seen, Max({guessed, 72})>>,
            <<EffectiveTransport(c) \in {"WebSocket", "XHTTP", "gRPC", "HTTPUpgrade"}, Max({guessed, 35})>> >>,
            guessed)
        conf == Min({raised} \cup (IF conn.http_cdn # "" /\ ~seen THEN {30} ELSE {})
                             \cup (IF verified /\ ~seen THEN {28} ELSE {}))
    IN  IF conf < 45 THEN {}
        ELSE {Match("reverse_proxy", conf, {"transport", "heuristic"}
                    \cup (IF conn.http_response # "Pending" THEN {"http_test"} ELSE {}), 80)}

RemarkMatches(c, net, hops) ==
    LET hinted == c.remark \cap {"frp", "nps", "ngrok", "bore", "rathole", "nat"} # {}
        odd == c.port \notin {443, 8443, 2053, 2083, 80, 8080, 8880} /\ CdnIn(net) = {}
        relay == c.remark \cap {"relay", "chain", "multi", "hop", "warp"} # {}
        far == hops >= 14
    IN  Selected(<<
            <<hinted, Match("reverse_tunnel_frp", 72, {"remark"}, 90)>>,
            <<~hinted /\ odd, Match("reverse_tunnel_frp", 38, {"port"}, 90)>>,
            <<relay \/ far, Match("multi_hop", IF relay THEN 55 ELSE 42,
                 Selected(<< <<far, "hops">>, <<relay, "remark">> >>), 130)>>,
            <<"ssh" \in c.remark \/ c.port = 22, Match("ssh_tunnel", 50, {"port"}, 150)>>,
            <<"gost" \in c.remark, Match("gost_relay", 65, {"remark"}, 160)>> >>)

FrontingMatches(c, dns, net) ==
    Selected(<<
        <<"cfargotunnel" \in dns.cname, Match("cloudflare_tunnel", 88, {"CNAME"}, 50)>>,
        <<IsIp(c.address) /\ c.sni \notin {"", c.address},
          Match("sni_fronting", 85, {"connect_ip", "sni"} \cup (IF dns.a # {} THEN {"dns"} ELSE {}), 100)>>,
        <<c.host # "" /\ c.sni # "" /\ c.host # c.sni, Match("host_sni_split", 80, {"host", "sni"}, 110)>>,
        <<EffectiveTransport(c) = "XHTTP" /\ ("dl" \in c.remark \/ c.download),
          Match("xhttp_split", 78, {"transport", "download"} \cup (IF c.alpn # {} THEN {"alpn"} ELSE {}), 120)>>,
        <<Cardinality(dns.a) >= 2,
          Match("load_balancer", 55, {"count", "records"}
                \cup (IF \E ip \in net : ip.asn # "" THEN {"asns"} ELSE {}), 140)>> >>)

DetectedTunnels(r) ==
    ProtocolMatches(r.cfg)
        \cup CdnMatches(r.cfg, r.dns, r.net, r.conn, r.dep, r.setOrder)
        \cup FrontingMatches(r.cfg, r.dns, r.net)
        \cup DirectVpsMatch(r.cfg, r.dns, r.net, r.conn, r.dep)
        \cup DirectInboundMatch(r.net, r.conn, r.dep, LiveProxyOk(r))
        \cup ReverseProxyMatch(r.cfg, r.conn, r.dep, LiveProxyOk(r))
        \cup RemarkMatches(r.cfg, r.net, r.trace)

\* The candidates for the first place of the sorted list.
PrimaryTunnels(matches) ==
    {m \in matches : \A o \in matches :
        m.conf > o.conf \/ (m.conf = o.conf /\ m.place <= o.place)}

=============================================================================
