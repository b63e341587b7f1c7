---------------------------- MODULE ResultSummary ----------------------------
(***************************************************************************)
(* The Result tab (src/backend/result_summary.py): scenarios ranked from   *)
(* the tunnel matches and the deployment guesses of a finished analysis,   *)
(* the verdict and what each section of the report says.  A sentence is a  *)
(* tag; a section that always prints the same text is left out.  Scenarios *)
(* of equal confidence are not ordered: the primary is any of the best.    *)
(***************************************************************************)
EXTENDS Guide

SecurityLabel(c) == FirstOf(<< <<c.reality, "REALITY">>, <<c.tls, "TLS">> >>, "PLAIN")

ProxyOk(r) == r.xray.proxy_test = "Valid"

\* Countries of the address connected to and of the exit; "" is not known.
EdgeCountry(r) == IF r.net = {} THEN "" ELSE (CHOOSE n \in r.net : n.pos = 1).country

\* From the lookup of the exit, else from the same address in the network tab.
ExitCountry(r) ==
    IF ExitIp(r) = "" THEN ""
    ELSE FirstOf(<< <<r.exit_intel # "", r.exit_intel>> >>,
                 LET same == {n \in r.net : n.ip = ExitIp(r) /\ n.country # ""}
                 IN  IF same # {} THEN (CHOOSE n \in same : TRUE).country ELSE r.xray.exit_country)

EdgeProven(r) == CdnFrontingTier(r) = "confirmed"

EdgeRoute(r) ==
    FirstOf(<< <<EdgeProven(r) /\ r.dep.cdn_type # "", "edge, origin hidden">>,
               <<EdgeCountry(r) # "", "server country">> >>, "route")

Verdict(r) ==
    {r.arch.assessment.title, SecurityLabel(r.cfg), IF ProxyOk(r) THEN "E2E OK" ELSE "E2E not verified"}
    \cup Selected(<<
        <<ExitIp(r) # "", "exit IP observed">>,
        <<CdnFrontingTier(r) = "confirmed", "CDN fronting confirmed">>,
        <<CdnFrontingTier(r) = "probable", "CDN fronting probable">> >>)

OriginAlternatives(r) ==
    LET known == ExitCountry(r) # "" /\ EdgeCountry(r) # ""
    IN  IF ~EdgeProven(r) THEN {}
        ELSE FirstOf(<<
            <<known /\ ExitCountry(r) # EdgeCountry(r), {<<"foreign origin", 78>>, <<"egress relay", 15>>}>>,
            <<known, {<<"regional origin", 55>>, <<"foreign origin", 25>>}>> >>,
            {<<"origin unknown", 0>>})

----------------------------------------------------------------------------
(* Ranking. *)

SummaryCap == 92
LowThreshold == 30

GuessTunnelId == [name \in GuessNames |->
    CASE name = "Direct VPS" -> "direct_vps"
      [] name = "CDN Fronted" -> "cdn_fronting"
      [] name = "Cloudflare CDN" -> "cloudflare_cdn"
      [] name = "Arvan CDN" -> "arvan_cdn"
      [] name = "Akamai CDN" -> "akamai_cdn"
      [] name = "Fastly CDN" -> "fastly_cdn"
      [] name = "AWS CloudFront" -> "cloudfront_cdn"
      [] name = "BunnyCDN" -> "bunny_cdn"
      [] name = "Gcore CDN" -> "gcore_cdn"
      [] name = "Reverse Proxy" -> "reverse_proxy"
      [] name = "Cloudflare Tunnel" -> "cloudflare_tunnel"
      [] name = "SNI Fronting" -> "sni_fronting"
      [] name = "Reverse Tunnel" -> "reverse_tunnel_frp"
      [] name = "Multi Hop" -> "multi_hop"]

Category(id) ==
    FirstOf(<<
        <<id \in CdnTunnelIds, "cdn">>, <<id = "reverse_proxy", "reverse_proxy">>,
        <<id \in {"reverse_tunnel_frp", "ssh_tunnel", "gost_relay", "cloudflare_tunnel"}, "tunnel_agent">>,
        <<id = "reality_camouflage", "camouflage">>,
        <<id \in {"wireguard_tunnel", "openvpn_tunnel", "hysteria2_quic", "tuic_quic"}, "protocol_tunnel">>,
        <<id \in {"multi_hop", "load_balancer"}, "chain">>,
        <<id \in {"sni_fronting", "host_sni_split", "xhttp_split"}, "fronting">> >>, "direct")

BoostConfidence(id, base, r) ==
    LET cdn == IF id \in CdnTunnelIds THEN 1 ELSE 0
        named == IF r.dep.cdn_type # "" THEN 3 ELSE 0
        abroad == IF ExitIp(r) # "" /\ r.xray.exit_country # "" /\ EdgeCountry(r) # ""
                     /\ r.xray.exit_country # EdgeCountry(r) THEN 2 ELSE 0
        direct == IF id = "direct_vps" /\ r.dep.cdn_type = "" /\ CdnIn(r.net) = {} THEN 5 ELSE 0
        raised == base + cdn * (named + abroad) + direct
        floor == FirstOf(<< <<id = "reality_camouflage" /\ r.cfg.reality, 90>>,
                            <<id = "cloudflare_tunnel" /\ "cfargotunnel" \in r.dns.cname, 88>> >>, 0)
    IN  Min({SummaryCap, Max({raised, floor})})

\* A match or a guess of each topology; the guess replaces a weaker match.
RankedScenarios(r) ==
    LET tier == CdnFrontingTier(r)
        matched == {m.id : m \in r.tun.detected}
        guessed == {GuessTunnelId[g.name] : g \in r.dep.guesses}
        ofMatch(id) == Max({CapTunnelConfidence(id, BoostConfidence(id, m.conf, r), tier) :
                            m \in {d \in r.tun.detected : d.id = id}})
        ofGuess(id) == Max({g.conf : g \in {h \in r.dep.guesses : GuessTunnelId[h.name] = id}})
        conf(id) == IF id \notin guessed THEN ofMatch(id)
                    ELSE IF id \in matched /\ ofGuess(id) <= ofMatch(id) THEN ofMatch(id)
                    ELSE BoostConfidence(id, ofGuess(id), r)
    IN  {[id |-> id, conf |-> conf(id)] : id \in matched \cup guessed}

\* Capped once more by what the wire showed.
PostProcessRanked(r, ranked) ==
    LET specific == \E s \in ranked : s.id \in CdnTunnelIds \ {"cdn_fronting"} /\ s.conf >= 70
        capped(s) == Min({s.conf, SummaryCap}
                         \cup (IF s.id = "cdn_fronting" /\ specific THEN {72} ELSE {}))
        aligned(s) == CapTunnelConfidence(s.id, capped(s), CdnFrontingTier(r))
        anycast(s) == s.id = "load_balancer" /\ r.dep.cdn_type # "" /\ Cardinality(r.dns.a) >= 2
    IN  {[s EXCEPT !.conf = Min({aligned(s)}
              \cup (IF EdgeProven(r) /\ s.id = "direct_vps" THEN {22} ELSE {})
              \cup (IF anycast(s) THEN {32} ELSE {}))] : s \in ranked}

Ranked(r) == PostProcessRanked(r, RankedScenarios(r))

Primaries(ranked) == {s \in ranked : \A o \in ranked : o.conf <= s.conf}

\* Weak scenarios leave the main list only when the first one is strong.
LowRanked(ranked) ==
    IF \A s \in ranked : s.conf < 80 THEN {} ELSE {s \in ranked : s.conf < LowThreshold}

----------------------------------------------------------------------------
(* Sections. *)

DnsSummary(dns) ==
    Selected(<< <<dns.a # {}, "local A">>, <<dns.doh_differs, "DoH">>, <<dns.all # {}, "union">>,
                <<dns.split, "split DNS">> >>)

HttpFingerprintSummary(conn) ==
    Selected(<< <<conn.http_server # "", "server header">>, <<conn.http_cdn # "", "CDN from HTTP">>,
                <<conn.http_panel, "panel">>, <<conn.http_reverse_proxy # "", "reverse proxy">>,
                <<conn.http_reverse_proxy = "" /\ conn.http_server # "" /\ conn.http_cdn # "",
                  "no reverse proxy">> >>)

ConnectivitySummary(r) ==
    LET conn == r.conn IN
    Selected(<<
        <<conn.dns_resolve # "Pending", "dns">>, <<conn.tcp_connect # "Pending", "tcp">>,
        <<conn.tls_handshake # "Pending", "tls">>, <<conn.http_baseline # "Pending", "baseline">>,
        <<conn.websocket_upgrade # "Pending", "ws">>, <<conn.http_response # "Pending", "http">>,
        <<conn.p95 > 0, "latency benchmark">>, <<conn.ws_validated, "ws 101 validated">>,
        <<~conn.ws_validated /\ conn.websocket_upgrade = "Invalid", "ws note">>,
        <<ProxyOk(r) /\ conn.websocket_upgrade = "Invalid", "trust live test">> >>)

\* Slow is excused when a CDN is named.
LatencyInterpretation(r) ==
    {FirstOf(<< <<r.xray.latency = 0, "no round-trip">>, <<r.xray.latency < 150, "excellent">>,
                <<r.xray.latency < 350, "good">>, <<r.xray.latency < 600, "moderate">> >>, "slow")}
    \cup (IF r.xray.latency > 500 /\ r.dep.cdn_type # "" THEN {"expected with CDN"} ELSE {})

StealthProfile(r) ==
    [dpi |-> r.dpi.score, camouflage |-> r.camouflage.score, origin |-> r.origin.score,
     factors |-> {f.title : f \in r.dpi.factors \cup r.camouflage.factors \cup r.origin.factors},
     insights |-> r.insights]

IranContext(r) ==
    Selected(<<
        <<~r.cfg.tls /\ ~r.cfg.reality, "plain, high risk">>,
        <<r.cfg.transport = "WebSocket", "WebSocket fingerprintable">>,
        <<r.dep.cdn_type = "ArvanCloud", "Arvan good for Iran">> >>)

\* The layers of the stack, client first.
ArchitectureLayers(r, ranked) ==
    <<"client">> \o
    (IF EdgeProven(r) /\ r.dep.cdn_type # "" /\ r.net # {} THEN <<"edge", "origin hidden">>
     ELSE IF r.net # {} THEN <<"connect target">> ELSE << >>) \o
    (IF EffectiveTransport(r.cfg) \in Proxied /\ \E s \in ranked : s.id = "reverse_proxy" /\ s.conf >= 40
     THEN <<"reverse proxy">> ELSE << >>) \o
    <<IF \E s \in ranked : Category(s.id) = "camouflage" /\ s.conf >= 40 THEN "REALITY inbound" ELSE "inbound",
      IF ExitIp(r) # "" THEN "egress" ELSE "egress unknown">>

CatalogIds == CdnTunnelIds \cup DirectTopologyIds \cup
    {"cloudflare_tunnel", "reverse_proxy", "reverse_tunnel_frp", "sni_fronting", "host_sni_split",
     "xhttp_split", "reality_camouflage", "multi_hop", "wireguard_tunnel", "openvpn_tunnel",
     "hysteria2_quic", "tuic_quic", "load_balancer", "ssh_tunnel", "gost_relay"}

CatalogCoverage(r, ranked) ==
    [id \in CatalogIds |->
        CatalogStatus(id, Max({0} \cup {s.conf : s \in {t \in ranked : t.id = id}}), CdnFrontingTier(r))]

GeoNote(r) ==
    LET cdn == r.dep.cdn_type # "" IN
    {EdgeRoute(r)} \cup Selected(<<
        <<cdn, "edge is not the origin country">>,
        <<ExitIp(r) # "", "egress observed">>, <<ExitIp(r) = "", "egress unknown">>,
        <<cdn /\ ExitCountry(r) # "" /\ EdgeCountry(r) # "" /\ ExitCountry(r) # EdgeCountry(r),
          "origin in egress country">>,
        <<cdn, "origin IP hidden">>,
        <<~cdn /\ r.dep.real_server_ip # "", "origin IP direct">> >>)

BuildOrder(r, primaries) ==
    LET c == r.cfg
        cdn == r.dep.cdn_type # "" IN
    {"verify", "distribute", IF cdn THEN "CDN provider" ELSE "direct VPS"} \cup Selected(<<
        <<primaries # {}, "target scenario">>,
        <<cdn /\ ExitCountry(r) # "", "origin in exit country">>,
        <<cdn, "origin and CDN account">>, <<~cdn, "public VPS">>,
        <<~cdn /\ (c.protocol \in {"Hysteria2", "TUIC"} \/ EffectiveTransport(c) = "QUIC"), "UDP">>,
        <<c.reality, "REALITY SNI">>,
        <<EffectiveTransport(c) \in Proxied, IF c.tls THEN "terminate TLS" ELSE "plain proxy">>,
        <<cdn, "CDN configuration">>, <<~c.tls /\ ~c.reality, "upgrade first">> >>)

Summary(r) ==
    LET ranked == Ranked(r)
        primaries == Primaries(ranked)
    IN  [verdict |-> Verdict(r), ranked |-> ranked, primaries |-> primaries, low |-> LowRanked(ranked),
         cdn |-> r.dep.cdn_type, primary_tunnel |-> r.tun.primary_type,
         exit |-> IF ExitIp(r) = "" THEN "N/A" ELSE r.xray.proxy_test,
         stealth |-> StealthProfile(r), geography |-> GeoNote(r),
         alternatives |-> IF r.dep.cdn_type # "" THEN OriginAlternatives(r) ELSE {},
         dns |-> DnsSummary(r.dns), http |-> HttpFingerprintSummary(r.conn),
         connectivity |-> ConnectivitySummary(r), latency |-> LatencyInterpretation(r),
         layers |-> ArchitectureLayers(r, ranked), catalog |-> CatalogCoverage(r, ranked),
         unknowns |-> r.dep.uncertain, order |-> BuildOrder(r, primaries), iran |-> IranContext(r),
         warning |-> ~r.cfg.tls /\ ~r.cfg.reality]

=============================================================================
