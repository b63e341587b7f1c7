------------------------------ MODULE MCPipeline ------------------------------
(* Links, answers and settings small enough to try every combination.      *)
EXTENDS Pipeline

MCIps == {"edge", "vps", "vps2", "v6", "exit"}
MCCloudflareIps == {"edge"}

\* "v6" has colons and stands between brackets in a link.
MCIpv6 == {"v6"}
MCHostname(text) == CASE text = "[v6]" -> "v6" [] text = "VPS.example" -> "vps.example" [] OTHER -> text
MCQuote(id) == CASE id = "pass word" -> "pass%20word" [] id = "pass%20word" -> "pass%2520word" [] OTHER -> id

\* A link and the settings of an outbound.
Link(scheme, host, port, params) ==
    [scheme |-> scheme, user |-> "uuid", pass |-> "", host |-> host, port |-> port, params |-> params,
     repeated |-> {}, fragment |-> {}]

WebSocket == [type |-> "ws", security |-> "tls", sni |-> "a.example", host |-> "a.example",
              path |-> "/long/path", fp |-> "chrome"]
Reality == [type |-> "tcp", security |-> "reality", pbk |-> "pbk", sid |-> "sid", sni |-> "dest.example",
            fp |-> "chrome", flow |-> "vision"]

Outbound == [protocol |-> "vless",
             settings |-> [vnext |-> <<[address |-> "vps", port |-> 8443, secret |-> "uuid"]>>],
             stream |-> [network |-> "ws", security |-> "tls", tlsSettings |-> [serverName |-> "dest.example"],
                         wsSettings |-> [path |-> "/", host |-> "dest.example"]]]

MCLinks == {
    Link("vless", "a.example", 443, WebSocket),
    \* REALITY to a literal address, and to a name without a flow
    Link("vless", "vps", 443, Reality),
    Link("vless", "a.example", 8443, [k \in DOMAIN Reality \ {"flow", "sid"} |-> Reality[k]]),
    \* WebSocket without TLS
    Link("vless", "a.example", 80, [type |-> "ws", security |-> "none", path |-> "/", host |-> "h.example"]),
    \* an edge address with a name in the SNI
    Link("vless", "edge", 443, [WebSocket EXCEPT !.host = "h.example"]),
    \* TLS on a port the fingerprint probe asks in the clear
    [Link("trojan", "a.example", 2087, [type |-> "grpc", allowInsecure |-> "1"]) EXCEPT !.fragment = {"relay"}],
    Link("vmess", "", 0, [add |-> "a.example", port |-> 443, id |-> "uuid", net |-> "xhttp", tls |-> "tls",
                          host |-> "a.example", alpn |-> {"h2"}]),
    Link("hysteria2", "a.example", 0, [sni |-> "a.example"]),
    [Link("tuic", "a.example", 443, [sni |-> "a.example"]) EXCEPT !.pass = "password"],
    \* an IPv6 address, with its brackets and without
    Link("vless", "[v6]", 443, Reality),
    Link("vless", "v6", 443, Reality),
    \* a quoted id, and two values for a key nobody reads as text
    [Link("vless", "vps", 443, [type |-> "grpc", serviceName |-> "name", allowInsecure |-> "1"])
        EXCEPT !.user = "pass%20word", !.repeated = {"allowInsecure"}],
    \* a name the resolver cannot encode, a scheme without a parser, a key given twice
    Link("vless", "bad..name", 443, [type |-> "tcp"]),
    Link("wireguard", "a.example", 0, << >>),
    [Link("vless", "a.example", 443, WebSocket) EXCEPT !.repeated = {"type"}]}

MCTexts == {[kind |-> "links", links |-> <<l>>] : l \in MCLinks} \cup {
    [kind |-> "json", outbounds |-> <<Outbound>>],
    \* the servers of an outbound that has no vnext
    [kind |-> "json", outbounds |-> <<[Outbound EXCEPT !.protocol = "trojan",
        !.settings = [servers |-> <<[address |-> "vps", port |-> 443, secret |-> "uuid"]>>]]>>],
    \* REALITY, a host in capitals and an id with a blank
    [kind |-> "json", outbounds |-> <<[Outbound EXCEPT
        !.settings = [vnext |-> <<[address |-> "VPS.example", port |-> 8443, secret |-> "pass word"]>>],
        !.stream = [network |-> "tcp", security |-> "reality",
                    realitySettings |-> [serverName |-> "dest.example", publicKey |-> TRUE, shortId |-> TRUE]]]>>],
    [kind |-> "conf"],
    [kind |-> "array"]}

MCShort == {"sid"}
MCBrief == {"sid", "password"}

MCUnencodable == {"bad..name"}

Answer == [a |-> <<"vps">>, doh |-> <<"vps">>, system |-> << >>, cname |-> {}, reverse |-> {},
           ns |-> [p \in {"ArvanCloud", "Cloudflare", "Hetzner"} |-> 0]]

MCDnsAnswers == {
    Answer,
    [Answer EXCEPT !.a = <<"edge">>, !.doh = <<"edge", "vps2">>, !.cname = {"cloudflare"},
                   !.ns = [@ EXCEPT !["Cloudflare"] = 1]],
    [Answer EXCEPT !.a = << >>, !.doh = << >>]}

NoInfo == [country |-> "", asn |-> "", org |-> ""]
Of(country, asn, org) == [geo |-> [country |-> country, asn |-> asn, org |-> org], whois |-> NoInfo]

MCNetAnswers == {
    [ip \in MCIps |-> IF ip = "edge" THEN Of("US", "cloudflare", "cloudflare") ELSE Of("DE", "other", "hosting")],
    [ip \in MCIps |-> IF ip = "edge" THEN Of("US", "", "") ELSE Of("IR", "arvan", "telecom")]}

Edge(header) == [status |-> 200, server |-> "cloudflare", headers |-> header, panel |-> FALSE]
Nginx == [status |-> 404, server |-> "nginx", headers |-> {}, panel |-> TRUE]
Over(h) == [https |-> h, http |-> [NoHttp EXCEPT !.status = 400]]

Handshake == [ok |-> TRUE, status |-> 101, upgrade |-> TRUE, connection |-> TRUE, accept |-> "right"]

Conn == [dns_ok |-> TRUE, tcp |-> TRUE, tls |-> TRUE, ws |-> Handshake, quic |-> NoHttp,
         baseline |-> Nginx, fingerprint |-> Over(Nginx), samples |-> <<90, 120, 500>>,
         attempts |-> <<TRUE, TRUE, TRUE, FALSE>>]

Fronted == [Conn EXCEPT !.baseline = Edge({"cf-ray"}), !.fingerprint = Over(Edge({"cf-ray"}))]
Unreachable == [Conn EXCEPT !.tcp = FALSE, !.baseline = NoHttp, !.fingerprint = Over(NoHttp),
                            !.ws = [@ EXCEPT !.ok = FALSE, !.status = 0], !.samples = << >>]

\* Every answer for the links over WebSocket, two for the others.
MCConnAnswers(c) ==
    IF c.transport # "WebSocket" THEN {Conn, Fronted}
    ELSE {Conn, Fronted, Unreachable,
          [Conn EXCEPT !.baseline = Edge({"x-cache"}), !.fingerprint = Over(Edge({})),
                       !.tls = FALSE, !.ws = [@ EXCEPT !.accept = "wrong"]]}

Certificate == [ok |-> TRUE, cipher |-> "modern", version |-> "1.3", issuer |-> "public_ca",
                alpn |-> {"h2"}, subject |-> "a.example", days |-> 60]

MCTlsAnswers == {Certificate, [Certificate EXCEPT !.days = -1], [Certificate EXCEPT !.ok = FALSE]}
MCRouteAnswers == {[late |-> FALSE, hops |-> <<"h1", "", "h3">>]}
MCCtAnswers == {[status |-> 200, matching |-> 9, rows |-> 20, top_issuer |-> 5]}
MCDnsblAnswers == {[ip \in MCIps |-> [z \in {"zen", "spamcop"} |-> IF ip = "vps" /\ z = "zen" THEN l ELSE "none"]]
                   : l \in {"none", "listed"}}
MCClients == {"IR"}

Run == [validation |-> "Valid", ready |-> TRUE, probe |-> 204, alive |-> "end", diagnosed |-> TRUE,
        direct |-> <<"exit", "exit">>, trace |-> [ip |-> "exit", country |-> "DE"], second |-> "exit",
        codes |-> [Google |-> 204, YouTube |-> 204, Telegram |-> 302], bytes |-> 1000000, mbps |-> 8,
        latency |-> 200]

MCOutcomes == {
    Run,
    [Run EXCEPT !.diagnosed = FALSE],
    [Run EXCEPT !.alive = "probe"],
    [Run EXCEPT !.probe = 502, !.alive = "probe"],
    [Run EXCEPT !.validation = "Invalid"]}

MCExitLookups == {"", "DE"}
MCSetOrders == {[label \in {t[1] : t \in CdnTunnels} |-> IF label = "Cloudflare" THEN 0 ELSE 1]}
MCEnvironments == {[scheme |-> TRUE, parts |-> {"scheme", "user", "password", "host"}]}
MCHooks == {"returned a result", "returned nothing"}

On == [run_test |-> TRUE, installed |-> TRUE, real |-> TRUE, threat |-> TRUE, route |-> TRUE,
       ct |-> TRUE, sync |-> TRUE, redact |-> TRUE]
MCSettings == {On, [On EXCEPT !.run_test = FALSE], [On EXCEPT !.real = FALSE, !.threat = FALSE]}

=============================================================================
