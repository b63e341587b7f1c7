------------------------------ MODULE Optimizer ------------------------------
(***************************************************************************)
(* Advice for a seller (src/backend/config_optimizer.py): the ranking of   *)
(* the resolved addresses, the improved config, the actions with their     *)
(* gains, the Iran score and the sell readiness, the delivery checklist    *)
(* and the message for support.  An action is [title, priority, gain];     *)
(* what counts in favour of the config is a credit [for, iran, sell].      *)
(* A leak is "yes", "no" or, when nothing was measured, "none".            *)
(***************************************************************************)
EXTENDS Architecture

Offer(title, priority, gain) == [title |-> title, priority |-> priority, gain |-> gain]
Credit(for, iran, sell) == [for |-> for, iran |-> iran, sell |-> sell]

PlainWs(c) == /\ ~c.tls
              /\ ~c.reality
              /\ c.security \in {"", "none"}
              /\ c.transport = "WebSocket"

----------------------------------------------------------------------------
(* Addresses.  Only resolved ones are compared with the blocklists: a      *)
(* literal address is ranked by its reputation alone.                      *)

RankedIp(ip, pos, reputation, hits, cdn) ==
    [ip |-> ip, pos |-> pos, hits |-> hits,
     score |-> Clamp(reputation - (IF hits THEN 40 ELSE 0) + (IF cdn THEN 5 ELSE 0), 0, 100)]

RankResolved(r, ip) ==
    LET intel == {n \in r.net : n.ip = ip}
        threats == {t \in r.threat : t.ip = ip}
    IN  RankedIp(ip, Min({n.pos : n \in intel} \cup {LookedUp + 1}),
                 FirstOf(<< <<intel # {}, Min({n.rep : n \in intel} \cup {100})>>,
                            <<threats # {}, Min({t.score : t \in threats} \cup {100})>> >>, 50),
                 \E t \in threats : t.hits,
                 \E n \in intel : n.cdn # "")

RankIps(r) ==
    IF r.dns.all # {} THEN {RankResolved(r, ip) : ip \in r.dns.all}
    ELSE IF ~IsIp(r.cfg.address) THEN {}
    ELSE {RankedIp(r.cfg.address, 1, Min({n.rep : n \in {m \in r.net : m.pos = 1}}
                                      \cup (IF r.net = {} THEN {50} ELSE {100})), FALSE, FALSE)}

\* The best of equals is the first resolved one.
BestIps(rankings) ==
    {b \in rankings : \A o \in rankings :
        o.score < b.score \/ (o.score = b.score /\ b.pos <= o.pos)}

----------------------------------------------------------------------------
(* The config the optimiser would have written. *)

ApplyBlueprint(c) ==
    LET vless == c.protocol = "VLESS"
        secured == vless /\ (c.reality \/ c.tls)
    IN  [c EXCEPT
            !.fingerprint = IF secured /\ @ = "" THEN "chrome" ELSE @,
            !.flow = IF vless /\ c.reality /\ @ = "" THEN "vision" ELSE @,
            !.port = IF vless /\ ~PlainWs(c) /\ @ \notin {443, 8443} THEN 443 ELSE @,
            !.allow_insecure = ~vless /\ @,
            !.path = IF vless /\ c.transport = "WebSocket" /\ @ = "" THEN "/" ELSE @,
            !.host = IF ~IsIp(c.address) /\ c.sni \notin {"", c.address} /\ @ = "" THEN c.sni ELSE @]

BuildBlueprint(c) ==
    LET opt == ApplyBlueprint(c)
    IN  [config |-> opt,
         security |-> FirstOf(<< <<opt.reality, "reality">>, <<opt.tls, "tls">> >>, "none"),
         notes |-> Selected(<<
             <<opt.reality /\ ~opt.public_key, "REALITY keys">>,
             <<IsIp(opt.address), "CDN domain">>,
             <<opt.transport = "WebSocket", "WebSocket deprecated">> >>)]

ServerRecipe(c, blueprint, topGuess) ==
    (IF blueprint.security = "reality" THEN {"REALITY inbound", "REALITY keys"}
     ELSE {"TLS inbound", "certificate"}) \cup
    Selected(<<
        <<topGuess \in {"Cloudflare CDN", "Cloudflare Tunnel"}, "Cloudflare">>,
        <<topGuess = "Arvan CDN", "Arvan">>,
        <<c.protocol \notin {"VLESS", "Trojan"}, "migrate to VLESS+REALITY">> >>)

----------------------------------------------------------------------------
(* Actions and credits. *)

Working(r) == r.xray.proxy_test = "Valid"

BuyerSites == {"YouTube", "Telegram"}
SellerSites == BuyerSites \cup {"Google"}

SitesOf(r, status) == {s.name : s \in {t \in r.xray.sites : t.status = status}}

LiveActions(r) ==
    Selected(<<
        <<~Working(r) /\ r.xray.status = "Skipped", Offer("Run live Xray test", 1, 20)>>,
        <<~Working(r) /\ r.xray.status # "Skipped", Offer("Proxy not working", 1, 25)>>,
        <<r.xray.ip_leak = "yes", Offer("IP leak", 1, 15)>>,
        <<r.xray.dns_leak = "yes", Offer("DNS leak", 1, 10)>>,
        <<~r.valid, Offer("Validation errors", 1, 10)>>,
        <<r.conn.p95 > 400, Offer("High ping", 3, 5)>>,
        <<r.xray.speed_test = "Valid" /\ r.xray.mbps = 1, Offer("Low speed", 3, 3)>>,
        <<r.dns.doh_differs, Offer("Local DNS vs DoH mismatch", 2, 8)>> >>)
    \cup {Offer(site, 2, 10) : site \in BuyerSites \cap SitesOf(r, "Invalid")}

\* A leak nobody looked for is credited like one that was ruled out.
LiveCredits(r) ==
    Selected(<<
        <<Working(r), Credit("live", 18, 25)>>,
        <<r.xray.ip_leak # "yes", Credit("ip_leak", 10, 10)>>,
        <<r.xray.dns_leak = "no", Credit("dns_leak", 5, 5)>>,
        <<r.conn.p95 \in 1..249, Credit("ping", 8, 10)>>,
        <<r.xray.mbps >= 5, Credit("speed", 0, 10)>> >>)
    \cup {Credit(site, 5, 5) : site \in BuyerSites \cap SitesOf(r, "Valid")}

OnTls(c) == c.tls \/ c.reality \/ c.security = "tls"

ConfigActions(c) ==
    Selected(<<
        <<c.protocol = "VMESS", Offer("Migrate from VMess", 2, 15)>>,
        <<~c.reality /\ ~PlainWs(c), Offer("Enable REALITY", 2, 20)>>,
        <<PlainWs(c), Offer("Optional upgrade path", 3, 5)>>,
        <<c.reality /\ c.flow = "", Offer("Set flow", 2, 8)>>,
        <<c.allow_insecure, Offer("Disable allowInsecure", 2, 12)>>,
        <<c.fingerprint = "" /\ (c.tls \/ c.reality), Offer("Browser fingerprint", 2, 8)>>,
        <<c.port # 443 /\ OnTls(c), Offer("Use port 443", 2, 8)>>,
        <<c.port \notin {443} \cup (IF PlainWs(c) THEN {80} ELSE {}) /\ ~OnTls(c),
          Offer("Port strategy", 3, 4)>>,
        <<IsIp(c.address), Offer("Use domain instead of IP", 2, 10)>>,
        <<c.transport = "WebSocket", Offer("WebSocket transport", 3, 5)>>,
        <<c.sni # "" /\ ~IsIp(c.address) /\ c.host = ""
            /\ c.transport \in {"WebSocket", "gRPC", "XHTTP"}, Offer("Host header", 3, 4)>> >>)

ConfigCredits(c) ==
    Selected(<<
        <<c.protocol = "VMESS", Credit("protocol", 5, 0)>>,
        <<c.protocol = "VLESS", Credit("protocol", 8, 5)>>,
        <<c.reality, Credit("reality", 22, 10)>>,
        <<c.reality /\ c.flow # "", Credit("flow", 8, 0)>>,
        <<~c.allow_insecure, Credit("verification", 6, 0)>>,
        <<c.fingerprint # "", Credit("fingerprint", 6, 0)>>,
        <<c.port = 443, Credit("port", 6, 0)>>,
        <<~IsIp(c.address), Credit("domain", 5, 5)>>,
        <<c.transport \in {"XHTTP", "gRPC", "TCP"}, Credit("transport", 5, 0)>> >>)

\* The address at the head of the ranking, the certificate and the CDN.
ServerActions(r, best) ==
    Selected(<<
        <<best # {} /\ \E b \in best : b.hits, Offer("IP on blocklist", 1, 20)>>,
        <<best # {} /\ \A b \in best : ~b.hits /\ b.score < 65, Offer("Average IP quality", 3, 5)>>,
        <<r.tls.expired, Offer("Expired certificate", 1, 15)>>,
        <<~r.tls.expired /\ r.tls.enabled /\ \E d \in r.tls.days : d < 14, Offer("Certificate expiring soon", 3, 5)>>,
        <<CdnFrontingTier(r) # "confirmed" /\ ~IsIp(r.cfg.address) /\ ~PlainWs(r.cfg),
          Offer("Optional CDN fronting", 3, 5)>> >>)

ServerCredits(r, best) ==
    Selected(<<
        <<best # {} /\ \A b \in best : ~b.hits /\ b.score >= 65, Credit("clean_ip", 12, 8)>>,
        <<~r.tls.expired /\ r.tls.enabled /\ \E d \in r.tls.days : d >= 14, Credit("certificate", 4, 0)>>,
        <<CdnFrontingTier(r) = "confirmed", Credit("cdn", 8, 0)>> >>)

IranGrade(score) ==
    FirstOf(<< <<score >= 85, "A">>, <<score >= 70, "B">>, <<score >= 55, "C">>,
               <<score >= 40, "D">> >>, "F")

\* [title, done]: a row without a measurement is never ticked.
DeliveryChecklist(r, iran) ==
    {[item |-> "valid", done |-> r.valid],
     [item |-> "tcp", done |-> r.conn.tcp_connect = "Valid"],
     [item |-> "allow_insecure", done |-> ~r.cfg.allow_insecure],
     [item |-> "encryption", done |-> r.cfg.reality \/ (r.cfg.tls /\ r.security.score >= 60)],
     [item |-> "live", done |-> Working(r)],
     [item |-> "ip_leak", done |-> r.xray.ip_leak = "no"],
     [item |-> "dns_leak", done |-> r.xray.dns_leak = "no"],
     [item |-> "security", done |-> r.security.score >= 65],
     [item |-> "iran", done |-> iran >= 60]}
    \cup {[item |-> s.name, done |-> s.status = "Valid"] :
            s \in {t \in r.xray.sites : t.name \in SellerSites}}
    \cup (IF r.conn.p95 = 0 THEN {} ELSE {[item |-> "p95", done |-> r.conn.p95 < 350]})

\* The sentence about the leak has two values for three measurements.
SupportMessage(r) ==
    [proxy |-> r.xray.proxy_test,
     sites |-> IF r.xray.sites = {} THEN {"not tested"} ELSE {s.name : s \in r.xray.sites},
     leak |-> IF r.xray.ip_leak = "yes" THEN "IP LEAK" ELSE "no leak"]

ConfigOptimization(r, topGuess) ==
    LET rankings == RankIps(r)
        best == BestIps(rankings)
        actions == LiveActions(r) \cup ConfigActions(r.cfg) \cup ServerActions(r, best)
        credits == LiveCredits(r) \cup ConfigCredits(r.cfg) \cup ServerCredits(r, best)
        criticals == Cardinality({a \in actions : a.priority = 1})
        iran == Max({0, Clamp(SumFunction([k \in credits |-> k.iran]), 0, 100) - 8 * criticals})
        sell == Max({0, Clamp(SumFunction([k \in credits |-> k.sell]), 0, 100) - 12 * criticals})
    IN  [iran |-> iran, sell |-> sell, grade |-> IranGrade(iran), actions |-> actions,
         best_ip |-> best, blueprint |-> BuildBlueprint(r.cfg),
         suggested |-> BuildShareLink(ApplyBlueprint(r.cfg)),
         recipe |-> ServerRecipe(r.cfg, BuildBlueprint(r.cfg), topGuess),
         verdict |-> FirstOf(<< <<sell >= 75 /\ iran >= 70, "Ready to sell">>,
                                <<sell >= 50, "Sellable with fixes">> >>, "Not ready"),
         checklist |-> DeliveryChecklist(r, iran), support |-> SupportMessage(r)]

=============================================================================
