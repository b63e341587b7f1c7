------------------------------ MODULE ShareLink ------------------------------
(***************************************************************************)
(* From pasted text to configs and back to a link                          *)
(* (src/backend/config_parser.py, src/backend/share_link_builder.py).      *)
(*                                                                         *)
(* A link is [scheme, user, pass, host, port, params, repeated, fragment]: *)
(* user and host are the text as it stands between the slashes, escapes    *)
(* and brackets included, pass is unquoted; params is a function from the  *)
(* names of the query to their values, with the blank ones dropped as      *)
(* parse_qs does; a comma list is a set; port 0 is no port and a negative  *)
(* one is not a number or out of range.  `repeated' are the parameters     *)
(* that occur twice: parse_query_params makes lists of them.  The body of  *)
(* a vmess link is a function too.  Keys are present or not.               *)
(***************************************************************************)
EXTENDS Evidence, TLC

CONSTANTS
  Quote(_),     \* an id as urllib.parse.quote writes it
  Hostname(_),  \* the host urlparse reads in the text of one: lower case, no brackets
  Ipv6          \* addresses with colons: without brackets urlparse looks for the port in them

NoLink == [scheme |-> "none"]

\* ParsedConfig before anything is known; `extra' keeps the whole query.
NoConfig ==
    [protocol |-> "Unknown", address |-> "", port |-> 0, secret |-> "", password |-> "", flow |-> "",
     security |-> "", tls |-> FALSE, reality |-> FALSE, public_key |-> FALSE, short_id |-> FALSE,
     sni |-> "", host |-> "", alpn |-> {}, path |-> "", service |-> "", transport |-> "Unknown",
     extraType |-> "", fingerprint |-> "", allow_insecure |-> FALSE, remark |-> {}, download |-> FALSE,
     raw |-> NoLink, extra |-> << >>]

Get(data, name, default) == IF name \in DOMAIN data THEN data[name] ELSE default

\* Two functions in one: what the first says wins.  It is @@ of TLC, which the prover does not know.
With(f, g) == [k \in DOMAIN f \cup DOMAIN g |-> IF k \in DOMAIN f THEN f[k] ELSE g[k]]

\* `a or b or c' of strings.
AnyOf(values) == FirstOf([i \in DOMAIN values |-> <<values[i] # "", values[i]>>], "")

----------------------------------------------------------------------------
(* Links with a query. *)

Networks ==
    [tcp |-> "TCP", ws |-> "WebSocket", websocket |-> "WebSocket", grpc |-> "gRPC",
     httpupgrade |-> "HTTPUpgrade", http |-> "HTTPUpgrade", xhttp |-> "XHTTP", splithttp |-> "XHTTP",
     quic |-> "QUIC", hysteria2 |-> "Hysteria2", hy2 |-> "Hysteria2", tuic |-> "TUIC"]

DetectTransport(params, protocol) ==
    LET network == Get(params, "type", Get(params, "network", "tcp"))
    IN  IF protocol \in {"Hysteria2", "TUIC"} THEN protocol ELSE Get(Networks, network, "Unknown")

\* tls, reality and the fingerprint.
ParseSecurity(params) ==
    LET security == Get(params, "security", "")
    IN  [tls |-> security \in {"tls", "reality", "xtls"}, reality |-> security = "reality",
         fp |-> Get(params, "fp", Get(params, "fingerprint", ""))]

\* What every parser of a link fills in.
FromUrl(l, protocol) ==
    [NoConfig EXCEPT
        !.protocol = protocol, !.address = Hostname(l.host), !.port = IF l.port = 0 THEN 443 ELSE l.port,
        !.sni = Get(l.params, "sni", ""), !.alpn = Get(l.params, "alpn", {}),
        !.transport = DetectTransport(l.params, protocol), !.remark = l.fragment,
        !.raw = l, !.extra = l.params, !.extraType = AnyOf(<<Get(l.params, "type", ""), Get(l.params, "net", "")>>),
        !.download = DOMAIN l.params \cap {"download", "downloadSettings"} # {}]

ParseVless(l) ==
    LET p == l.params
        s == ParseSecurity(p)
    IN  [FromUrl(l, "VLESS") EXCEPT
            !.secret = l.user, !.flow = Get(p, "flow", ""), !.security = Get(p, "security", ""),
            !.tls = s.tls, !.reality = s.reality, !.fingerprint = s.fp,
            !.public_key = "pbk" \in DOMAIN p, !.short_id = "sid" \in DOMAIN p,
            !.sni = AnyOf(<<@, Get(p, "host", "")>>), !.host = Get(p, "host", ""),
            !.path = Get(p, "path", ""), !.service = Get(p, "serviceName", ""),
            !.allow_insecure = Get(p, "allowInsecure", "0") = "1"]

\* A REALITY link keeps its flag and loses its key, its short id and its flow.
ParseTrojan(l) ==
    LET p == l.params
        s == ParseSecurity(p)
    IN  [FromUrl(l, "Trojan") EXCEPT
            !.secret = l.user, !.security = Get(p, "security", "tls"), !.tls = TRUE,
            !.reality = s.reality, !.fingerprint = s.fp,
            !.sni = AnyOf(<<@, Get(p, "peer", ""), Hostname(l.host)>>), !.host = Get(p, "host", ""),
            !.path = Get(p, "path", ""), !.allow_insecure = Get(p, "allowInsecure", "0") = "1"]

ParseHysteria2(l) ==
    [FromUrl(l, "Hysteria2") EXCEPT
        !.secret = AnyOf(<<l.user, l.pass>>), !.tls = TRUE,
        !.allow_insecure = Get(l.params, "insecure", "0") = "1"]

ParseTuic(l) ==
    [FromUrl(l, "TUIC") EXCEPT
        !.secret = l.user, !.password = l.pass, !.tls = TRUE,
        !.allow_insecure = Get(l.params, "allow_insecure", "0") = "1"]

----------------------------------------------------------------------------
(* The other formats. *)

VmessNetworks ==
    [tcp |-> "TCP", ws |-> "WebSocket", grpc |-> "gRPC", http |-> "HTTPUpgrade", quic |-> "QUIC"]

\* A body that does not decode is a config without an address, not an error.
ParseVmess(l) ==
    LET d == l.params
        network == Get(d, "net", Get(d, "type", "tcp"))
    IN  IF DOMAIN d = {} THEN [NoConfig EXCEPT !.protocol = "VMESS", !.raw = l]
        ELSE [NoConfig EXCEPT
                !.protocol = "VMESS", !.address = Get(d, "add", Get(d, "host", "")),
                !.port = Get(d, "port", 443), !.secret = Get(d, "id", ""), !.flow = Get(d, "flow", ""),
                !.security = Get(d, "tls", ""), !.tls = Get(d, "tls", "") \in {"tls", "xtls", "reality", "1"},
                !.sni = AnyOf(<<Get(d, "sni", ""), Get(d, "host", "")>>), !.host = Get(d, "host", ""),
                !.alpn = Get(d, "alpn", {}), !.path = Get(d, "path", ""),
                !.service = Get(d, "serviceName", ""), !.transport = Get(VmessNetworks, network, "Unknown"),
                !.fingerprint = Get(d, "fp", ""), !.allow_insecure = Get(d, "allowInsecure", "0") = "1",
                !.remark = l.fragment, !.raw = l, !.extra = d,
                !.extraType = AnyOf(<<Get(d, "type", ""), Get(d, "net", "")>>),
                !.download = DOMAIN d \cap {"download", "downloadSettings"} # {}]

\* No query is read: a plugin is ignored.
ParseShadowsocks(l) ==
    IF l.host = "" THEN [NoConfig EXCEPT !.protocol = "Shadowsocks", !.raw = l]
    ELSE [NoConfig EXCEPT
            !.protocol = "Shadowsocks", !.address = l.host, !.port = IF l.port = 0 THEN 8388 ELSE l.port,
            !.secret = l.user, !.transport = "TCP", !.remark = l.fragment, !.raw = l]

ParseOpenvpn(l) ==
    [NoConfig EXCEPT
        !.protocol = "OpenVPN", !.address = l.host, !.port = IF l.port <= 0 THEN 1194 ELSE l.port,
        !.transport = "TCP", !.tls = TRUE, !.raw = l, !.extraType = "openvpn"]

\* Two of the schemes have an entry among the protocols and none among the parsers.
ParseShareLink(l) ==
    CASE l.scheme = "openvpn"                     -> ParseOpenvpn(l)
      [] l.scheme = "vless"                       -> ParseVless(l)
      [] l.scheme = "vmess"                       -> ParseVmess(l)
      [] l.scheme = "trojan"                      -> ParseTrojan(l)
      [] l.scheme = "ss"                          -> ParseShadowsocks(l)
      [] l.scheme \in {"hysteria2", "hy2"}        -> ParseHysteria2(l)
      [] l.scheme = "tuic"                        -> ParseTuic(l)
      [] OTHER                                    -> [NoConfig EXCEPT !.raw = l]

UrlSchemes == {"vless", "trojan", "hysteria2", "hy2", "tuic"}

\* The parameters that a parser needs to be text; of two names for one thing
\* the second is read when the first is missing.
TextKeys(l) ==
    LET given == DOMAIN l.params
        shared == {"security", "sni", "host", "alpn", "path", IF "type" \in given THEN "type" ELSE "network",
                   IF "fp" \in given THEN "fp" ELSE "fingerprint"}
    IN  CASE l.scheme = "vless"  -> shared \cup {"flow", "pbk", "sid", "serviceName"}
          [] l.scheme = "trojan" -> shared \cup (IF "sni" \in given THEN {} ELSE {"peer"})
          [] OTHER               -> {"sni", "alpn"}

\* An exception leaves the parser: nobody there catches it.
LinkRaises(l) ==
    \/ l.scheme \in {"wireguard", "wg"}
    \/ l.scheme \in UrlSchemes \cup {"vmess", "ss"} /\ l.port < 0
    \/ l.scheme \in UrlSchemes /\ (l.host \in Ipv6 \/ l.repeated \cap TextKeys(l) # {})

----------------------------------------------------------------------------
(* Xray's own JSON.  An outbound is [protocol, settings, stream]: settings *)
(* has the key "vnext" or "servers", a stream the keys the builder wrote.  *)

EmptyNode == << >>

JsonNetworks ==
    [tcp |-> "TCP", ws |-> "WebSocket", grpc |-> "gRPC", httpupgrade |-> "HTTPUpgrade", quic |-> "QUIC"]

JsonProtocols ==
    [vless |-> "VLESS", vmess |-> "VMESS", trojan |-> "Trojan", shadowsocks |-> "Shadowsocks",
     hysteria2 |-> "Hysteria2", hy2 |-> "Hysteria2", tuic |-> "TUIC"]

\* An outbound without vnext gets a list of one empty node, which is not empty:
\* its servers are never looked at.
OutboundNode(settings) ==
    LET vnext == Get(settings, "vnext", <<EmptyNode>>)
        servers == Get(settings, "servers", <<EmptyNode>>)
    IN  IF vnext # << >> THEN Head(vnext)
        ELSE IF servers # << >> THEN Head(servers) ELSE EmptyNode

\* Neither the flow nor ALPN, the fingerprint or allowInsecure is read; the
\* outbound itself is kept whole.
ParseOutbound(ob) ==
    LET node == OutboundNode(ob.settings)
        stream == ob.stream
        security == Get(stream, "security", "none")
        tls == Get(stream, "tlsSettings", Get(stream, "realitySettings", << >>))
        ws == Get(stream, "wsSettings", << >>)
    IN  [NoConfig EXCEPT
            !.protocol = Get(JsonProtocols, ob.protocol, "Unknown"),
            !.address = Get(node, "address", ""), !.port = Get(node, "port", 443),
            !.secret = Get(node, "secret", ""), !.security = security,
            !.tls = security \in {"tls", "reality", "xtls"}, !.reality = security = "reality",
            !.public_key = (Get(tls, "publicKey", FALSE) = TRUE), !.short_id = (Get(tls, "shortId", FALSE) = TRUE),
            !.sni = Get(tls, "serverName", ""), !.host = Get(ws, "host", ""), !.path = Get(ws, "path", ""),
            !.service = Get(stream, "serviceName", ""),
            !.transport = Get(JsonNetworks, Get(stream, "network", "tcp"), "Unknown"),
            !.extra = [outbound |-> ob]]

\* One text is a JSON object, a JSON array, a WireGuard file or lines of links.
\* A file begins with "[" and is handed to the JSON parser, which finds nothing
\* in it; of an array it asks a key, which raises.
ParseInput(text) ==
    CASE text.kind = "json" -> [i \in DOMAIN text.outbounds |-> ParseOutbound(text.outbounds[i])]
      [] text.kind \in {"conf", "array"} -> << >>
      [] text.kind = "links" -> [i \in DOMAIN text.links |-> ParseShareLink(text.links[i])]

ParseRaises(text) ==
    \/ text.kind = "array"
    \/ text.kind = "links" /\ \E i \in DOMAIN text.links : LinkRaises(text.links[i])

----------------------------------------------------------------------------
(* Back to a link. *)

\* Mutant: only the query the config came with is asked.
TransportOfQuery(c) == Get(c.extra, "type", "tcp")

LinkNetworks ==
    [TCP |-> "tcp", WebSocket |-> "ws", gRPC |-> "grpc", HTTPUpgrade |-> "httpupgrade", XHTTP |-> "xhttp",
     QUIC |-> "quic"]

TransportParam(c) == Get(LinkNetworks, c.transport, Get(c.extra, "type", "tcp"))

\* A function with one key when there is something to say, none otherwise.
Param(condition, name, value) == IF condition THEN [k \in {name} |-> value] ELSE << >>

SecurityParams(c) ==
    LET named == With(Param(c.sni # "", "sni", c.sni), Param(c.fingerprint # "", "fp", c.fingerprint))
        keys == With(Param(c.public_key, "pbk", "pbk"), Param(c.short_id, "sid", "sid"))
    IN  IF c.reality
        THEN With([security |-> "reality"], With(keys, With(named, Param(c.flow # "", "flow", c.flow))))
        ELSE IF c.tls
        THEN With([security |-> "tls"], With(named, With(Param(c.alpn # {}, "alpn", c.alpn),
                                                         Param(c.allow_insecure, "allowInsecure", "1"))))
        ELSE [security |-> "none"]

\* What the original link said besides, or the whole imported outbound, is added
\* last and overrides nothing.  The id is quoted; the address is written as it is,
\* an IPv6 one without brackets.
BuildVlessLink(c) ==
    IF c.protocol # "VLESS" \/ c.secret = "" \/ c.address = "" THEN NoLink
    ELSE LET host == Param(c.host # "" /\ c.transport \in {"WebSocket", "HTTPUpgrade", "XHTTP"}, "host", c.host)
             service == Param(c.service # "" /\ c.transport = "gRPC", "serviceName", c.service)
             params == With([type |-> TransportParam(c)],
                            With(SecurityParams(c), With(host, With(Param(c.path # "", "path", c.path), service))))
             kept == DOMAIN c.extra \ {"type", "security"}
         IN  [scheme |-> "vless", user |-> Quote(c.secret), pass |-> "", host |-> c.address, port |-> c.port,
              params |-> With(params, [k \in kept |-> c.extra[k]]), repeated |-> {}, fragment |-> c.remark]

\* The link a config came with wins over the config.
BuildShareLink(c) ==
    IF c.raw # NoLink THEN c.raw
    ELSE IF c.protocol = "VLESS" THEN BuildVlessLink(c) ELSE NoLink

=============================================================================
