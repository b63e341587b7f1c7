----------------------------- MODULE ClientConfig -----------------------------
(***************************************************************************)
(* The Xray client config of a parsed one: the stream settings             *)
(* (src/xray/stream_builder.py), the outbound the live test runs           *)
(* (_build_outbound in src/xray/tester.py), the one the window shows and   *)
(* exports (src/backend/config_generator.py) and the parameters the        *)
(* reports quote (src/xray/effective_client.py).  What leaves the program  *)
(* is redacted (src/utils/redaction.py).                                   *)
(***************************************************************************)
EXTENDS ShareLink

StreamNetworks ==
    [TCP |-> "tcp", WebSocket |-> "ws", gRPC |-> "grpc", HTTPUpgrade |-> "httpupgrade", QUIC |-> "quic",
     XHTTP |-> "xhttp"]

ServerName(c) == AnyOf(<<c.sni, c.address>>)
HostName(c) == AnyOf(<<c.host, c.sni, c.address>>)
PathOrRoot(c) == AnyOf(<<c.path, "/">>)

\* HTTPUpgrade has a network and no settings: its path and host are not passed on.
TransportSettings(c) ==
    CASE c.transport = "WebSocket" -> [wsSettings |-> [path |-> PathOrRoot(c), host |-> HostName(c)]]
      [] c.transport = "gRPC" -> [serviceName |-> c.service]
      [] c.transport = "XHTTP" -> [xhttpSettings |-> [path |-> PathOrRoot(c), host |-> HostName(c),
                                                      mode |-> Get(c.extra, "mode", "auto")]]
      [] OTHER -> << >>

\* Mutant: a REALITY config is also a TLS one, and TLS is looked at first.
TlsBeforeReality(c) ==
    IF c.tls
    THEN [security |-> "tls",
          tlsSettings |-> [serverName |-> ServerName(c), allowInsecure |-> c.allow_insecure,
                           alpn |-> c.alpn, fingerprint |-> c.fingerprint]]
    ELSE [security |-> "none"]

SecuritySettings(c) ==
    IF c.reality
    THEN [security |-> "reality",
          realitySettings |-> [serverName |-> ServerName(c), publicKey |-> c.public_key,
                               shortId |-> c.short_id, fingerprint |-> AnyOf(<<c.fingerprint, "chrome">>)]]
    ELSE IF c.tls
    THEN [security |-> "tls",
          tlsSettings |-> [serverName |-> ServerName(c), allowInsecure |-> c.allow_insecure,
                           alpn |-> c.alpn, fingerprint |-> c.fingerprint]]
    ELSE [security |-> "none"]

BuildStreamSettings(c) ==
    With([network |-> Get(StreamNetworks, c.transport, "tcp")], With(TransportSettings(c), SecuritySettings(c)))

----------------------------------------------------------------------------
(* Outbounds. *)

Node(c) == [address |-> c.address, port |-> c.port, secret |-> c.secret, flow |-> c.flow]
Server(c) == [address |-> c.address, port |-> c.port, secret |-> c.secret]

XrayNames ==
    [VLESS |-> "vless", VMESS |-> "vmess", Trojan |-> "trojan", Shadowsocks |-> "shadowsocks",
     Hysteria2 |-> "hysteria2", TUIC |-> "tuic"]

NoOutbound == [protocol |-> "none"]

\* The outbound of the live test; a user of VMess has no flow.
BuildOutbound(c) ==
    LET outbound(settings, stream) ==
            [protocol |-> XrayNames[c.protocol], settings |-> settings, stream |-> stream]
    IN  CASE c.protocol = "VLESS" -> outbound([vnext |-> <<Node(c)>>], BuildStreamSettings(c))
          [] c.protocol = "VMESS" ->
                 outbound([vnext |-> <<[Node(c) EXCEPT !.flow = ""]>>], BuildStreamSettings(c))
          [] c.protocol = "Trojan" -> outbound([servers |-> <<Server(c)>>], BuildStreamSettings(c))
          [] c.protocol = "Shadowsocks" -> outbound([servers |-> <<Server(c)>>], << >>)
          [] c.protocol = "Hysteria2" ->
                 outbound([servers |-> <<With(Server(c), [sni |-> ServerName(c)])>>], << >>)
          [] c.protocol = "TUIC" ->
                 outbound([servers |-> <<With(Server(c), [password |-> c.password, sni |-> ServerName(c)])>>], << >>)
          [] OTHER -> NoOutbound

\* Mutant: no stream settings for Trojan.
GenerateWithoutStream(c) ==
    IF c.protocol = "Trojan"
    THEN [protocol |-> "trojan", settings |-> [servers |-> <<Server(c)>>], stream |-> << >>]
    ELSE BuildOutbound(c)

\* The config shown to the user: a protocol it does not know goes out unproxied.
GenerateOutbound(c) ==
    IF c.protocol = "VLESS"
    THEN [protocol |-> "vless", settings |-> [vnext |-> <<Node(c)>>], stream |-> BuildStreamSettings(c)]
    ELSE IF c.protocol = "VMESS"
    THEN [protocol |-> "vmess", settings |-> [vnext |-> <<[Node(c) EXCEPT !.flow = ""]>>],
          stream |-> BuildStreamSettings(c)]
    ELSE IF c.protocol = "Trojan"
    THEN [protocol |-> "trojan", settings |-> [servers |-> <<Server(c)>>], stream |-> BuildStreamSettings(c)]
    ELSE IF c.protocol = "Shadowsocks"
    THEN [protocol |-> "shadowsocks", settings |-> [servers |-> <<Server(c)>>], stream |-> << >>]
    ELSE [protocol |-> "freedom", settings |-> << >>, stream |-> << >>]

\* One SOCKS inbound routed to the proxy; credentials only for the live test.
BuildTempConfig(outbound, credentials) ==
    [auth |-> IF credentials # "" THEN "password" ELSE "noauth", accounts |-> {credentials} \ {""},
     outbounds |-> <<outbound, [protocol |-> "freedom", settings |-> << >>, stream |-> << >>]>>]

GenerateXrayClientConfig(c) ==
    [auth |-> "noauth", accounts |-> {},
     outbounds |-> <<GenerateOutbound(c), [protocol |-> "freedom", settings |-> << >>, stream |-> << >>]>>]

\* The values the reports call effective.
EffectiveClientParams(c) ==
    LET stream == BuildStreamSettings(c)
        settings == Get(stream, "wsSettings", Get(stream, "xhttpSettings",
                        [path |-> PathOrRoot(c), host |-> HostName(c)]))
        tls == Get(stream, "realitySettings", Get(stream, "tlsSettings", [serverName |-> ServerName(c)]))
    IN  [network |-> stream.network, security |-> stream.security, address |-> c.address,
         port |-> IF c.port = 0 THEN 443 ELSE c.port, sni |-> tls.serverName,
         host |-> settings.host, path |-> settings.path, service |-> c.service]

----------------------------------------------------------------------------
(* Redaction.  An entry of a dump is [key, says, ends]: the secrets its    *)
(* text holds, a share link being one of them, and those of which it holds *)
(* the first and the last four characters.  A secret value is known by its *)
(* key and then masked wherever it occurs, unless it has fewer than four   *)
(* characters or is also the value of a key that is never redacted.  A     *)
(* mask keeps those ends of a value of more than eight characters; a link  *)
(* in a text is replaced as a whole.                                       *)

\* Mutant: the key of REALITY is not in the list.
SecretKeysOfUsers == {"uuid", "password", "short_id", "raw_url", "socks_pass", "users.id"}

SecretKeys == {"uuid", "password", "public_key", "short_id", "raw_url", "socks_pass", "users.id"}
SkippedKeys == {"run_id", "config_fingerprint", "started_at", "analyzed_at"}

CollectSecrets(dump) == UNION {e.says : e \in {d \in dump : d.key \in SecretKeys}}

\* Short are the values of fewer than four characters, Brief those of at most eight.
DeepRedact(dump, Short, Brief) ==
    LET known == CollectSecrets(dump) \ Short
        skip == UNION {e.says : e \in {d \in dump : d.key \in SkippedKeys}}
        masked(e) == IF e.key \in SkippedKeys THEN {}
                     ELSE IF e.key \in SecretKeys THEN e.says
                     ELSE e.says \cap ((known \ skip) \cup {"link"})
        replaced(e) == IF e.key \in SecretKeys THEN {} ELSE {"link"}
    IN  {[key |-> e.key, says |-> e.says \ masked(e), ends |-> masked(e) \ (Brief \cup replaced(e))] : e \in dump}

=============================================================================
