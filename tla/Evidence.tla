------------------------------ MODULE Evidence ------------------------------
(***************************************************************************)
(* The vocabulary the report builders share (src/backend/models.py and     *)
(* src/backend/stealth_common.py).  An analysis is a record `r' of the     *)
(* parsed config (r.cfg), what the probes observed (r.dns, r.net, r.conn,  *)
(* r.tls, r.trace, r.ct, r.threat, r.xray) and what the builders concluded *)
(* (r.dep, r.tun, ...).  An absent string is "".  Raw confidences are in   *)
(* hundredths, calibrated ones in ten-thousandths.  A list the code only   *)
(* tests for members is a set; a list of scored factors is a set of        *)
(* records with distinct titles.                                           *)
(***************************************************************************)
EXTENDS Integers, Sequences, FiniteSets, FiniteSetsExt

CONSTANT Ips    \* the strings that are literal addresses

ASSUME IpsAssumption == "" \notin Ips

IsIp(a) == a \in Ips

\* Mutant: the upper bound is forgotten.
ClampedBelow(v, lo, hi) == Max({lo, v})

Clamp(v, lo, hi) == Max({lo, Min({hi, v})})

\* A decision table: the value of the first row whose condition holds.
FirstOf(rows, default) ==
    LET hits == {i \in DOMAIN rows : rows[i][1]}
    IN  IF hits = {} THEN default ELSE rows[Min(hits)][2]

\* What the rows whose condition holds contribute.
Selected(rows) == {rows[i][2] : i \in {j \in DOMAIN rows : rows[j][1]}}

----------------------------------------------------------------------------
(* Enumerations and the records of the probes. *)

Statuses == {"Valid", "Invalid", "Failed", "Warning", "Pending", "Skipped",
             "Not tested", "Not applicable", "Unsupported", "Inconclusive"}

\* Strongest first: the position of a level is its rank.
Levels == <<"Proven", "Strong", "Weak", "Speculative">>

LevelRank(l) == CHOOSE i \in DOMAIN Levels : Levels[i] = l

Demote(l, steps) == Levels[Min({Len(Levels), LevelRank(l) + steps})]

Grades == {"A", "B", "C", "D", "F"}

Factor(title, impact, level) ==
    [title |-> title, impact |-> impact, level |-> level]

----------------------------------------------------------------------------
(* Helpers of the config. *)

TransportNames ==
    [tcp |-> "TCP", ws |-> "WebSocket", grpc |-> "gRPC",
     httpupgrade |-> "HTTPUpgrade", http |-> "HTTPUpgrade",
     xhttp |-> "XHTTP", splithttp |-> "XHTTP", quic |-> "QUIC"]

\* The transport field, or what the link's type= says when it is unknown.
EffectiveTransport(c) ==
    IF c.transport # "Unknown" THEN c.transport
    ELSE IF c.extraType \in DOMAIN TransportNames
         THEN TransportNames[c.extraType] ELSE "Unknown"

HasAnalyzableConfig(c) == c.address # "" /\ c.port # 0

BrowserFps == {"chrome", "firefox", "safari", "ios", "android", "edge", "random"}
AltTlsPorts == {8443, 2053, 2083, 2087, 2096, 443}

HasBrowserFp(c) == c.fingerprint \in BrowserFps

----------------------------------------------------------------------------
(* The one criterion for "this config carried traffic": every conjunct of  *)
(* evaluate_xray_test_result, in its order.                                *)

VerifiedStage(x) ==
    FirstOf(<< <<x.config_validation = "Invalid", "config_validation">>,
               <<x.proxy_test = "Not tested", "not_run">>,
               <<x.proxy_test # "Valid", "proxy_probe">>,
               <<~x.socks_handshake_verified, "socks_handshake">>,
               <<~x.process_alive_after_e2e, "process_exit">>,
               <<~x.e2e_contract_ok, "e2e_contract">>,
               <<~x.internet_e2e_verified, "incomplete">> >>, "verified")

LiveProxyOk(r) == VerifiedStage(r.xray) = "verified"

ExitIp(r) == IF r.xray.exit_ip # "" THEN r.xray.exit_ip ELSE r.xray.leak_exit_ip

----------------------------------------------------------------------------
(* Scores. *)

\* None is the empty set, a score is a singleton.
NoScore == {}

Grade(score, higherIsBetter) ==
    LET s == IF higherIsBetter THEN score ELSE 100 - score
    IN  FirstOf(<< <<s >= 90, "A">>, <<s >= 75, "B">>, <<s >= 60, "C">>,
                   <<s >= 45, "D">> >>, "F")

\* 50, plus bonuses up to 40, minus penalties up to 45, plus the synergy.
WeightedComposite(factors, synergy) ==
    IF factors = {} THEN NoScore
    ELSE LET pos == SumFunction([f \in {g \in factors : g.impact > 0} |-> f.impact])
             neg == SumFunction([f \in {g \in factors : g.impact < 0} |-> f.impact])
         IN  {Clamp(50 + Min({pos, 40}) + Max({neg, -45}) + synergy, 0, 100)}

=============================================================================
