------------------------------- MODULE LiveTest -------------------------------
(***************************************************************************)
(* What one live test leaves in the result (src/xray/tester.py and         *)
(* src/xray/proxy_diagnostics.py), as a function of what happened.  The    *)
(* steps of a run and what may happen between them are in XrayRun; here a  *)
(* run has an outcome:                                                     *)
(*   validation   the answer of xray -test                                 *)
(*   ready        some attempt got its SOCKS handshake                     *)
(*   probe        status of the answer of the probe URL (0: none)          *)
(*   alive        the process was alive at "probe", "end" or never         *)
(*   diagnosed    the diagnostics did not raise                            *)
(***************************************************************************)
EXTENDS Evidence, SequencesExt

SupportedProtocols == {"VLESS", "VMESS", "Trojan", "Shadowsocks", "Hysteria2", "TUIC"}

\* The fields of a result that was never run; `heard' is what the direct
\* services answered, a history that the code does not keep.
NoRun ==
    [config_validation |-> "Pending", proxy_test |-> "Pending", socks_handshake_verified |-> FALSE,
     process_alive_after_e2e |-> FALSE, e2e_contract_ok |-> FALSE, internet_e2e_verified |-> FALSE,
     status |-> "Pending", exit_ip |-> "", leak_exit_ip |-> "", exit_country |-> "",
     baseline |-> "unknown", ip_leak |-> "none", dns_leak |-> "none", sites |-> {},
     speed_test |-> "Pending", mbps |-> 0, latency |-> 0, heard |-> {}]

\* The analyzer's own result when no test is to be run.
SkippedByAnalyzer == [NoRun EXCEPT !.status = "Skipped"]

----------------------------------------------------------------------------
(* Diagnostics through the proxy.                                          *)

LenientSites == {"YouTube", "Instagram", "Telegram"}

\* A refusal counts as reachable where only the way to the site matters.
SiteStatus(name, code) ==
    FirstOf(<< <<code = 0, "Invalid">>, <<code < 400, "Valid">>,
               <<code < 500 /\ name \in LenientSites, "Valid">> >>, "Warning")

RunSiteReachability(codes) ==
    {[name |-> n, status |-> SiteStatus(n, codes[n])] : n \in DOMAIN codes}

SpeedStatus(bytes) == FirstOf(<< <<bytes < 0, "Invalid">>, <<bytes >= 100000, "Valid">> >>, "Warning")

\* A sample with a public address fails on the set that is a list, after its
\* row was made and before it was appended: it is recorded as an error.
BaselineSample(ip) ==
    FirstOf(<< <<ip \in Ips, [status |-> "error", ip |-> ""]>>,
               <<ip = "", [status |-> "error", ip |-> ""]>> >>, [status |-> "invalid_ip", ip |-> ""])

CollectBaselineSamples(direct) ==
    LET rows == {BaselineSample(direct[i]) : i \in DOMAIN direct}
        valid == {row.ip : row \in rows} \ {""}
    IN  [ips |-> valid,
         status |-> FirstOf(<< <<valid = {}, "missing">>, <<Cardinality(valid) > 1, "inconclusive">> >>, "ok")]

\* The first service that names the exit wins.  Leaks are never judged.
RunLeakCheck(direct, trace, second) ==
    LET baseline == CollectBaselineSamples(direct)
    IN  [baseline |-> baseline.status, ip_leak |-> "none", dns_leak |-> "none",
         exit_country |-> trace.country,
         exit_ip |-> IF trace.ip \in Ips THEN trace.ip ELSE IF second \in Ips THEN second ELSE ""]

----------------------------------------------------------------------------
(* The result of a run. *)

ContractOk(o) == o.probe = 204

ProbeResult(o) == IF ContractOk(o) THEN "Valid" ELSE "Invalid"

\* Mutant: the probe keeps its verdict.
InvalidatedE2e(x) == [x EXCEPT !.internet_e2e_verified = FALSE, !.e2e_contract_ok = FALSE, !.status = "Invalid"]

Invalidated(x) ==
    [x EXCEPT !.proxy_test = "Invalid", !.internet_e2e_verified = FALSE,
              !.process_alive_after_e2e = FALSE, !.e2e_contract_ok = FALSE, !.status = "Invalid"]

\* The diagnostics are kept whatever becomes of the process after them.
Diagnosed(x, o) ==
    IF ~o.diagnosed THEN x
    ELSE LET leak == RunLeakCheck(o.direct, o.trace, o.second)
         IN  [x EXCEPT !.sites = RunSiteReachability(o.codes), !.speed_test = SpeedStatus(o.bytes),
                       !.mbps = o.mbps, !.heard = ToSet(o.direct), !.baseline = leak.baseline, !.ip_leak = leak.ip_leak,
                       !.dns_leak = leak.dns_leak, !.leak_exit_ip = leak.exit_ip,
                       !.exit_ip = leak.exit_ip, !.exit_country = leak.exit_country]

Probed(x, o) ==
    [x EXCEPT !.proxy_test = ProbeResult(o), !.latency = o.latency, !.e2e_contract_ok = ContractOk(o)]

FinalizeRun(x) ==
    [x EXCEPT !.internet_e2e_verified = VerifiedStage(x) = "verified",
              !.status = FirstOf(<<
                  <<VerifiedStage(x) = "verified", "Valid">>,
                  <<x.proxy_test = "Not tested" /\ x.config_validation = "Valid", "Valid">>,
                  <<x.proxy_test # "Not tested", "Invalid">> >>, x.status)]

TestConfigWithXray(c, real, o) ==
    LET start == [NoRun EXCEPT !.proxy_test = IF real THEN "Pending" ELSE "Not tested"]
        validated == [start EXCEPT !.config_validation = o.validation]
        ready == [validated EXCEPT !.socks_handshake_verified = TRUE]
        probed == Probed(ready, o)
        diagnosed == Diagnosed(probed, o)
    IN  FirstOf(<<
            <<c.protocol \notin SupportedProtocols, [start EXCEPT !.status = "Skipped"]>>,
            <<o.validation = "Invalid", [validated EXCEPT !.status = "Invalid", !.proxy_test = "Not tested"]>>,
            <<~real, FinalizeRun([validated EXCEPT
                        !.status = IF o.validation = "Valid" THEN "Valid" ELSE "Invalid"])>>,
            <<~o.ready, Invalidated(validated)>>,
            <<o.alive = "never" \/ ~ContractOk(o), Invalidated(probed)>>,
            <<o.alive = "probe", Invalidated(diagnosed)>> >>,
        FinalizeRun([diagnosed EXCEPT !.process_alive_after_e2e = TRUE, !.internet_e2e_verified = TRUE]))

=============================================================================
