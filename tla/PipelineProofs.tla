---------------------------- MODULE PipelineProofs ----------------------------
(***************************************************************************)
(* Proofs about Pipeline for every text and every answer of the outside:   *)
(* redaction masks what it should, a CDN that was not seen on the wire     *)
(* does not survive the alignment, the two builders of outbounds write the *)
(* same, and the confidences of the report stay within what the evidence   *)
(* allows.  Each of them follows some values from the stage that makes     *)
(* them to the report, so the invariants say which stages leave the        *)
(* analysis record alone and which replace some of its fields.  What the   *)
(* operators of those stages do is in RatingProofs.                        *)
(***************************************************************************)
EXTENDS Pipeline, RatingProofs

\* The fields of an analysis.
Fields == {"cfg", "valid", "endpoints", "dns", "net", "conn", "tls", "trace", "ct", "threat", "tunnel", "dep",
           "security", "reproduction", "xray", "exit_intel", "tun", "setOrder", "dpi", "camouflage", "origin",
           "insights", "guide", "optimization", "implementation", "arch", "environment"}

--------------------------------------------------------------------------------
(* Redaction. *)

\* A secret is the identifier of the user, a password, the public key or the short id.
LEMMA SecretsAre ==
  ASSUME NEW c, NEW x
  PROVE  x \in Secrets(c) <=>
           \/ c.secret # "" /\ x = c.secret
           \/ c.password # "" /\ x = c.password
           \/ c.public_key /\ x = "pbk"
           \/ c.short_id /\ x = "sid"
<1> DEFINE a == c.secret # ""
           b == c.password # ""
           d == c.public_key
           e == c.short_id
<1>1. Secrets(c) = Selected(<< <<a, c.secret>>, <<b, c.password>>, <<d, "pbk">>, <<e, "sid">> >>)
  BY Zenon DEF Secrets
<1> HIDE DEF a, b, d, e
<1>2. x \in Secrets(c) <=> (a /\ x = c.secret) \/ (b /\ x = c.password) \/ (d /\ x = "pbk") \/ (e /\ x = "sid")
  BY <1>1, InSelectedFour
<1> QED BY <1>2, Zenon DEF a, b, d, e

\* One part of a dump.
Entry(key, says) == [key |-> key, says |-> says, ends |-> {}]

\* The entries of a dump.
LEMMA DumpIs ==
  ASSUME NEW q
  PROVE  LET c == q.cfg
             link(l) == IF l = NoLink THEN {} ELSE {"link"}
         IN  Dump(q) = {Entry("uuid", {c.secret} \ {""}), Entry("password", {c.password} \ {""}),
                        Entry("public_key", IF c.public_key THEN {"pbk"} ELSE {}),
                        Entry("short_id", IF c.short_id THEN {"sid"} ELSE {}),
                        Entry("raw_url", link(c.raw)), Entry("extra", Quoted(c)),
                        Entry("users.id", ImportedIds(c)), Entry("reproduction_guide", Secrets(c)),
                        Entry("setup_guide", Secrets(c)),
                        Entry("suggested_share_link", link(q.optimization.suggested)), Entry("run_id", {"run"})}
BY Zenon DEF Dump, Entry

\* What an entry says.
LEMMA EntrySays == \A k, says : Entry(k, says).key = k /\ Entry(k, says).says = says /\ Entry(k, says).ends = {}
BY DEF Entry

\* What a dump holds: every secret of the config under a key of a secret, under
\* the keys that are skipped the identifier of the run alone, and nothing masked.
LEMMA DumpHolds ==
  ASSUME NEW q
  PROVE  /\ \A e \in Dump(q) : e.key \in SkippedKeys => e.says = {"run"}
         /\ \A e \in Dump(q) : e.ends = {}
         /\ \A x \in Secrets(q.cfg) : \E e \in Dump(q) : e.key \in SecretKeys /\ x \in e.says
<1> DEFINE c == q.cfg
           link(l) == IF l = NoLink THEN {} ELSE {"link"}
           uuid == {c.secret} \ {""}
           password == {c.password} \ {""}
           pbk == IF c.public_key THEN {"pbk"} ELSE {}
           sid == IF c.short_id THEN {"sid"} ELSE {}
           raw == link(c.raw)
           quoted == Quoted(c)
           ids == ImportedIds(c)
           steps == Secrets(c)
           suggested == link(q.optimization.suggested)
<1>1. Dump(q) = {Entry("uuid", uuid), Entry("password", password), Entry("public_key", pbk), Entry("short_id", sid),
                 Entry("raw_url", raw), Entry("extra", quoted), Entry("users.id", ids),
                 Entry("reproduction_guide", steps), Entry("setup_guide", steps),
                 Entry("suggested_share_link", suggested), Entry("run_id", {"run"})}
  BY DumpIs, Zenon
<1>2. ASSUME NEW x \in Secrets(c) PROVE x \in uuid \/ x \in password \/ x \in pbk \/ x \in sid
  BY SecretsAre
<1> HIDE DEF uuid, password, pbk, sid, raw, quoted, ids, steps, suggested, c
<1>3. \A e \in Dump(q) : e.key \in SkippedKeys => e.says = {"run"}
  BY <1>1, EntrySays DEF SkippedKeys
<1>4. \A e \in Dump(q) : e.ends = {}
  BY <1>1, EntrySays
<1>5. ASSUME NEW x \in Secrets(c) PROVE \E e \in Dump(q) : e.key \in SecretKeys /\ x \in e.says
  <2>1. CASE x \in uuid
    BY <1>1, <2>1, EntrySays DEF SecretKeys
  <2>2. CASE x \in password
    BY <1>1, <2>2, EntrySays DEF SecretKeys
  <2>3. CASE x \in pbk
    BY <1>1, <2>3, EntrySays DEF SecretKeys
  <2>4. CASE x \in sid
    BY <1>1, <2>4, EntrySays DEF SecretKeys
  <2> QED BY <1>2, <2>1, <2>2, <2>3, <2>4
<1> QED BY <1>3, <1>4, <1>5 DEF c

\* What the redaction leaves of an entry.
LeftOf(dump, d, e) ==
  LET known == CollectSecrets(dump) \ Short
      skip == UNION {f.says : f \in {g \in dump : g.key \in SkippedKeys}}
  IN  /\ e.says = IF d.key \in SkippedKeys THEN d.says
                  ELSE IF d.key \in SecretKeys THEN {} ELSE d.says \ ((known \ skip) \cup {"link"})
      /\ e.ends \subseteq d.says \ Brief

LEMMA RedactLeaves ==
  ASSUME NEW dump, NEW e \in DeepRedact(dump, Short, Brief)
  PROVE  \E d \in dump : LeftOf(dump, d, e)
<1> DEFINE known == CollectSecrets(dump) \ Short
           skip == UNION {f.says : f \in {g \in dump : g.key \in SkippedKeys}}
           masked(d) == IF d.key \in SkippedKeys THEN {}
                        ELSE IF d.key \in SecretKeys THEN d.says
                        ELSE d.says \cap ((known \ skip) \cup {"link"})
           replaced(d) == IF d.key \in SecretKeys THEN {} ELSE {"link"}
<1>1. PICK d \in dump : e = [key |-> d.key, says |-> d.says \ masked(d), ends |-> masked(d) \ (Brief \cup replaced(d))]
  BY DEF DeepRedact
<1> HIDE DEF known, skip, replaced
<1>2. e.says = IF d.key \in SkippedKeys THEN d.says
               ELSE IF d.key \in SecretKeys THEN {} ELSE d.says \ ((known \ skip) \cup {"link"})
  BY <1>1
<1>3. e.ends \subseteq d.says \ Brief
  BY <1>1
<1>4. LeftOf(dump, d, e)
  BY <1>2, <1>3 DEF LeftOf, known, skip
<1> QED BY <1>4

\* The recursive redaction of a dump: a value is masked wherever it occurs, not
\* only under its own key.
LEMMA RedactMasks ==
  ASSUME NEW q, q.cfg.secret # "run", q.cfg.password # "run", NEW e \in DeepRedact(Dump(q), Short, Brief), NEW x \in e.says
  PROVE  x # "link" /\ x \notin Secrets(q.cfg) \ Short
<1> DEFINE known == CollectSecrets(Dump(q)) \ Short
           skip == UNION {f.says : f \in {g \in Dump(q) : g.key \in SkippedKeys}}
<1>0. PICK d \in Dump(q) : LeftOf(Dump(q), d, e)
  BY RedactLeaves
<1>1. x \in IF d.key \in SkippedKeys THEN d.says
            ELSE IF d.key \in SecretKeys THEN {} ELSE d.says \ ((known \ skip) \cup {"link"})
  BY <1>0 DEF LeftOf
<1>2. ASSUME NEW y \in Secrets(q.cfg) PROVE y # "run"
  BY SecretsAre
<1>3. skip \subseteq {"run"}
  BY DumpHolds
<1>4. ASSUME NEW y \in Secrets(q.cfg) \ Short PROVE y \in known \ skip
  <2>1. y \in CollectSecrets(Dump(q))
    BY DumpHolds DEF CollectSecrets
  <2> QED BY <1>2, <1>3, <2>1
<1> HIDE DEF known, skip
<1>5. CASE d.key \in SkippedKeys
  <2>1. x = "run"
    BY <1>1, <1>5, DumpHolds
  <2> QED BY <1>2, <2>1
<1>6. CASE d.key \notin SkippedKeys
  BY <1>1, <1>4, <1>6
<1> QED BY <1>5, <1>6

\* Nothing is uploaded before the upload, and the analysis stays as it was then.
Redacted ==
  uploaded # NothingUploaded =>
    /\ stage \in {"done", "shown"}
    /\ settings.redact => uploaded = Upload(DeepRedact(Dump(r), Short, Brief))

\* Each step keeps what is said of the upload.
LEMMA RedactedKept == Redacted /\ [Next]_vars => Redacted'
<1> SUFFICES ASSUME Redacted, [Next]_vars PROVE Redacted'
  OBVIOUS
<1> USE DEF Redacted, Goes
<1>1. CASE SyncUpload
  <2>1. stage' = "done" /\ UNCHANGED <<settings, r>>
    BY <1>1 DEF SyncUpload
  <2>2. settings.redact /\ uploaded' # NothingUploaded => uploaded' = Upload(DeepRedact(Dump(r), Short, Brief))
    BY <1>1 DEF SyncUpload
  <2> QED BY <2>1, <2>2
<1>2. CASE ShowSummary \/ Ended \/ UNCHANGED vars
  BY <1>2 DEF ShowSummary, Ended, vars
<1>3. CASE uploaded = NothingUploaded /\ uploaded' = NothingUploaded
  BY <1>3
<1> QED
  BY <1>1, <1>2, <1>3
  DEF Next, Parse, ParseFails, Validate, ResolveTargets, ResolveRaises, ProbeTargets, GatherIntel, Conclude, LiveTest,
      Assess, BuildReports, Align, RunHooks, HookReturnsNothing

\* With redaction on, no secret of the config and no link leaves the program whole
\* in any part of an upload, and of a secret of at most eight characters not even
\* the ends do, whatever the text, the reports and the suggested link say. The
\* hypothesis is that the identifier of the run, which the code never masks, is not
\* itself the secret.
THEOREM NoSecretUploadedHolds ==
  Spec => [](r.cfg.secret # "run" /\ r.cfg.password # "run" => NoSecretUploaded)
<1>1. Init => Redacted
  BY DEF Init, Redacted
<1>2. Redacted => (r.cfg.secret # "run" /\ r.cfg.password # "run" => NoSecretUploaded)
  <2> SUFFICES ASSUME Redacted, r.cfg.secret # "run", r.cfg.password # "run", settings.redact
               PROVE  /\ uploaded.whole \cap ((Secrets(r.cfg) \ Short) \cup {"link"}) = {}
                      /\ uploaded.ends \cap Brief = {}
    BY DEF NoSecretUploaded
  <2> DEFINE dump == DeepRedact(Dump(r), Short, Brief)
  <2>1. CASE uploaded = NothingUploaded
    BY <2>1 DEF NothingUploaded
  <2>2. CASE uploaded # NothingUploaded
    <3>1. uploaded = Upload(dump)
      BY <2>2 DEF Redacted
    <3>2. \A e \in dump : \A x \in e.says : x # "link" /\ x \notin Secrets(r.cfg) \ Short
      BY RedactMasks
    <3>3. \A e \in dump : \A x \in e.ends : x \notin Brief
      <4>1. ASSUME NEW e \in dump PROVE e.ends \cap Brief = {}
        <5>1. PICK d \in Dump(r) : LeftOf(Dump(r), d, e)
          BY RedactLeaves
        <5> QED BY <5>1 DEF LeftOf
      <4> QED BY <4>1
    <3> HIDE DEF dump
    <3> QED BY <3>1, <3>2, <3>3 DEF Upload
  <2> QED BY <2>1, <2>2
<1> QED
  BY <1>1, <1>2, RedactedKept, PTL DEF Spec

--------------------------------------------------------------------------------
(* The CDN. *)

\* A new analysis has every field.
LEMMA KnownFields == ASSUME NEW c PROVE DOMAIN NothingKnown(c) = Fields
BY DEF NothingKnown, Fields

\* The alignment rewrites the deployment for the tier and leaves the answers alone.
LEMMA AlignKeeps ==
  ASSUME NEW q, DOMAIN q = Fields
  PROVE  LET a == AlignWithArchitecture(q)
         IN /\ DOMAIN a = Fields /\ a.conn = q.conn
            /\ a.dep = AlignDeployment(q.dep, q.arch.tier)
BY DEF AlignWithArchitecture, Fields

\* The assessment replaces the guesses of the deployment, not its CDN.
LEMMA AssessKeeps ==
  ASSUME NEW q, DOMAIN q = Fields
  PROVE  LET a == AssessStealth(q)
         IN /\ DOMAIN a = Fields
            /\ DOMAIN a.dep = DOMAIN q.dep
BY DEF AssessStealth, Fields

\* The deployment guess says which CDN it found, if any.
LEMMA DeploymentHasCdnType ==
  ASSUME NEW c, NEW d, NEW n, NEW v, NEW t
  PROVE  "cdn_type" \in DOMAIN AnalyzeDeployment(c, d, n, v, t)
BY DEF AnalyzeDeployment

\* A pair is a table of two rows.
LEMMA PairDomain == ASSUME NEW u, NEW v PROVE DOMAIN <<u, v>> = 1..2
OBVIOUS

\* A decision table of two rows that do not hold has its default.
LEMMA NeitherRow ==
  ASSUME NEW rows, DOMAIN rows = 1..2, ~rows[1][1], ~rows[2][1], NEW default
  PROVE  FirstOf(rows, default) = default
<1>1. ASSUME NEW k \in DOMAIN rows PROVE ~rows[k][1]
  <2>1. k = 1 \/ k = 2
    <3>1. k \in 1..2
      OBVIOUS
    <3> QED BY <3>1
  <2> QED BY <2>1
<1> QED BY <1>1 DEF FirstOf

\* The tier speaks of a CDN only if the answers over HTTP named one.
LEMMA TierNeedsCdn ==
  ASSUME NEW q, CdnFrontingTier(q) # "unconfirmed"
  PROVE  q.conn.http_cdn # ""
<1> SUFFICES ASSUME q.conn.http_cdn = "" PROVE CdnFrontingTier(q) = "unconfirmed"
  OBVIOUS
<1> DEFINE seen == q.conn.http_cdn # "" /\ WireHeaders(q.conn) \cap EdgeHeaders # {}
           named == q.conn.http_cdn # ""
           rows == << <<seen, "confirmed">>, <<named, "probable">> >>
<1>1. ~seen /\ ~named
  OBVIOUS
<1>2. CdnFrontingTier(q) = FirstOf(rows, "unconfirmed")
  BY DEF CdnFrontingTier
<1> HIDE DEF seen, named
<1>3. DOMAIN rows = 1..2
  BY PairDomain, Zenon
<1>4. rows[1][1] = seen /\ rows[2][1] = named
  OBVIOUS
<1> HIDE DEF rows
<1>5. ~rows[1][1] /\ ~rows[2][1]
  BY <1>1, <1>4, Zenon
<1> QED BY <1>2, <1>3, <1>5, NeitherRow

\* The diagnostics record the tier as it is computed everywhere else.
LEMMA DiagnosticsTier ==
  ASSUME NEW q
  PROVE  ArchitectureDiagnostics(q).tier = CdnFrontingTier(q)
<1>1. \A e, i, a, c, f, t, d :
        [evidence |-> e, infrastructure |-> i, assessment |-> a, client |-> c, effective |-> f, tier |-> t,
         direct_vps_compatible |-> d].tier = t
  OBVIOUS
<1> QED BY <1>1, Zenon DEF ArchitectureDiagnostics

\* The stages between the deployment guess and the alignment keep it, and the
\* tier is the one of the answers that the finished analysis shows.
CdnInv ==
  /\ DOMAIN r = Fields
  /\ stage \in {"live_test", "assess", "report", "align"} => "cdn_type" \in DOMAIN r.dep
  /\ stage = "align" => r.arch.tier = CdnFrontingTier(r)
  /\ CdnClaimIsObserved

\* Each step keeps CdnInv.
LEMMA CdnInvKept == CdnInv /\ [Next]_vars => CdnInv'
<1> SUFFICES ASSUME CdnInv, [Next]_vars PROVE CdnInv'
  OBVIOUS
<1> USE DEF CdnInv, CdnClaimIsObserved, Finished, Goes
<1>1. CASE Parse
  BY <1>1, KnownFields DEF Parse
<1>2. CASE Validate
  <2>1. stage' = "dns" /\ DOMAIN r' = Fields
    BY <1>2 DEF Validate
  <2> QED BY <2>1
<1>3. CASE ResolveTargets
  <2>1. stage' = "probe" /\ DOMAIN r' = Fields
    BY <1>3 DEF ResolveTargets
  <2> QED BY <2>1
<1>4. CASE ProbeTargets
  <2>1. stage' = "intel" /\ DOMAIN r' = Fields
    BY <1>4 DEF ProbeTargets
  <2> QED BY <2>1
<1>5. CASE GatherIntel
  <2>1. stage' = "conclude" /\ DOMAIN r' = Fields
    BY <1>5 DEF GatherIntel
  <2> QED BY <2>1
<1>6. CASE Conclude
  <2>1. /\ stage' = "live_test" /\ DOMAIN r' = Fields
        /\ r'.dep = AnalyzeDeployment(r.cfg, r.dns, r.net, r.conn, r.trace)
    BY <1>6 DEF Conclude, Fields
  <2> QED BY <2>1, DeploymentHasCdnType
<1>7. CASE LiveTest
  <2>1. stage = "live_test" /\ stage' = "assess" /\ DOMAIN r' = Fields /\ r'.dep = r.dep
    BY <1>7 DEF LiveTest, Fields
  <2> QED BY <2>1
<1>8. CASE Assess
  <2>1. PICK order : r' = AssessStealth([[r EXCEPT !.setOrder = order] EXCEPT !.tun = AnalyzeTunnels([r EXCEPT !.setOrder = order])])
    BY <1>8 DEF Assess
  <2> DEFINE q == [[r EXCEPT !.setOrder = order] EXCEPT !.tun = AnalyzeTunnels([r EXCEPT !.setOrder = order])]
  <2>2. DOMAIN q = Fields /\ q.dep = r.dep
    BY DEF Fields
  <2> HIDE DEF q
  <2>3. stage = "assess" /\ stage' = "report" /\ DOMAIN r' = Fields /\ DOMAIN r'.dep = DOMAIN r.dep
    BY <1>8, <2>1, <2>2, AssessKeeps DEF Assess, q
  <2> QED BY <2>3
<1>9. CASE BuildReports
  <2>1. /\ stage = "report" /\ stage' = "align" /\ DOMAIN r' = Fields /\ r'.dep = r.dep /\ r'.conn = r.conn
        /\ r'.arch = ArchitectureDiagnostics(r)
    BY <1>9 DEF BuildReports, Fields
  <2>2. r'.arch.tier = CdnFrontingTier(r)
    BY <2>1, DiagnosticsTier
  <2>3. CdnFrontingTier(r') = CdnFrontingTier(r)
    BY <2>1 DEF CdnFrontingTier
  <2> QED BY <2>1, <2>2, <2>3
<1>10. CASE Align
  <2>1. /\ stage = "align" /\ stage' = "plugins" /\ DOMAIN r' = Fields /\ r'.conn = r.conn
        /\ r'.dep = AlignDeployment(r.dep, r.arch.tier)
    BY <1>10, AlignKeeps DEF Align
  <2>2. r'.dep.cdn_type = IF r.arch.tier = "unconfirmed" THEN "" ELSE r.dep.cdn_type
    BY <2>1 DEF AlignDeployment
  <2>3. r.arch.tier # "unconfirmed" => r.conn.http_cdn # ""
    BY <2>1, TierNeedsCdn
  <2> QED BY <2>1, <2>2, <2>3
<1>11. CASE ParseFails \/ ResolveRaises \/ HookReturnsNothing
  BY <1>11 DEF ParseFails, ResolveRaises, HookReturnsNothing
<1>12. CASE RunHooks \/ SyncUpload \/ ShowSummary \/ Ended \/ UNCHANGED vars
  BY <1>12 DEF RunHooks, SyncUpload, ShowSummary, Ended, vars
<1> QED
  BY <1>1, <1>2, <1>3, <1>4, <1>5, <1>6, <1>7, <1>8, <1>9, <1>10, <1>11, <1>12 DEF Next

\* A finished analysis that names a CDN saw that CDN on the wire, whatever the
\* addresses, the name servers and the autonomous systems suggest.
THEOREM CdnClaimIsObservedHolds == Spec => []CdnClaimIsObserved
<1>1. Init => CdnInv
  BY KnownFields DEF Init, CdnInv, CdnClaimIsObserved, Finished
<1>2. CdnInv => CdnClaimIsObserved
  BY DEF CdnInv
<1> QED
  BY <1>1, <1>2, CdnInvKept, PTL DEF Spec

--------------------------------------------------------------------------------
(* The two builders. *)

\* For the protocols both know, they write the same outbound.
LEMMA BuildersAgree ==
  ASSUME NEW c, c.protocol \in {"VLESS", "VMESS", "Trojan", "Shadowsocks"}
  PROVE  GenerateOutbound(c) = BuildOutbound(c)
<1>1. CASE c.protocol = "VLESS"
  BY <1>1 DEF GenerateOutbound, BuildOutbound, XrayNames
<1>2. CASE c.protocol = "VMESS"
  BY <1>2 DEF GenerateOutbound, BuildOutbound, XrayNames
<1>3. CASE c.protocol = "Trojan"
  BY <1>3 DEF GenerateOutbound, BuildOutbound, XrayNames
<1>4. CASE c.protocol = "Shadowsocks"
  BY <1>4 DEF GenerateOutbound, BuildOutbound, XrayNames
<1> QED BY <1>1, <1>2, <1>3, <1>4

\* For Hysteria2 and TUIC the one that is shown has no outbound of its own.
LEMMA BuildersDiffer ==
  ASSUME NEW c, c.protocol \in {"Hysteria2", "TUIC"}
  PROVE  GenerateOutbound(c).protocol = "freedom" /\ BuildOutbound(c).protocol # "freedom"
<1>1. CASE c.protocol = "Hysteria2"
  BY <1>1 DEF GenerateOutbound, BuildOutbound, XrayNames
<1>2. CASE c.protocol = "TUIC"
  BY <1>2 DEF GenerateOutbound, BuildOutbound, XrayNames
<1> QED BY <1>1, <1>2

\* The live test runs an outbound for these protocols only.
LEMMA TestedProtocols ==
  ASSUME NEW c, BuildOutbound(c) # NoOutbound
  PROVE  c.protocol \in {"VLESS", "VMESS", "Trojan", "Shadowsocks", "Hysteria2", "TUIC"}
BY DEF BuildOutbound

\* Whatever is pasted, the config that is shown and exported proxies through the
\* outbound that the live test ran, unless that is one of Hysteria2 or TUIC: then
\* the shown one has no proxy at all.
THEOREM ShownConfigIsTestedHolds == Spec => []ShownConfigIsTested
<1> DEFINE c == r.cfg
           direct == [protocol |-> "freedom", settings |-> << >>, stream |-> << >>]
           shown == GenerateXrayClientConfig(c).outbounds
           tested == BuildTempConfig(BuildOutbound(c), "").outbounds
<1>1. shown = <<GenerateOutbound(c), direct>> /\ tested = <<BuildOutbound(c), direct>>
  BY DEF GenerateXrayClientConfig, BuildTempConfig
<1> HIDE DEF shown, tested
<1>2. ASSUME BuildOutbound(c) # NoOutbound, c.protocol \notin {"Hysteria2", "TUIC"}
      PROVE  shown = tested
  <2>1. c.protocol \in {"VLESS", "VMESS", "Trojan", "Shadowsocks"}
    BY <1>2, TestedProtocols
  <2> QED BY <1>1, <2>1, BuildersAgree
<1>3. ASSUME c.protocol \in {"Hysteria2", "TUIC"}
      PROVE  shown # tested /\ \A i \in DOMAIN shown : shown[i].protocol = "freedom"
  <2> DEFINE g == GenerateOutbound(c)
             b == BuildOutbound(c)
  <2>1. g.protocol = "freedom" /\ b.protocol # "freedom" /\ direct.protocol = "freedom"
    BY <1>3, BuildersDiffer
  <2> HIDE DEF g, b, direct
  <2>2. shown = <<g, direct>> /\ tested = <<b, direct>>
    BY <1>1 DEF g, b
  <2> QED BY <2>1, <2>2
<1>4. ShownConfigIsTested
  BY <1>2, <1>3, Zenon DEF ShownConfigIsTested, shown, tested, c
<1> QED BY <1>4, PTL

--------------------------------------------------------------------------------
(* The ratings. *)

\* What the assessment leaves: one strong CDN at most, insights of allowed levels and
\* tunnels rated within their caps.
Rated(q) ==
  /\ "guesses" \in DOMAIN q.dep
  /\ GuessesRated(q.dep.guesses)
  /\ InsightsAllowed(q.insights, LiveProxyOk(q))
  /\ TunnelsRated(q.tun, LiveProxyOk(q))

\* Scored from the deployment guess to the live test, rated from the assessment on.
RatedInv ==
  /\ DOMAIN r = Fields
  /\ LookedUpOK(r.net) /\ EdgesRated(r.net)
  /\ stage \in {"live_test", "assess"} => GuessesScored(r.dep)
  /\ stage \in {"report", "align"} \/ Finished => Rated(r)

\* The verdict on the live test depends on the live test alone.
LEMMA SameRun ==
  ASSUME NEW p, NEW q, p.xray = q.xray
  PROVE  LiveProxyOk(p) = LiveProxyOk(q)
BY DEF LiveProxyOk

\* Before anything is known no address is rated.
LEMMA NothingLookedUp ==
  ASSUME NEW c
  PROVE  DOMAIN NothingKnown(c) = Fields /\ LookedUpOK(NothingKnown(c).net) /\ EdgesRated(NothingKnown(c).net)
<1>1. DOMAIN NothingKnown(c) = Fields /\ NothingKnown(c).net = {}
  BY DEF NothingKnown, Fields
<1> QED BY <1>1 DEF LookedUpOK, EdgesRated, CdnIn

\* The assessment turns the scored deployment into a rated one.
LEMMA AssessRates ==
  ASSUME NEW p, DOMAIN p = Fields, EdgesRated(p.net), GuessesScored(p.dep), NEW order
  PROVE  LET q == [p EXCEPT !.setOrder = order]
             a == AssessStealth([q EXCEPT !.tun = AnalyzeTunnels(q)])
         IN  DOMAIN a = Fields /\ a.net = p.net /\ a.xray = p.xray /\ Rated(a)
<1> DEFINE q == [p EXCEPT !.setOrder = order]
           s == [q EXCEPT !.tun = AnalyzeTunnels(q)]
           a == AssessStealth(s)
           cal == CalibrationOf(s, DpiReport(s), CamouflageReport(s), OriginReport(s))
<1>1. q.net = p.net /\ q.dep = p.dep
  BY DEF Fields
<1>2. IsScore(ProxyGuess(q.dep))
  <2>1. "Reverse Proxy" \in GuessNames
    BY GuessNamesAre, Zenon
  <2> HIDE DEF q
  <2> QED BY <1>1, <2>1, Zenon DEF ProxyGuess, GuessesScored
<1>3. \A m \in DetectedTunnels(q) : MatchOK(m)
  <2> HIDE DEF q
  <2>1. EdgesRated(q.net)
    BY <1>1
  <2> QED BY <1>2, <2>1, DetectedAreOK
<1>4. /\ DOMAIN s = Fields /\ s.net = p.net /\ s.dep = p.dep /\ s.xray = p.xray
      /\ s.tun = AnalyzeTunnels(q)
  BY DEF Fields
<1> HIDE DEF q
<1>5. DOMAIN s.tun = {"detected", "primary_id", "primary_type", "primary_conf"} /\ s.tun.detected = DetectedTunnels(q)
  <2>1. \E a1, a2, a3 : AnalyzeTunnels(q) = [detected |-> DetectedTunnels(q), primary_id |-> a1,
                                           primary_type |-> a2, primary_conf |-> a3]
    BY Zenon DEF AnalyzeTunnels
  <2> HIDE DEF s
  <2> QED BY <1>4, <2>1
<1> HIDE DEF s
<1>6. /\ GuessesRated(cal.guesses)
      /\ InsightsAllowed(cal.insights, LiveProxyOk(s))
      /\ \A m \in cal.tunnels : RatedOK(m, LiveProxyOk(s))
  <2>1. GuessesScored(s.dep) /\ \A m \in s.tun.detected : MatchOK(m)
    BY <1>3, <1>4, <1>5
  <2> QED BY <2>1, CalibrationHolds
<1>7. "guesses" \in DOMAIN s.dep
  BY <1>4 DEF GuessesScored
<1>8. \E dpi, camouflage, origin :
         a = [s EXCEPT !.dpi = dpi, !.camouflage = camouflage, !.origin = origin,
                       !.insights = cal.insights, !.dep.guesses = cal.guesses,
                       !.tun.detected = cal.tunnels, !.tun.primary_conf = cal.primary_cal]
  BY DEF AssessStealth
<1> HIDE DEF a, cal
<1>9. /\ DOMAIN a = Fields /\ a.net = s.net /\ a.xray = s.xray
      /\ a.insights = cal.insights
      /\ "guesses" \in DOMAIN a.dep /\ a.dep.guesses = cal.guesses
      /\ "detected" \in DOMAIN a.tun /\ a.tun.detected = cal.tunnels
  <2>1. PICK dpi, camouflage, origin :
         a = [s EXCEPT !.dpi = dpi, !.camouflage = camouflage, !.origin = origin,
                       !.insights = cal.insights, !.dep.guesses = cal.guesses,
                       !.tun.detected = cal.tunnels, !.tun.primary_conf = cal.primary_cal]
    BY <1>8
  <2>2. DOMAIN a = Fields /\ a.net = s.net /\ a.xray = s.xray /\ a.insights = cal.insights
    BY <1>4, <2>1 DEF Fields
  <2>3. a.dep = [s.dep EXCEPT !.guesses = cal.guesses]
    BY <1>4, <2>1 DEF Fields
  <2>4. a.tun = [[s.tun EXCEPT !.detected = cal.tunnels] EXCEPT !.primary_conf = cal.primary_cal]
    BY <1>4, <2>1 DEF Fields
  <2>5. "guesses" \in DOMAIN a.dep /\ a.dep.guesses = cal.guesses
    BY <1>7, <2>3
  <2>6. "detected" \in DOMAIN a.tun /\ a.tun.detected = cal.tunnels
    BY <1>5, <2>4
  <2> QED BY <2>2, <2>5, <2>6
<1>10. LiveProxyOk(a) = LiveProxyOk(s)
  BY <1>9, SameRun
<1>11. Rated(a)
  BY <1>6, <1>9, <1>10 DEF Rated, TunnelsRated
<1> QED BY <1>4, <1>9, <1>11 DEF a, s, q

\* The alignment keeps the ratings.
LEMMA AlignRates ==
  ASSUME NEW p, DOMAIN p = Fields, Rated(p)
  PROVE  LET a == AlignWithArchitecture(p)
         IN  DOMAIN a = Fields /\ a.net = p.net /\ a.xray = p.xray /\ Rated(a)
<1> DEFINE a == AlignWithArchitecture(p)
<1>1. /\ DOMAIN a = Fields /\ a.net = p.net /\ a.xray = p.xray /\ a.insights = p.insights
      /\ a.dep = AlignDeployment(p.dep, p.arch.tier)
      /\ a.tun = AlignTunnels(p.tun, p.arch)
  BY DEF AlignWithArchitecture, Fields
<1> HIDE DEF a
<1>2. LiveProxyOk(a) = LiveProxyOk(p)
  BY <1>1, SameRun
<1>3. "guesses" \in DOMAIN a.dep /\ GuessesRated(a.dep.guesses)
  BY <1>1, AlignKeepsGuesses DEF Rated
<1>4. TunnelsRated(a.tun, LiveProxyOk(p))
  BY <1>1, AlignKeepsRatings DEF Rated, TunnelsRated
<1>5. Rated(a)
  BY <1>1, <1>2, <1>3, <1>4 DEF Rated
<1> QED BY <1>1, <1>5 DEF a

\* Every step keeps the invariant.
LEMMA RatedInvKept == RatedInv /\ [Next]_vars => RatedInv'
<1> SUFFICES ASSUME RatedInv, [Next]_vars PROVE RatedInv'
  OBVIOUS
<1> USE DEF RatedInv, Finished, Goes
<1>1. CASE Parse
  <2>1. stage' = "validate" /\ \E c : r' = NothingKnown(c)
    BY <1>1 DEF Parse
  <2> QED BY <2>1, NothingLookedUp
<1>2. CASE Validate
  <2>1. stage' = "dns" /\ DOMAIN r' = Fields /\ r'.net = r.net
    BY <1>2 DEF Validate, Fields
  <2> QED BY <2>1
<1>3. CASE ResolveTargets
  <2>1. stage' = "probe" /\ DOMAIN r' = Fields /\ r'.net = r.net
    BY <1>3 DEF ResolveTargets, Fields
  <2> QED BY <2>1
<1>4. CASE ProbeTargets
  <2>1. stage' = "intel" /\ DOMAIN r' = Fields /\ \E net : r'.net = LookupNetwork(r.endpoints.ips, r.dns.reverse, net)
    BY <1>4 DEF ProbeTargets, Fields
  <2> QED BY <2>1, LookupsOK
<1>5. CASE GatherIntel
  <2>1. /\ stage' = "conclude" /\ DOMAIN r' = Fields
        /\ \E threats : r'.net = r.net \/ r'.net = ApplyThreats(r.net, threats)
    <3>1. PICK zones \in DnsblAnswers, client \in Clients :
            LET threats == IF ~settings.threat THEN {} ELSE {ThreatIntel(n, zones[n.ip]) : n \in r.net}
            IN  r' = [r EXCEPT !.threat = threats, !.tunnel = TunnelRoute(client, r.net),
                               !.net = IF settings.threat THEN ApplyThreats(@, threats) ELSE @]
      BY <1>5 DEF GatherIntel
    <3> DEFINE threats == IF ~settings.threat THEN {} ELSE {ThreatIntel(n, zones[n.ip]) : n \in r.net}
    <3>2. r' = [r EXCEPT !.threat = threats, !.tunnel = TunnelRoute(client, r.net),
                         !.net = IF settings.threat THEN ApplyThreats(r.net, threats) ELSE r.net]
      BY <3>1
    <3> HIDE DEF threats
    <3>3. stage' = "conclude"
      BY <1>5 DEF GatherIntel
    <3> QED BY <3>2, <3>3 DEF Fields
  <2> QED BY <2>1, VerdictsKeepLookups
<1>6. CASE Conclude
  <2>1. /\ stage' = "live_test" /\ DOMAIN r' = Fields /\ r'.net = r.net
        /\ r'.dep = AnalyzeDeployment(r.cfg, r.dns, r.net, r.conn, r.trace)
    BY <1>6 DEF Conclude, Fields
  <2> QED BY <2>1, DeploymentScores
<1>7. CASE LiveTest
  <2>1. stage = "live_test" /\ stage' = "assess" /\ DOMAIN r' = Fields /\ r'.dep = r.dep /\ r'.net = r.net
    BY <1>7 DEF LiveTest, Fields
  <2> QED BY <2>1
<1>8. CASE Assess
  <2>1. PICK order : r' = AssessStealth([[r EXCEPT !.setOrder = order] EXCEPT !.tun = AnalyzeTunnels([r EXCEPT !.setOrder = order])])
    BY <1>8 DEF Assess
  <2>2. stage = "assess" /\ stage' = "report"
    BY <1>8 DEF Assess
  <2>3. DOMAIN r' = Fields /\ r'.net = r.net /\ Rated(r')
    BY <2>1, <2>2, AssessRates
  <2> QED BY <2>2, <2>3
<1>9. CASE BuildReports
  <2>1. /\ stage = "report" /\ stage' = "align" /\ DOMAIN r' = Fields /\ r'.dep = r.dep /\ r'.net = r.net
        /\ r'.tun = r.tun /\ r'.insights = r.insights /\ r'.xray = r.xray
    BY <1>9 DEF BuildReports, Fields
  <2>2. LiveProxyOk(r') = LiveProxyOk(r)
    BY <2>1, SameRun
  <2>3. Rated(r')
    BY <2>1, <2>2 DEF Rated
  <2> QED BY <2>1, <2>3
<1>10. CASE Align
  <2>1. stage = "align" /\ stage' = "plugins" /\ r' = AlignWithArchitecture(r)
    BY <1>10 DEF Align
  <2>2. DOMAIN r' = Fields /\ r'.net = r.net /\ Rated(r')
    BY <2>1, AlignRates
  <2> QED BY <2>1, <2>2
<1>11. CASE ParseFails \/ ResolveRaises \/ HookReturnsNothing
  BY <1>11 DEF ParseFails, ResolveRaises, HookReturnsNothing
<1>12. CASE RunHooks \/ SyncUpload \/ ShowSummary \/ Ended \/ UNCHANGED vars
  BY <1>12 DEF RunHooks, SyncUpload, ShowSummary, Ended, vars
<1> QED
  BY <1>1, <1>2, <1>3, <1>4, <1>5, <1>6, <1>7, <1>8, <1>9, <1>10, <1>11, <1>12 DEF Next

\* And it holds at first.
LEMMA RatedInvInit == Init => RatedInv
BY NothingLookedUp DEF Init, RatedInv, Finished

\* However many traces several CDNs leave, a finished analysis is certain of at most
\* one of them: the conflict rules weaken the others, and the alignment with the
\* architecture, which runs after them, raises no level.
THEOREM OneStrongCdnHolds == Spec => []OneStrongCdn
<1>1. RatedInv => OneStrongCdn
  <2> SUFFICES ASSUME RatedInv, Finished
               PROVE  Cardinality({g \in r.dep.guesses : g.name \in CdnGuessNames /\ g.level \in {"Proven", "Strong"}}) <= 1
    BY DEF OneStrongCdn
  <2>1. OneStrong(r.dep.guesses)
    BY DEF RatedInv, Rated, GuessesRated
  <2> DEFINE strong == {g \in r.dep.guesses : g.name \in CdnGuessNames /\ g.level \in {"Proven", "Strong"}}
  <2>2. \A g, h \in strong : g = h
    BY <2>1 DEF OneStrong, StrongCdn, Strong
  <2> HIDE DEF strong
  <2>3. Cardinality(strong) <= 1
    BY <2>2, AtMostOne
  <2> QED BY <2>3 DEF strong
<1> QED
  BY <1>1, RatedInvInit, RatedInvKept, PTL DEF Spec

\* Without verified traffic a finished analysis calls nothing proven and rates no
\* tunnel above 7200, through calibration, conflict rules and alignment.
THEOREM UnverifiedIsCappedHolds == Spec => []UnverifiedIsCapped
<1>1. RatedInv => UnverifiedIsCapped
  <2> SUFFICES ASSUME RatedInv, Finished, ~LiveProxyOk(r)
               PROVE  /\ \A i \in r.insights : i.level # "Proven"
                      /\ \A m \in r.tun.detected : m.cal <= NoLiveCap
    BY DEF UnverifiedIsCapped
  <2>1. InsightsAllowed(r.insights, LiveProxyOk(r)) /\ TunnelsRated(r.tun, LiveProxyOk(r))
    BY DEF RatedInv, Rated
  <2>2. \A i \in r.insights : i.level # "Proven"
    BY <2>1 DEF InsightsAllowed, LevelAllowed
  <2>3. \A m \in r.tun.detected : m.cal <= NoLiveCap
    BY <2>1 DEF TunnelsRated, RatedOK, CalOK
  <2> QED BY <2>2, <2>3
<1> QED
  BY <1>1, RatedInvInit, RatedInvKept, PTL DEF Spec

--------------------------------------------------------------------------------
(* What the reports say of the run. *)

\* What the four reports of an analysis say of its run, and the title they share.
SaysAlike(q) ==
  /\ ~Working(q) => q.optimization.verdict # "Ready to sell"
  /\ [item |-> "live", done |-> TRUE] \in q.optimization.checklist <=> Working(q)
  /\ q.arch.evidence["Xray E2E"] = "confirmed" <=> LiveProxyOk(q)
  /\ q.arch.assessment.title \in Titles
  /\ q.implementation.e2e = "verified" <=> LiveProxyOk(q)
  /\ "checklist" \in DOMAIN q.guide
  /\ "proxy valid" \in q.guide.checklist <=> Working(q)

\* A result is consistent from the start and written once; the reports are written
\* from it, and the alignment changes none of what they say of it.
SaysInv ==
  /\ DOMAIN r = Fields
  /\ RunConsistent(r.xray)
  /\ stage = "align" \/ Finished => SaysAlike(r)
  /\ Shown => report.verdict = Verdict(r)

\* What the reports say depends on the run, the reports and the checklist of the guide alone.
LEMMA SameSays ==
  ASSUME NEW p, NEW q, SaysAlike(p), q.xray = p.xray, q.optimization = p.optimization, q.arch = p.arch,
         q.implementation = p.implementation, DOMAIN q.guide = DOMAIN p.guide,
         q.guide.checklist = p.guide.checklist
  PROVE  SaysAlike(q)
<1>1. (Working(q) <=> Working(p)) /\ (LiveProxyOk(q) <=> LiveProxyOk(p))
  BY DEF Working, LiveProxyOk
<1> QED BY <1>1, Zenon DEF SaysAlike

\* The setup guide has its checklist as it is computed.
LEMMA GuideHasChecklist ==
  ASSUME NEW q
  PROVE  "checklist" \in DOMAIN SetupGuide(q) /\ SetupGuide(q).checklist = GuideChecklist(q)
<1> DEFINE a == q.tun.primary_type
           b == InfrastructureFacts(q)
           c == RecommendPanels(q.cfg.protocol)
           d == GuideChecklist(q)
           e == GuideTips(q)
           f == HowToRun(q)
<1>1. \E s : SetupGuide(q) = [scenario |-> a, facts |-> b, panels |-> c, sections |-> s,
                              checklist |-> d, tips |-> e, run |-> f]
  BY Zenon DEF SetupGuide
<1> HIDE DEF a, b, c, d, e, f
<1>2. "checklist" \in DOMAIN SetupGuide(q) /\ SetupGuide(q).checklist = d
  BY <1>1
<1> QED BY <1>2 DEF d

\* The reports, written from the analysis as it stands, all say the same of its run.
LEMMA ReportsSay ==
  ASSUME NEW p, NEW q, q.xray = p.xray, q.guide = SetupGuide(p), NEW guess,
         q.optimization = ConfigOptimization(p, guess), q.implementation = ImplementationAnalysis(p),
         q.arch = ArchitectureDiagnostics(p)
  PROVE  SaysAlike(q)
<1>1. (Working(q) <=> Working(p)) /\ (LiveProxyOk(q) <=> LiveProxyOk(p))
  BY DEF Working, LiveProxyOk
<1>2. q.arch.evidence["Xray E2E"] = "confirmed" <=> LiveProxyOk(p)
  BY ArchitectureSays, Zenon
<1>3. q.arch.assessment.title \in Titles
  BY TitleIs
<1>4. q.implementation.e2e = "verified" <=> LiveProxyOk(p)
  BY ImplementationSays
<1>5. "checklist" \in DOMAIN q.guide
  BY GuideHasChecklist
<1>6. "proxy valid" \in q.guide.checklist <=> Working(p)
  BY GuideHasChecklist, GuideSays, Zenon
<1>7. [item |-> "live", done |-> TRUE] \in q.optimization.checklist <=> Working(p)
  <2>1. q.optimization.checklist = DeliveryChecklist(p, q.optimization.iran)
    BY OptimizationScores
  <2> QED BY <2>1, DeliverySays
<1>8. ~Working(p) => q.optimization.verdict # "Ready to sell"
  BY OptimizationScores, Zenon
<1> QED BY <1>1, <1>2, <1>3, <1>4, <1>5, <1>6, <1>7, <1>8, Zenon DEF SaysAlike

\* The alignment rewrites the head of the guide and nothing that speaks of the run.
LEMMA AlignSays ==
  ASSUME NEW p, DOMAIN p = Fields, SaysAlike(p)
  PROVE  LET a == AlignWithArchitecture(p)
         IN  DOMAIN a = Fields /\ a.xray = p.xray /\ SaysAlike(a)
<1> DEFINE a == AlignWithArchitecture(p)
<1>1. /\ DOMAIN a = Fields /\ a.xray = p.xray /\ a.optimization = p.optimization /\ a.arch = p.arch
      /\ a.implementation = p.implementation
      /\ a.guide = AlignSetupGuide(p.guide, p.arch)
  BY DEF AlignWithArchitecture, Fields
<1> DEFINE title == p.arch.assessment.title
           facts == (p.guide.facts \ {"Detected CDN"}) \cup
            {IF p.arch.tier = "confirmed" THEN "CDN fronting confirmed" ELSE "CDN not proven", "Origin IP unknown"}
<1>2. a.guide = [p.guide EXCEPT !.scenario = title, !.facts = facts]
  BY <1>1, Zenon DEF AlignSetupGuide
<1> HIDE DEF a, title, facts
<1>3. "checklist" \in DOMAIN p.guide
  BY Zenon DEF SaysAlike
<1>4. DOMAIN a.guide = DOMAIN p.guide /\ a.guide.checklist = p.guide.checklist
  BY <1>2, <1>3
<1>5. SaysAlike(a)
  BY <1>1, <1>4, SameSays
<1> QED BY <1>1, <1>5 DEF a

\* A new analysis has no run.
LEMMA KnownRun == ASSUME NEW c PROVE NothingKnown(c).xray = NoRun
BY DEF NothingKnown

\* Each step keeps SaysInv.
LEMMA SaysInvKept == SaysInv /\ [Next]_vars => SaysInv'
<1> SUFFICES ASSUME SaysInv, [Next]_vars PROVE SaysInv'
  OBVIOUS
<1> USE DEF SaysInv, Finished, Shown, Goes
<1>0. ASSUME stage' \notin {"align", "plugins", "upload", "done", "shown"}, DOMAIN r' = Fields, r'.xray = r.xray
      PROVE  SaysInv'
  BY <1>0
<1>1. CASE Parse
  <2>1. stage' = "validate" /\ \E c : r' = NothingKnown(c)
    BY <1>1 DEF Parse
  <2>2. DOMAIN r' = Fields /\ r'.xray = NoRun
    BY <2>1, KnownFields, KnownRun
  <2>3. RunConsistent(NoRun)
    BY NoRunIs, NotValidIsConsistent
  <2> QED BY <2>1, <2>2, <2>3
<1>2. CASE Validate
  <2>1. stage' = "dns" /\ DOMAIN r' = Fields /\ r'.xray = r.xray
    BY <1>2 DEF Validate, Fields
  <2> QED BY <1>0, <2>1
<1>3. CASE ResolveTargets
  <2>1. stage' = "probe" /\ DOMAIN r' = Fields /\ r'.xray = r.xray
    BY <1>3 DEF ResolveTargets, Fields
  <2> QED BY <1>0, <2>1
<1>4. CASE ProbeTargets
  <2>1. stage' = "intel" /\ DOMAIN r' = Fields /\ r'.xray = r.xray
    BY <1>4 DEF ProbeTargets, Fields
  <2> QED BY <1>0, <2>1
<1>5. CASE GatherIntel
  <2>1. stage' = "conclude" /\ DOMAIN r' = Fields /\ r'.xray = r.xray
    BY <1>5 DEF GatherIntel, Fields
  <2> QED BY <1>0, <2>1
<1>6. CASE Conclude
  <2>1. stage' = "live_test" /\ DOMAIN r' = Fields /\ r'.xray = r.xray
    BY <1>6 DEF Conclude, Fields
  <2> QED BY <1>0, <2>1
<1>7. CASE LiveTest
  <2>1. stage' = "assess" /\ DOMAIN r' = Fields
    BY <1>7 DEF LiveTest, Fields
  <2>2. r'.xray = SkippedByAnalyzer \/ \E o : r'.xray = TestConfigWithXray(r.cfg, settings.real, o)
    BY <1>7 DEF LiveTest, Fields
  <2>3. RunConsistent(SkippedByAnalyzer)
    <3>1. SkippedByAnalyzer.proxy_test = "Pending"
      BY NoRunIs DEF SkippedByAnalyzer, RunFields
    <3> QED BY <3>1, NotValidIsConsistent
  <2> QED BY <2>1, <2>2, <2>3, TestIsConsistent
<1>8. CASE Assess
  <2>1. PICK order : r' = AssessStealth([[r EXCEPT !.setOrder = order] EXCEPT !.tun = AnalyzeTunnels([r EXCEPT !.setOrder = order])])
    BY <1>8 DEF Assess
  <2> DEFINE q == [[r EXCEPT !.setOrder = order] EXCEPT !.tun = AnalyzeTunnels([r EXCEPT !.setOrder = order])]
  <2>2. DOMAIN q = Fields /\ q.xray = r.xray
    BY DEF Fields
  <2> HIDE DEF q
  <2>3. DOMAIN r' = Fields /\ r'.xray = r.xray
    BY <2>1, <2>2 DEF AssessStealth, Fields, q
  <2>4. stage' = "report"
    BY <1>8 DEF Assess
  <2> QED BY <1>0, <2>3, <2>4
<1>9. CASE BuildReports
  <2>1. /\ stage' = "align" /\ DOMAIN r' = Fields /\ r'.xray = r.xray
        /\ r'.guide = SetupGuide(r) /\ r'.optimization = ConfigOptimization(r, TopGuess(r).name)
        /\ r'.implementation = ImplementationAnalysis(r) /\ r'.arch = ArchitectureDiagnostics(r)
    BY <1>9 DEF BuildReports, Fields
  <2>2. SaysAlike(r')
    BY <2>1, ReportsSay
  <2> QED BY <2>1, <2>2
<1>10. CASE Align
  <2>1. stage = "align" /\ stage' = "plugins" /\ r' = AlignWithArchitecture(r)
    BY <1>10 DEF Align
  <2>2. DOMAIN r' = Fields /\ r'.xray = r.xray /\ SaysAlike(r')
    BY <2>1, AlignSays
  <2> QED BY <2>1, <2>2
<1>11. CASE ParseFails \/ ResolveRaises \/ HookReturnsNothing
  BY <1>11 DEF ParseFails, ResolveRaises, HookReturnsNothing
<1>12. CASE RunHooks \/ SyncUpload
  BY <1>12 DEF RunHooks, SyncUpload
<1>13. CASE ShowSummary
  <2>1. stage = "done" /\ stage' = "shown" /\ r' = r /\ report' = Summary(r)
    BY <1>13 DEF ShowSummary
  <2>2. report'.verdict = Verdict(r)
    BY <2>1, Zenon DEF Summary
  <2> QED BY <2>1, <2>2
<1>14. CASE Ended \/ UNCHANGED vars
  BY <1>14 DEF Ended, vars
<1> QED
  BY <1>1, <1>2, <1>3, <1>4, <1>5, <1>6, <1>7, <1>8, <1>9, <1>10, <1>11, <1>12, <1>13, <1>14 DEF Next

\* An equality and a membership are true or false.
LEMMA ClaimsAreBoolean == \A x, y : (x = y) \in BOOLEAN /\ (x \in y) \in BOOLEAN
OBVIOUS

\* SaysInv holds at the start.
LEMMA SaysInvInit == Init => SaysInv
<1>1. RunConsistent(NoRun)
  BY NoRunIs, NotValidIsConsistent
<1> QED BY <1>1, KnownRun, KnownFields DEF Init, SaysInv, Finished, Shown

\* Whatever is pasted and whatever happens: the verdict line, the architecture, the
\* reconstruction guide, the setup guide and the checklist for buyers say the same of
\* the live test, and no config is called ready to sell that did not carry traffic.
THEOREM VerdictsAgreeHolds == Spec => []VerdictsAgree
<1>1. SaysInv => VerdictsAgree
  <2> SUFFICES ASSUME SaysInv, Shown
               PROVE  /\ r.optimization.verdict = "Ready to sell" => LiveProxyOk(r)
                      /\ \A says \in {"E2E OK" \in report.verdict, r.arch.evidence["Xray E2E"] = "confirmed",
                                   r.implementation.e2e = "verified", "proxy valid" \in r.guide.checklist,
                                   [item |-> "live", done |-> TRUE] \in r.optimization.checklist} :
                           says = LiveProxyOk(r)
    BY Zenon DEF VerdictsAgree
  <2>1. SaysAlike(r) /\ report.verdict = Verdict(r)
    BY DEF SaysInv, Finished, Shown
  <2>2. Working(r) <=> LiveProxyOk(r)
    BY DEF SaysInv, RunConsistent, Working, LiveProxyOk
  <2>3. r.optimization.verdict = "Ready to sell" => LiveProxyOk(r)
    BY <2>1, <2>2, Zenon DEF SaysAlike
  <2> DEFINE a == "E2E OK" \in report.verdict
             b == r.arch.evidence["Xray E2E"] = "confirmed"
             c == r.implementation.e2e = "verified"
             d == "proxy valid" \in r.guide.checklist
             e == [item |-> "live", done |-> TRUE] \in r.optimization.checklist
             l == LiveProxyOk(r)
  <2>4. "E2E OK" \in Verdict(r) <=> Working(r)
    BY <2>1, VerdictSays, Zenon DEF SaysAlike
  <2>5. (a <=> l) /\ (b <=> l) /\ (c <=> l) /\ (d <=> l) /\ (e <=> l)
    BY <2>1, <2>2, <2>4, Zenon DEF SaysAlike
  <2>6. a \in BOOLEAN /\ b \in BOOLEAN /\ c \in BOOLEAN /\ d \in BOOLEAN /\ e \in BOOLEAN /\ l \in BOOLEAN
    BY ClaimsAreBoolean, Zenon DEF LiveProxyOk
  <2> HIDE DEF a, b, c, d, e, l
  <2>7. \A says \in {a, b, c, d, e} : says = l
    BY <2>5, <2>6
  <2> QED BY <2>3, <2>7, Zenon DEF a, b, c, d, e, l
<1> QED
  BY <1>1, SaysInvInit, SaysInvKept, PTL DEF Spec

--------------------------------------------------------------------------------
(* The topology. *)

\* The two guesses of a deployment behind a named CDN.
ScoresOfEdge(dep) == dep.guesses["Direct VPS"] = 25 /\ dep.guesses["CDN Fronted"] >= 58

\* The guesses of an analysis: the plain server is among them, and a named CDN bounds them.
GuessedOK(q) ==
  /\ \A g \in q.dep.guesses : g.name \in GuessNames /\ g.conf \in 0..100
  /\ \E g \in q.dep.guesses : IsDirect(g)
  /\ OnEdge(q.conn) => GuessesOfEdge(q.dep.guesses)

\* The matches of an analysis: a named CDN excludes the direct ones.
MatchedOK(q) ==
  /\ DOMAIN q.tun = {"detected", "primary_id", "primary_type", "primary_conf"}
  /\ Tunnels(q.tun.detected)
  /\ OnEdge(q.conn) => NoDirectMatch(q.tun.detected)

\* The type of an analysis follows its tier.
TypedOK(q) ==
  /\ Unconfirmed(q) => q.tun.primary_type \notin CdnTunnelIds
  /\ ~Unconfirmed(q) => q.tun.primary_type \notin DirectTopologyIds

\* The confidences are bounded by what the answers named from the deployment on, which makes
\* the three conclusions that are computed apart agree in the end.
TopologyInv ==
  /\ stage \in {"live_test", "assess"} => (OnEdge(r.conn) => ScoresOfEdge(r.dep))
  /\ stage \in {"report", "align"} \/ Finished => GuessedOK(r) /\ MatchedOK(r)
  /\ stage = "align" \/ Finished => r.arch.tier = CdnFrontingTier(r)
  /\ Finished => TypedOK(r)
  /\ Shown => report = Summary(r)

\* The tier speaks of a CDN exactly if an answer named one.
LEMMA TierOnEdge ==
  ASSUME NEW q
  PROVE  OnEdge(q.conn) <=> ~Unconfirmed(q)
<1>1. ~Unconfirmed(q) => OnEdge(q.conn)
  BY TierNeedsCdn DEF OnEdge, Unconfirmed
<1>2. ASSUME OnEdge(q.conn) PROVE ~Unconfirmed(q)
  <2> DEFINE seen == q.conn.http_cdn # "" /\ WireHeaders(q.conn) \cap EdgeHeaders # {}
             named == q.conn.http_cdn # ""
             tier == CdnFrontingTier(q)
  <2>1. tier = FirstOf(<< <<seen, "confirmed">>, <<named, "probable">> >>, "unconfirmed")
    BY Zenon DEF CdnFrontingTier
  <2>2. named
    BY <1>2, Zenon DEF OnEdge
  <2> HIDE DEF seen, named, tier
  <2>3. tier = IF seen THEN "confirmed" ELSE IF named THEN "probable" ELSE "unconfirmed"
    BY <2>1, FirstOfTwo
  <2>4. tier # "unconfirmed"
    BY <2>2, <2>3
  <2> QED BY <2>4, Zenon DEF Unconfirmed, tier
<1> QED BY <1>1, <1>2

\* The deployment guess behind a named CDN.
LEMMA DeploymentOnEdge ==
  ASSUME NEW c, NEW dns, NEW net, LookedUpOK(net), NEW conn, NEW trace, OnEdge(conn)
  PROVE  ScoresOfEdge(AnalyzeDeployment(c, dns, net, conn, trace))
<1> DEFINE dep == AnalyzeDeployment(c, dns, net, conn, trace)
<1>1. dep.guesses = [name \in GuessNames |-> GuessOf(name, c, dns, net, conn)]
  BY DEF AnalyzeDeployment, Guesses
<1> HIDE DEF dep
<1>2. "Direct VPS" \in GuessNames /\ "CDN Fronted" \in GuessNames
  BY GuessNamesAre, Zenon
<1>3. /\ dep.guesses["Direct VPS"] = GuessOf("Direct VPS", c, dns, net, conn)
      /\ dep.guesses["CDN Fronted"] = GuessOf("CDN Fronted", c, dns, net, conn)
  BY <1>1, <1>2, Zenon
<1>4. ScoresOfEdge(dep)
  BY <1>3, DirectGuessOnEdge, FrontedGuessOnEdge, Zenon DEF ScoresOfEdge
<1> QED BY <1>4 DEF dep

\* The guesses that the calibration follows are bounded like those of the deployment.
LEMMA FollowedGuesses ==
  ASSUME NEW q, NEW dep, GuessesScored(dep), GuessesFollow(q.dep.guesses, dep.guesses),
         OnEdge(q.conn) => ScoresOfEdge(dep)
  PROVE  GuessedOK(q)
<1> DEFINE guesses == q.dep.guesses
           scores == dep.guesses
<1>1. \A g \in guesses : g.name \in GuessNames /\ g.conf = scores[g.name]
  BY DEF GuessesFollow
<1>2. \A n \in GuessNames : \E g \in guesses : g.name = n /\ g.conf = scores[n]
  BY DEF GuessesFollow
<1>3. \A n \in GuessNames : scores[n] \in 0..100
  BY DEF GuessesScored, IsScore
<1> DEFINE a == "Direct VPS"
           b == "CDN Fronted"
<1>4. a \in GuessNames /\ b \in GuessNames
  BY GuessNamesAre, Zenon
<1>5. (\A g : IsDirect(g) <=> g.name = a) /\ (\A g : IsFronted(g) <=> g.name = b)
  BY Zenon DEF IsDirect, IsFronted
<1>6. OnEdge(q.conn) => scores[a] = 25 /\ scores[b] >= 58
  BY Zenon DEF ScoresOfEdge
<1> HIDE DEF scores, a, b, guesses
<1>7. \A g \in guesses : g.name \in GuessNames /\ g.conf \in 0..100
  BY <1>1, <1>3
<1>8. \E g \in guesses : IsDirect(g)
  BY <1>2, <1>4, <1>5
<1>9. ASSUME OnEdge(q.conn) PROVE GuessesOfEdge(guesses)
  <2>1. \A g \in guesses : IsDirect(g) => g.conf <= 25
    BY <1>1, <1>5, <1>6, <1>9
  <2>2. PICK g \in guesses : g.name = b /\ g.conf = scores[b]
    BY <1>2, <1>4
  <2>3. IsFronted(g) /\ 58 <= g.conf
    <3>1. scores[b] \in 0..100
      BY <1>3, <1>4
    <3> QED BY <1>5, <1>6, <1>9, <2>2, <3>1
  <2> QED BY <2>1, <2>3 DEF GuessesOfEdge
<1> QED BY <1>7, <1>8, <1>9 DEF GuessedOK, guesses

\* The assessment leaves the guesses and the matches within their bounds.
LEMMA AssessTopology ==
  ASSUME NEW p, DOMAIN p = Fields, EdgesRated(p.net), GuessesScored(p.dep),
         OnEdge(p.conn) => ScoresOfEdge(p.dep),
         NEW order, \A t \in CdnTunnels : order[t[1]] \in Nat
  PROVE  LET q == [p EXCEPT !.setOrder = order]
             a == AssessStealth([q EXCEPT !.tun = AnalyzeTunnels(q)])
         IN  GuessedOK(a) /\ MatchedOK(a)
<1> DEFINE q == [p EXCEPT !.setOrder = order]
           s == [q EXCEPT !.tun = AnalyzeTunnels(q)]
           a == AssessStealth(s)
           cal == CalibrationOf(s, DpiReport(s), CamouflageReport(s), OriginReport(s))
<1>1. q.net = p.net /\ q.dep = p.dep /\ q.conn = p.conn /\ q.setOrder = order
  BY DEF Fields
<1>2. /\ DOMAIN s = Fields /\ s.dep = p.dep /\ s.conn = p.conn /\ s.tun = AnalyzeTunnels(q)
  BY DEF Fields
<1>3. Rated(a)
  BY AssessRates
<1>4. \E dpi, camouflage, origin :
         a = [s EXCEPT !.dpi = dpi, !.camouflage = camouflage, !.origin = origin,
                       !.insights = cal.insights, !.dep.guesses = cal.guesses,
                       !.tun.detected = cal.tunnels, !.tun.primary_conf = cal.primary_cal]
  BY DEF AssessStealth
<1> HIDE DEF q
<1>5. /\ \A m \in DetectedTunnels(q) : Placed(m)
      /\ q.conn.http_cdn # "" => \A m \in DetectedTunnels(q) : m.id \notin DirectTopologyIds
  <2>1. IsScore(ProxyGuess(q.dep))
    <3>1. "Reverse Proxy" \in GuessNames
      BY GuessNamesAre, Zenon
    <3> QED BY <1>1, <3>1, Zenon DEF ProxyGuess, GuessesScored
  <2>2. EdgesRated(q.net) /\ \A t \in CdnTunnels : q.setOrder[t[1]] \in Nat
    BY <1>1
  <2> QED BY <2>1, <2>2, DetectedArePlaced
<1>6. DOMAIN s.tun = {"detected", "primary_id", "primary_type", "primary_conf"} /\ s.tun.detected = DetectedTunnels(q)
  <2>1. \E a1, a2, a3 : AnalyzeTunnels(q) = [detected |-> DetectedTunnels(q), primary_id |-> a1,
                                           primary_type |-> a2, primary_conf |-> a3]
    BY Zenon DEF AnalyzeTunnels
  <2> HIDE DEF s
  <2> QED BY <1>2, <2>1
<1> HIDE DEF s
<1>7. /\ GuessesFollow(cal.guesses, s.dep.guesses)
      /\ \A t \in cal.tunnels : \E m \in s.tun.detected : SameMatch(t, m)
  <2>1. GuessesScored(s.dep)
    BY <1>2
  <2> QED BY <2>1, CalibrationKeeps
<1>8. "guesses" \in DOMAIN s.dep
  BY <1>2 DEF GuessesScored
<1> HIDE DEF a, cal
<1>9. /\ a.conn = s.conn /\ a.dep.guesses = cal.guesses
      /\ DOMAIN a.tun = DOMAIN s.tun /\ a.tun.detected = cal.tunnels
  <2>1. PICK dpi, camouflage, origin :
         a = [s EXCEPT !.dpi = dpi, !.camouflage = camouflage, !.origin = origin,
                       !.insights = cal.insights, !.dep.guesses = cal.guesses,
                       !.tun.detected = cal.tunnels, !.tun.primary_conf = cal.primary_cal]
    BY <1>4
  <2>2. a.conn = s.conn
    BY <1>2, <2>1 DEF Fields
  <2>3. a.dep = [s.dep EXCEPT !.guesses = cal.guesses]
    BY <1>2, <2>1 DEF Fields
  <2>4. a.tun = [[s.tun EXCEPT !.detected = cal.tunnels] EXCEPT !.primary_conf = cal.primary_cal]
    BY <1>2, <2>1 DEF Fields
  <2>5. a.dep.guesses = cal.guesses
    BY <1>8, <2>3
  <2>6. DOMAIN a.tun = DOMAIN s.tun /\ a.tun.detected = cal.tunnels
    BY <1>6, <2>4
  <2> QED BY <2>2, <2>5, <2>6
<1>10. GuessedOK(a)
  BY <1>2, <1>7, <1>9, FollowedGuesses
<1>11. MatchedOK(a)
  <2>1. \A t \in a.tun.detected : \E m \in DetectedTunnels(q) : SameMatch(t, m)
    BY <1>6, <1>7, <1>9
  <2>2. Tunnels(a.tun.detected)
    BY <1>3, <1>5, <2>1 DEF Rated, TunnelsRated, RatedOK, Tunnels, SameMatch, Placed
  <2>3. OnEdge(a.conn) => NoDirectMatch(a.tun.detected)
    BY <1>1, <1>2, <1>5, <1>9, <2>1, Zenon DEF OnEdge, NoDirectMatch, SameMatch
  <2> QED BY <1>6, <1>9, <2>2, <2>3 DEF MatchedOK
<1> QED BY <1>10, <1>11 DEF a, s, q

\* So does the alignment, and the type follows the tier.
LEMMA AlignTopology ==
  ASSUME NEW p, DOMAIN p = Fields, Rated(p), GuessedOK(p), MatchedOK(p), p.arch.tier = CdnFrontingTier(p),
         p.arch.assessment.title \in Titles
  PROVE  LET a == AlignWithArchitecture(p)
         IN  a.arch.tier = CdnFrontingTier(a) /\ GuessedOK(a) /\ MatchedOK(a) /\ TypedOK(a)
<1> DEFINE a == AlignWithArchitecture(p)
           tier == p.arch.tier
<1>1. /\ DOMAIN a = Fields /\ a.conn = p.conn /\ a.arch = p.arch
      /\ a.dep = AlignDeployment(p.dep, p.arch.tier)
      /\ a.tun = AlignTunnels(p.tun, p.arch)
  BY DEF AlignWithArchitecture, Fields
<1> HIDE DEF a
<1>2. CdnFrontingTier(a) = CdnFrontingTier(p)
  BY <1>1, Zenon DEF CdnFrontingTier
<1>3. /\ Unconfirmed(a) <=> tier = "unconfirmed"
      /\ OnEdge(a.conn) => OnEdge(p.conn) /\ tier # "unconfirmed"
  BY <1>1, <1>2, TierOnEdge DEF Unconfirmed
<1>4. a.dep.guesses = {AlignedGuess(g, tier) : g \in p.dep.guesses}
  <2>1. "guesses" \in DOMAIN p.dep
    BY DEF Rated
  <2> QED BY <1>1, <2>1 DEF AlignDeployment
<1> DEFINE t == AlignTunnels(p.tun, p.arch)
<1>5. /\ \A m \in t.detected : m.conf \in 0..100
      /\ NoDirectMatch(p.tun.detected) => NoDirectMatch(t.detected)
      /\ p.arch.tier = "unconfirmed" => t.primary_type \notin CdnTunnelIds
      /\ p.arch.tier # "unconfirmed" /\ NoDirectMatch(p.tun.detected) => t.primary_type \notin DirectTopologyIds
  BY AlignedTypes DEF MatchedOK
<1>6. DOMAIN t = DOMAIN p.tun /\ \A m \in t.detected : DOMAIN m = RatedFields /\ Placed(m)
  BY AlignedPlaces DEF MatchedOK
<1> HIDE DEF t, tier
<1>7. \A g \in p.dep.guesses :
         LET x == AlignedGuess(g, tier)
         IN  /\ x.name = g.name /\ x.conf \in 0..100
             /\ tier # "unconfirmed" /\ IsDirect(g) => x.conf = g.conf
             /\ tier # "unconfirmed" /\ IsFronted(g) /\ 58 <= g.conf => 58 <= x.conf
  BY AlignedGuessIs DEF GuessedOK, Rated, GuessesRated
<1>8. GuessedOK(a)
  <2>1. \A x \in a.dep.guesses : x.name \in GuessNames /\ x.conf \in 0..100
    BY <1>4, <1>7 DEF GuessedOK
  <2>2. \E x \in a.dep.guesses : IsDirect(x)
    BY <1>4, <1>7 DEF GuessedOK, IsDirect
  <2>3. ASSUME OnEdge(a.conn) PROVE GuessesOfEdge(a.dep.guesses)
    <3>1. GuessesOfEdge(p.dep.guesses) /\ tier # "unconfirmed"
      BY <1>3, <2>3 DEF GuessedOK
    <3>2. ASSUME NEW x \in a.dep.guesses, IsDirect(x) PROVE x.conf <= 25
      <4>1. PICK g \in p.dep.guesses : x = AlignedGuess(g, tier)
        BY <1>4
      <4>2. IsDirect(g)
        BY <1>7, <3>2, <4>1 DEF IsDirect
      <4> QED BY <1>7, <3>1, <4>1, <4>2 DEF GuessesOfEdge
    <3>3. PICK g \in p.dep.guesses : IsFronted(g) /\ 58 <= g.conf
      BY <3>1 DEF GuessesOfEdge
    <3>4. \E x \in a.dep.guesses : IsFronted(x) /\ 58 <= x.conf
      <4> DEFINE x == AlignedGuess(g, tier)
      <4>1. x \in a.dep.guesses /\ x.name = g.name /\ 58 <= x.conf
        BY <1>4, <1>7, <3>1, <3>3
      <4> QED BY <3>3, <4>1 DEF IsFronted
    <3> QED BY <3>2, <3>4 DEF GuessesOfEdge
  <2> QED BY <2>1, <2>2, <2>3 DEF GuessedOK
<1>9. MatchedOK(a)
  <2>1. OnEdge(a.conn) => NoDirectMatch(a.tun.detected)
    BY <1>1, <1>3, <1>5 DEF MatchedOK, t
  <2> QED BY <1>1, <1>5, <1>6, <2>1 DEF MatchedOK, t, Tunnels
<1>10. TypedOK(a)
  <2>1. ~Unconfirmed(a) => NoDirectMatch(p.tun.detected)
    BY <1>1, TierOnEdge DEF MatchedOK
  <2> QED BY <1>1, <1>3, <1>5, <2>1 DEF TypedOK, t, tier
<1> QED BY <1>1, <1>2, <1>8, <1>9, <1>10 DEF a

\* Each step keeps TopologyInv.
LEMMA TopologyInvKept ==
  TopologyInv /\ CdnInv /\ RatedInv /\ SaysInv /\ [Next]_vars => TopologyInv'
<1> SUFFICES ASSUME TopologyInv, CdnInv, RatedInv, SaysInv, [Next]_vars PROVE TopologyInv'
  OBVIOUS
<1> USE DEF TopologyInv, Finished, Shown, Goes
<1>0. DOMAIN r = Fields
  BY DEF CdnInv
<1>1. CASE Parse \/ Validate \/ ResolveTargets \/ ProbeTargets \/ GatherIntel
  <2>1. stage' \in {"validate", "dns", "probe", "intel", "conclude"}
    BY <1>1 DEF Parse, Validate, ResolveTargets, ProbeTargets, GatherIntel
  <2> QED BY <2>1
<1>2. CASE Conclude
  <2>1. /\ stage' = "live_test" /\ r'.conn = r.conn
        /\ r'.dep = AnalyzeDeployment(r.cfg, r.dns, r.net, r.conn, r.trace)
    BY <1>0, <1>2 DEF Conclude, Fields
  <2>2. OnEdge(r'.conn) => ScoresOfEdge(r'.dep)
    BY <2>1, DeploymentOnEdge DEF RatedInv
  <2> QED BY <2>1, <2>2
<1>3. CASE LiveTest
  <2>1. stage = "live_test" /\ stage' = "assess" /\ r'.dep = r.dep /\ r'.conn = r.conn
    BY <1>0, <1>3 DEF LiveTest, Fields
  <2> QED BY <2>1
<1>4. CASE Assess
  <2>1. PICK order \in SetOrders :
          r' = AssessStealth([[r EXCEPT !.setOrder = order] EXCEPT !.tun = AnalyzeTunnels([r EXCEPT !.setOrder = order])])
    BY <1>4 DEF Assess
  <2>2. stage = "assess" /\ stage' = "report"
    BY <1>4 DEF Assess
  <2>3. \A t \in CdnTunnels : order[t[1]] \in Nat
    BY <2>1, SetOrdersAssumption, Zenon
  <2>4. EdgesRated(r.net) /\ GuessesScored(r.dep)
    BY <2>2 DEF RatedInv
  <2>5. GuessedOK(r') /\ MatchedOK(r')
    BY <1>0, <2>1, <2>2, <2>3, <2>4, AssessTopology
  <2> QED BY <2>2, <2>5
<1>5. CASE BuildReports
  <2>1. /\ stage = "report" /\ stage' = "align" /\ r'.dep = r.dep /\ r'.conn = r.conn /\ r'.tun = r.tun
        /\ r'.arch = ArchitectureDiagnostics(r)
    BY <1>0, <1>5 DEF BuildReports, Fields
  <2>2. r'.arch.tier = CdnFrontingTier(r')
    <3>1. CdnFrontingTier(r') = CdnFrontingTier(r)
      BY <2>1 DEF CdnFrontingTier
    <3> QED BY <2>1, <3>1, DiagnosticsTier
  <2>3. GuessedOK(r') /\ MatchedOK(r')
    BY <2>1, Zenon DEF GuessedOK, MatchedOK
  <2> QED BY <2>1, <2>2, <2>3
<1>6. CASE Align
  <2>1. stage = "align" /\ stage' = "plugins" /\ r' = AlignWithArchitecture(r)
    BY <1>6 DEF Align
  <2>2. Rated(r) /\ r.arch.assessment.title \in Titles
    BY <2>1 DEF RatedInv, SaysInv, SaysAlike
  <2>3. r'.arch.tier = CdnFrontingTier(r') /\ GuessedOK(r') /\ MatchedOK(r') /\ TypedOK(r')
    BY <1>0, <2>1, <2>2, AlignTopology
  <2> QED BY <2>1, <2>3
<1>7. CASE ParseFails \/ ResolveRaises \/ HookReturnsNothing
  <2>1. stage' = "failed"
    BY <1>7 DEF ParseFails, ResolveRaises, HookReturnsNothing
  <2> QED BY <2>1
<1>8. CASE RunHooks \/ SyncUpload
  <2>1. Finished /\ Finished' /\ ~Shown' /\ r' = r /\ stage' \notin {"live_test", "assess"}
    BY <1>8 DEF RunHooks, SyncUpload
  <2> QED BY <2>1
<1>9. CASE ShowSummary
  BY <1>9 DEF ShowSummary
<1>10. CASE Ended \/ UNCHANGED vars
  BY <1>10 DEF Ended, vars
<1> QED
  BY <1>1, <1>2, <1>3, <1>4, <1>5, <1>6, <1>7, <1>8, <1>9, <1>10 DEF Next

\* The ranking of the Result tab agrees with the type and the CDN of the alignment.
LEMMA TopologyInvImplies == TopologyInv /\ CdnInv /\ RatedInv => TopologyAgrees
<1> SUFFICES ASSUME TopologyInv, CdnInv, RatedInv, Shown
             PROVE  /\ r.arch.tier = "unconfirmed" =>
                          /\ r.tun.primary_type \notin CdnTunnelIds
                          /\ \A s \in report.primaries : s.id \notin CdnTunnelIds
                    /\ report.cdn # "" =>
                          /\ r.tun.primary_type \notin DirectTopologyIds
                          /\ \A s \in report.primaries : s.id \notin DirectTopologyIds
  BY DEF TopologyAgrees
<1>1. /\ Finished /\ GuessedOK(r) /\ MatchedOK(r) /\ TypedOK(r) /\ report = Summary(r)
      /\ r.arch.tier = CdnFrontingTier(r)
  BY DEF TopologyInv, Finished, Shown
<1>2. report.primaries = Primaries(Ranked(r)) /\ report.cdn = r.dep.cdn_type
  BY <1>1 DEF Summary
<1>3. Scored(r)
  BY <1>1 DEF Scored, GuessedOK, MatchedOK, Tunnels
<1>4. ASSUME r.arch.tier = "unconfirmed"
      PROVE  /\ r.tun.primary_type \notin CdnTunnelIds
             /\ \A s \in report.primaries : s.id \notin CdnTunnelIds
  <2>1. Unconfirmed(r)
    BY <1>1, <1>4 DEF Unconfirmed
  <2> QED BY <1>1, <1>2, <1>3, <2>1, UnconfirmedPrimaries DEF TypedOK, GuessedOK
<1>5. ASSUME report.cdn # ""
      PROVE  /\ r.tun.primary_type \notin DirectTopologyIds
             /\ \A s \in report.primaries : s.id \notin DirectTopologyIds
  <2>1. NamesCdn(r)
    BY <1>2, <1>5 DEF NamesCdn
  <2>2. OnEdge(r.conn)
    BY <1>1, <2>1 DEF CdnInv, CdnClaimIsObserved, NamesCdn, OnEdge
  <2>3. ~Unconfirmed(r)
    BY <2>2, TierOnEdge
  <2> QED BY <1>1, <1>2, <1>3, <2>1, <2>2, <2>3, EdgePrimaries DEF TypedOK, GuessedOK, MatchedOK
<1> QED BY <1>4, <1>5

\* TopologyInv holds at the start.
LEMMA TopologyInvInit == Init => TopologyInv
BY DEF Init, TopologyInv, Finished, Shown

\* So does CdnInv.
LEMMA CdnInvInit == Init => CdnInv
BY KnownFields DEF Init, CdnInv, CdnClaimIsObserved, Finished

\* The tunnel type, the best scenarios and the CDN that a report names never contradict each
\* other: without a CDN on the wire no CDN is the answer, and with one no direct topology.
THEOREM TopologyAgreesHolds == Spec => []TopologyAgrees
BY TopologyInvInit, CdnInvInit, RatedInvInit, SaysInvInit, TopologyInvKept, CdnInvKept, RatedInvKept, SaysInvKept,
   TopologyInvImplies, PTL DEF Spec

--------------------------------------------------------------------------------
(* Type correctness. *)

\* What an upload may hold of a config.
Held(c) == UNION {Secrets(c), Quoted(c), ImportedIds(c), {"link", "run"}}

\* The dump of a result holds nothing else.
LEMMA DumpIsHeld ==
  ASSUME NEW q, NEW e \in Dump(q)
  PROVE  e.says \subseteq Held(q.cfg) /\ e.ends = {}
<1> DEFINE c == q.cfg
           link(l) == IF l = NoLink THEN {} ELSE {"link"}
           uuid == {c.secret} \ {""}
           password == {c.password} \ {""}
           pbk == IF c.public_key THEN {"pbk"} ELSE {}
           sid == IF c.short_id THEN {"sid"} ELSE {}
           raw == link(c.raw)
           quoted == Quoted(c)
           ids == ImportedIds(c)
           steps == Secrets(c)
           suggested == link(q.optimization.suggested)
<1>1. Dump(q) = {Entry("uuid", uuid), Entry("password", password), Entry("public_key", pbk), Entry("short_id", sid),
                 Entry("raw_url", raw), Entry("extra", quoted), Entry("users.id", ids),
                 Entry("reproduction_guide", steps), Entry("setup_guide", steps),
                 Entry("suggested_share_link", suggested), Entry("run_id", {"run"})}
  BY DumpIs, Zenon
<1>2. uuid \subseteq steps /\ password \subseteq steps /\ pbk \subseteq steps /\ sid \subseteq steps
  BY SecretsAre
<1>3. raw \subseteq {"link"} /\ suggested \subseteq {"link"}
  OBVIOUS
<1>4. Held(c) = UNION {steps, quoted, ids, {"link", "run"}}
  BY DEF Held
<1> HIDE DEF uuid, password, pbk, sid, raw, quoted, ids, steps, suggested, c
<1>5. \A x \in {uuid, password, pbk, sid, raw, quoted, ids, steps, suggested, {"run"}} : x \subseteq Held(c)
  BY <1>2, <1>3, <1>4
<1>6. \E k : \E x \in {uuid, password, pbk, sid, raw, quoted, ids, steps, suggested, {"run"}} : e = Entry(k, x)
  BY <1>1
<1> QED BY <1>5, <1>6, EntrySays DEF c

\* Redaction adds nothing.
LEMMA RedactedIsHeld ==
  ASSUME NEW q, NEW e \in DeepRedact(Dump(q), Short, Brief)
  PROVE  e.says \cup e.ends \subseteq Held(q.cfg)
<1>1. PICK d \in Dump(q) : LeftOf(Dump(q), d, e)
  BY RedactLeaves
<1>2. d.says \subseteq Held(q.cfg)
  BY DumpIsHeld
<1>3. e.says \subseteq d.says /\ e.ends \subseteq d.says
  BY <1>1 DEF LeftOf
<1> QED BY <1>2, <1>3

\* The scores of the optimizer, with their grade.
Graded(q) ==
  /\ Percent(q.optimization.iran) /\ Percent(q.optimization.sell)
  /\ q.optimization.grade \in Grades

\* The scores of the stealth assessment.
Profiled(q) == Percents(q.dpi.score) /\ Percents(q.camouflage.score) /\ Percents(q.origin.score)

\* The configs are those the parsers make, each score is a percentage from the stage on that
\* writes it, and the upload holds nothing but what the config and the run are known by.
TypeInv ==
  /\ stage \in Stages
  /\ settings \in Settings
  /\ ConfigIsOK(r.cfg)
  /\ stage \in {"live_test", "assess", "report", "align"} \/ Finished => Percent(r.security.score)
  /\ stage \in {"report", "align"} \/ Finished => Profiled(r)
  /\ stage = "align" \/ Finished => Graded(r)
  /\ uploaded.whole \cup uploaded.ends \subseteq Held(r.cfg)

\* A new analysis has its config.
LEMMA KnownConfig == ASSUME NEW c PROVE NothingKnown(c).cfg = c
BY DEF NothingKnown

\* The assessment writes percentages and keeps the config.
LEMMA AssessProfiles ==
  ASSUME NEW p, DOMAIN p = Fields, ConfigIsOK(p.cfg), NEW order
  PROVE  LET q == [p EXCEPT !.setOrder = order]
             a == AssessStealth([q EXCEPT !.tun = AnalyzeTunnels(q)])
         IN  a.cfg = p.cfg /\ a.security = p.security /\ Profiled(a)
<1> DEFINE q == [p EXCEPT !.setOrder = order]
           s == [q EXCEPT !.tun = AnalyzeTunnels(q)]
           a == AssessStealth(s)
           dpi == DpiReport(s)
           camouflage == CamouflageReport(s)
           origin == OriginReport(s)
           cal == CalibrationOf(s, dpi, camouflage, origin)
<1>1. DOMAIN q = Fields /\ q.cfg = p.cfg /\ q.security = p.security
  BY DEF Fields
<1> HIDE DEF q
<1>2. DOMAIN s = Fields /\ s.cfg = p.cfg /\ s.security = p.security
  BY <1>1 DEF Fields
<1> HIDE DEF s
<1>3. a = [s EXCEPT !.dpi = dpi, !.camouflage = camouflage, !.origin = origin,
                    !.insights = cal.insights, !.dep.guesses = cal.guesses,
                    !.tun.detected = cal.tunnels, !.tun.primary_conf = cal.primary_cal]
  BY DEF AssessStealth
<1>4. Percents(dpi.score) /\ Percents(camouflage.score) /\ Percents(origin.score)
  BY <1>2, DpiIsPercent, CamouflageIsPercent, OriginIsPercent DEF ConfigIsOK
<1> HIDE DEF a, cal, dpi, camouflage, origin
<1>5. a.dpi = dpi /\ a.camouflage = camouflage /\ a.origin = origin
  BY <1>2, <1>3 DEF Fields
<1>6. a.cfg = s.cfg /\ a.security = s.security
  BY <1>2, <1>3 DEF Fields
<1>7. Profiled(a)
  BY <1>4, <1>5 DEF Profiled
<1> QED BY <1>2, <1>6, <1>7 DEF a, s, q

\* The alignment leaves the scores alone.
LEMMA AlignGrades ==
  ASSUME NEW p, DOMAIN p = Fields
  PROVE  LET a == AlignWithArchitecture(p)
         IN  /\ a.cfg = p.cfg /\ a.security = p.security /\ a.dpi = p.dpi /\ a.camouflage = p.camouflage
             /\ a.origin = p.origin /\ a.optimization = p.optimization
BY DEF AlignWithArchitecture, Fields

\* Each step keeps TypeInv.
LEMMA TypeInvKept == TypeInv /\ CdnInv /\ Redacted /\ [Next]_vars => TypeInv'
<1> SUFFICES ASSUME TypeInv, CdnInv, Redacted, [Next]_vars PROVE TypeInv'
  OBVIOUS
<1> USE DEF TypeInv, Finished, Goes, Stages
<1>0. DOMAIN r = Fields
  BY DEF CdnInv
<1>a. stage \notin {"done", "shown"} => uploaded.whole = {} /\ uploaded.ends = {}
  BY DEF Redacted, NothingUploaded
<1>1. CASE Parse
  <2>1. stage = "parse" /\ stage' = "validate" /\ settings' = settings /\ uploaded' = uploaded
    BY <1>1 DEF Parse
  <2>2. PICK text \in Texts : \E i \in DOMAIN ParseInput(text) : r' = NothingKnown(ParseInput(text)[i])
    BY <1>1 DEF Parse
  <2>3. PICK i \in DOMAIN ParseInput(text) : r' = NothingKnown(ParseInput(text)[i])
    BY <2>2
  <2>4. text.kind \in {"json", "array", "conf", "links"}
    BY TextsAssumption, Zenon
  <2>5. ConfigIsOK(r'.cfg)
    BY <2>3, <2>4, ParsedIsOK, KnownConfig
  <2> QED BY <1>a, <2>1, <2>5
<1>2. CASE Validate
  <2>1. stage' = "dns" /\ r'.cfg = r.cfg /\ settings' = settings /\ uploaded' = uploaded
    BY <1>0, <1>2 DEF Validate, Fields
  <2> QED BY <2>1
<1>3. CASE ResolveTargets
  <2>1. stage' = "probe" /\ r'.cfg = r.cfg /\ settings' = settings /\ uploaded' = uploaded
    BY <1>0, <1>3 DEF ResolveTargets, Fields
  <2> QED BY <2>1
<1>4. CASE ProbeTargets
  <2>1. stage' = "intel" /\ r'.cfg = r.cfg /\ settings' = settings /\ uploaded' = uploaded
    BY <1>0, <1>4 DEF ProbeTargets, Fields
  <2> QED BY <2>1
<1>5. CASE GatherIntel
  <2>1. stage' = "conclude" /\ r'.cfg = r.cfg /\ settings' = settings /\ uploaded' = uploaded
    BY <1>0, <1>5 DEF GatherIntel, Fields
  <2> QED BY <2>1
<1>6. CASE Conclude
  <2>1. /\ stage' = "live_test" /\ r'.cfg = r.cfg /\ settings' = settings /\ uploaded' = uploaded
        /\ r'.security = AnalyzeSecurity(r.cfg, r.tls, r.conn, r.net)
    BY <1>0, <1>6 DEF Conclude, Fields
  <2> QED BY <2>1, SecurityIsPercent
<1>7. CASE LiveTest
  <2>1. /\ stage = "live_test" /\ stage' = "assess" /\ r'.cfg = r.cfg /\ settings' = settings
        /\ uploaded' = uploaded /\ r'.security = r.security
    BY <1>0, <1>7 DEF LiveTest, Fields
  <2> QED BY <2>1
<1>8. CASE Assess
  <2>1. PICK order :
          r' = AssessStealth([[r EXCEPT !.setOrder = order] EXCEPT !.tun = AnalyzeTunnels([r EXCEPT !.setOrder = order])])
    BY <1>8 DEF Assess
  <2>2. stage = "assess" /\ stage' = "report" /\ settings' = settings /\ uploaded' = uploaded
    BY <1>8 DEF Assess
  <2>3. r'.cfg = r.cfg /\ r'.security = r.security /\ Profiled(r')
    BY <1>0, <2>1, AssessProfiles
  <2> QED BY <2>2, <2>3
<1>9. CASE BuildReports
  <2>1. /\ stage = "report" /\ stage' = "align" /\ r'.cfg = r.cfg /\ settings' = settings /\ uploaded' = uploaded
        /\ r'.security = r.security /\ r'.dpi = r.dpi /\ r'.camouflage = r.camouflage /\ r'.origin = r.origin
        /\ r'.optimization = ConfigOptimization(r, TopGuess(r).name)
    BY <1>0, <1>9 DEF BuildReports, Fields
  <2>2. Graded(r')
    <3>1. \A guess : LET o == ConfigOptimization(r, guess)
                     IN  Percent(o.iran) /\ Percent(o.sell) /\ o.grade \in Grades
      BY OptimizationScores, GradeIs, Zenon
    <3> QED BY <2>1, <3>1 DEF Graded
  <2>3. Profiled(r')
    BY <2>1 DEF Profiled
  <2> QED BY <2>1, <2>2, <2>3
<1>10. CASE Align
  <2>1. /\ stage = "align" /\ stage' = "plugins" /\ r' = AlignWithArchitecture(r)
        /\ settings' = settings /\ uploaded' = uploaded
    BY <1>10 DEF Align
  <2>2. /\ r'.cfg = r.cfg /\ r'.security = r.security /\ r'.dpi = r.dpi /\ r'.camouflage = r.camouflage
        /\ r'.origin = r.origin /\ r'.optimization = r.optimization
    BY <1>0, <2>1, AlignGrades
  <2>3. Graded(r') /\ Profiled(r')
    BY <2>1, <2>2 DEF Graded, Profiled
  <2> QED BY <2>1, <2>2, <2>3
<1>11. CASE ParseFails \/ ResolveRaises \/ HookReturnsNothing
  <2>1. stage' = "failed" /\ settings' = settings /\ uploaded' = uploaded /\ r' = r
    BY <1>11 DEF ParseFails, ResolveRaises, HookReturnsNothing
  <2> QED BY <2>1
<1>12. CASE SyncUpload
  <2>1. stage = "upload" /\ stage' = "done" /\ r' = r /\ settings' = settings
    BY <1>12 DEF SyncUpload
  <2>2. uploaded'.whole \cup uploaded'.ends \subseteq Held(r.cfg)
    <3> DEFINE dump == IF settings.redact THEN DeepRedact(Dump(r), Short, Brief) ELSE Dump(r)
    <3>1. uploaded' = IF settings.sync THEN Upload(dump) ELSE NothingUploaded
      BY <1>12 DEF SyncUpload
    <3>2. \A e \in dump : e.says \cup e.ends \subseteq Held(r.cfg)
      BY DumpIsHeld, RedactedIsHeld
    <3> HIDE DEF dump
    <3>3. CASE settings.sync
      BY <3>1, <3>2, <3>3 DEF Upload
    <3>4. CASE ~settings.sync
      BY <3>1, <3>4 DEF NothingUploaded
    <3> QED BY <3>3, <3>4
  <2> QED BY <2>1, <2>2
<1>13. CASE RunHooks \/ ShowSummary \/ Ended \/ UNCHANGED vars
  <2>1. /\ (Finished /\ stage' \in {"upload", "shown"}) \/ stage' = stage
        /\ r' = r /\ settings' = settings /\ uploaded' = uploaded
    BY <1>13 DEF RunHooks, ShowSummary, Ended, vars
  <2> QED BY <2>1
<1> QED
  BY <1>1, <1>2, <1>3, <1>4, <1>5, <1>6, <1>7, <1>8, <1>9, <1>10, <1>11, <1>12, <1>13 DEF Next

\* TypeInv holds at the start.
LEMMA TypeInvInit == Init => TypeInv
<1> SUFFICES ASSUME Init PROVE TypeInv
  OBVIOUS
<1>1. stage = "parse" /\ settings \in Settings /\ r = NothingKnown(NoConfig)
      /\ uploaded.whole = {} /\ uploaded.ends = {}
  BY DEF Init, NothingUploaded
<1>2. ConfigIsOK(r.cfg)
  BY <1>1, KnownConfig, EmptyIsKnown DEF ConfigIsOK
<1> QED BY <1>1, <1>2 DEF TypeInv, Stages, Finished

\* With the bounds on guesses and matches it gives the type of a finished analysis and a report.
LEMMA TypeInvImplies == TypeInv /\ TopologyInv /\ RatedInv => TypeOK
<1> SUFFICES ASSUME TypeInv, TopologyInv, RatedInv PROVE TypeOK
  OBVIOUS
<1>1. stage \in Stages /\ settings \in Settings /\ uploaded.whole \cup uploaded.ends \subseteq Held(r.cfg)
  BY DEF TypeInv
<1>2. ASSUME Finished
      PROVE  /\ UNION {r.dpi.score, r.camouflage.score, r.origin.score} \subseteq 0..100
             /\ {r.optimization.iran, r.optimization.sell, r.security.score} \subseteq 0..100
             /\ r.optimization.grade \in Grades
             /\ \A i \in r.insights : i.level \in ToSet(Levels)
             /\ \A m \in r.tun.detected : m.conf \in 0..100 /\ m.cal \in 0..ConfidenceCap
  <2>1. \A n : Percent(n) => n \in 0..100
    BY DEF Percent
  <2>2. UNION {r.dpi.score, r.camouflage.score, r.origin.score} \subseteq 0..100
    BY <1>2, <2>1 DEF TypeInv, Profiled, Percents
  <2>3. /\ {r.optimization.iran, r.optimization.sell, r.security.score} \subseteq 0..100
        /\ r.optimization.grade \in Grades
    BY <1>2, <2>1 DEF TypeInv, Graded
  <2>4. Rated(r)
    BY <1>2 DEF RatedInv
  <2>5. \A i \in r.insights : i.level \in ToSet(Levels)
    BY <2>4, LevelsAre DEF Rated, InsightsAllowed, LevelAllowed
  <2>6. \A m \in r.tun.detected : m.conf \in 0..100 /\ m.cal \in 0..ConfidenceCap
    BY <2>4 DEF Rated, TunnelsRated, RatedOK, CalOK
  <2> QED BY <2>2, <2>3, <2>5, <2>6
<1>3. ASSUME Shown PROVE \A s \in report.ranked : s.conf \in 0..100
  <2>1. GuessedOK(r) /\ MatchedOK(r) /\ report = Summary(r)
    BY <1>3 DEF TopologyInv, Finished, Shown
  <2>2. Scored(r)
    BY <2>1 DEF Scored, GuessedOK, MatchedOK, Tunnels
  <2>3. report.ranked = Ranked(r)
    BY <2>1 DEF Summary
  <2> QED BY <2>2, <2>3, RankedArePercents
<1> QED BY <1>1, <1>2, <1>3 DEF TypeOK, Held

\* Every score of a finished analysis is a percentage, its grades and levels come from their
\* lists, and so do the confidences that the Result tab ranks.
THEOREM TypeCorrect == Spec => []TypeOK
<1>1. Init => Redacted
  BY DEF Init, Redacted
<1> QED
  BY <1>1, TypeInvInit, TopologyInvInit, CdnInvInit, RatedInvInit, SaysInvInit, RedactedKept, TypeInvKept,
     TopologyInvKept, CdnInvKept, RatedInvKept, SaysInvKept, TypeInvImplies, PTL DEF Spec

--------------------------------------------------------------------------------
(* Configs read back. *)

\* Looking a key up in two functions at once.
LEMMA GetWith ==
  ASSUME NEW f, NEW g, NEW k, NEW d
  PROVE  Get(With(f, g), k, d) = Get(f, k, Get(g, k, d))
BY DEF Get, With

\* The keys of two functions at once.
LEMMA InWith ==
  ASSUME NEW f, NEW g, NEW k
  PROVE  k \in DOMAIN With(f, g) <=> k \in DOMAIN f \/ k \in DOMAIN g
BY DEF With

\* The empty function has no keys.
LEMMA NoKeys == DOMAIN << >> = {}
OBVIOUS

\* The flags of a config are Booleans, and REALITY counts as TLS.
FlagsOK(c) ==
  c.tls \in BOOLEAN /\ c.reality \in BOOLEAN /\ c.public_key \in BOOLEAN /\ c.short_id \in BOOLEAN
  /\ c.allow_insecure \in BOOLEAN /\ (c.reality => c.tls)

\* What the security parameters of a link answer, d being what is answered without them.
SecurityGives(p, c, d) ==
  /\ Get(p, "security", d) = IF c.reality THEN "reality" ELSE IF c.tls THEN "tls" ELSE "none"
  /\ Get(p, "sni", d) = IF c.tls /\ c.sni # "" THEN c.sni ELSE d
  /\ Get(p, "fp", d) = IF c.tls /\ c.fingerprint # "" THEN c.fingerprint ELSE d
  /\ Get(p, "flow", d) = IF c.reality /\ c.flow # "" THEN c.flow ELSE d
  /\ Get(p, "alpn", d) = IF c.tls /\ ~c.reality /\ c.alpn # {} THEN c.alpn ELSE d
  /\ Get(p, "allowInsecure", d) = IF c.tls /\ ~c.reality /\ c.allow_insecure THEN "1" ELSE d
  /\ "pbk" \in DOMAIN p <=> c.reality /\ c.public_key
  /\ "sid" \in DOMAIN p <=> c.reality /\ c.short_id
  /\ \A k \in {"fingerprint", "host", "path", "serviceName", "type"} : Get(p, k, d) = d

\* Built from the config, they say its security and override nothing else.
LEMMA SecuritySays ==
  ASSUME NEW c, FlagsOK(c), NEW d
  PROVE  SecurityGives(SecurityParams(c), c, d)
<1> DEFINE p == SecurityParams(c)
<1> USE NoKeys DEF FlagsOK
<1>1. Get(p, "security", d) = IF c.reality THEN "reality" ELSE IF c.tls THEN "tls" ELSE "none"
  BY DEF SecurityParams, With, Param, Get
<1>2. Get(p, "sni", d) = IF c.tls /\ c.sni # "" THEN c.sni ELSE d
  BY DEF SecurityParams, With, Param, Get
<1>3. Get(p, "fp", d) = IF c.tls /\ c.fingerprint # "" THEN c.fingerprint ELSE d
  BY DEF SecurityParams, With, Param, Get
<1>4. Get(p, "flow", d) = IF c.reality /\ c.flow # "" THEN c.flow ELSE d
  BY DEF SecurityParams, With, Param, Get
<1>5. Get(p, "alpn", d) = IF c.tls /\ ~c.reality /\ c.alpn # {} THEN c.alpn ELSE d
  BY DEF SecurityParams, With, Param, Get
<1>6. Get(p, "allowInsecure", d) = IF c.tls /\ ~c.reality /\ c.allow_insecure THEN "1" ELSE d
  BY DEF SecurityParams, With, Param, Get
<1>7. "pbk" \in DOMAIN p <=> c.reality /\ c.public_key
  BY DEF SecurityParams, With, Param, Get
<1>8. "sid" \in DOMAIN p <=> c.reality /\ c.short_id
  BY DEF SecurityParams, With, Param, Get
<1>9. \A k \in {"fingerprint", "host", "path", "serviceName", "type"} : Get(p, k, d) = d
  <2>1. DOMAIN p \subseteq {"security", "sni", "fp", "flow", "alpn", "allowInsecure", "pbk", "sid"}
    BY DEF SecurityParams, With, Param
  <2> HIDE DEF p
  <2> QED BY <2>1 DEF Get
<1> QED BY <1>1, <1>2, <1>3, <1>4, <1>5, <1>6, <1>7, <1>8, <1>9 DEF SecurityGives

\* The query of a built link says what the config says, and besides what the old query said.
LEMMA LinkSays ==
  ASSUME NEW c, FlagsOK(c), BuildVlessLink(c) # NoLink, NEW d
  PROVE  LET l == BuildVlessLink(c)
             p == l.params
             x(k) == Get(c.extra, k, d)
         IN  /\ Get(p, "type", d) = TransportParam(c)
             /\ Get(p, "security", d) = IF c.reality THEN "reality" ELSE IF c.tls THEN "tls" ELSE "none"
             /\ Get(p, "sni", d) = IF c.tls /\ c.sni # "" THEN c.sni ELSE x("sni")
             /\ Get(p, "fp", d) = IF c.tls /\ c.fingerprint # "" THEN c.fingerprint ELSE x("fp")
             /\ Get(p, "fingerprint", d) = x("fingerprint")
             /\ Get(p, "flow", d) = IF c.reality /\ c.flow # "" THEN c.flow ELSE x("flow")
             /\ Get(p, "alpn", d) = IF c.tls /\ ~c.reality /\ c.alpn # {} THEN c.alpn ELSE x("alpn")
             /\ Get(p, "allowInsecure", d) = IF c.tls /\ ~c.reality /\ c.allow_insecure THEN "1"
                                              ELSE x("allowInsecure")
             /\ "pbk" \in DOMAIN p <=> (c.reality /\ c.public_key) \/ "pbk" \in DOMAIN c.extra
             /\ "sid" \in DOMAIN p <=> (c.reality /\ c.short_id) \/ "sid" \in DOMAIN c.extra
             /\ Get(p, "path", d) = IF c.path # "" THEN c.path ELSE x("path")
             /\ Get(p, "host", d) = IF c.host # "" /\ c.transport \in {"WebSocket", "HTTPUpgrade", "XHTTP"}
                                     THEN c.host ELSE x("host")
             /\ Get(p, "serviceName", d) = IF c.service # "" /\ c.transport = "gRPC" THEN c.service
                                            ELSE x("serviceName")
<1> DEFINE l == BuildVlessLink(c)
           p == l.params
           x(k) == Get(c.extra, k, d)
           t == TransportParam(c)
           s == SecurityParams(c)
           host == Param(c.host # "" /\ c.transport \in {"WebSocket", "HTTPUpgrade", "XHTTP"}, "host", c.host)
           service == Param(c.service # "" /\ c.transport = "gRPC", "serviceName", c.service)
           path == Param(c.path # "", "path", c.path)
           params == With([type |-> t], With(s, With(host, With(path, service))))
           kept == DOMAIN c.extra \ {"type", "security"}
           rest == [k \in kept |-> c.extra[k]]
<1>1. /\ l.scheme = "vless" /\ l.user = Quote(c.secret) /\ l.host = c.address /\ l.port = c.port
      /\ l.repeated = {} /\ l.fragment = c.remark /\ p = With(params, rest)
  BY DEF BuildVlessLink
<1> DEFINE e(k) == Get(s, k, Get(host, k, Get(path, k, Get(service, k, Get(rest, k, d)))))
<1>2. \A k : k # "type" => Get(p, k, d) = e(k)
  <2>1. \A k : k # "type" => Get([type |-> t], k, Get(With(s, With(host, With(path, service))), k, Get(rest, k, d)))
                            = Get(With(s, With(host, With(path, service))), k, Get(rest, k, d))
    BY DEF Get
  <2> HIDE DEF t, s, host, path, service, rest, p
  <2> QED BY <1>1, <2>1, GetWith
<1>3. Get(p, "type", d) = t
  <2> HIDE DEF t, s, host, path, service, rest, p
  <2> QED BY <1>1 DEF Get, With
<1>4. \A k : k \in DOMAIN p <=> k = "type" \/ k \in DOMAIN s \/ k \in DOMAIN host \/ k \in DOMAIN path
                                \/ k \in DOMAIN service \/ k \in kept
  <2>1. \A k : k \in DOMAIN [type |-> t] <=> k = "type"
    OBVIOUS
  <2>2. DOMAIN rest = kept
    OBVIOUS
  <2> HIDE DEF t, s, host, path, service, rest, p
  <2> QED BY <1>1, <2>1, <2>2, InWith
<1>5. \A k : k \notin {"type", "security"} => Get(rest, k, d) = x(k)
  BY DEF Get
<1>6. /\ \A k, v : k # "host" => Get(host, k, v) = v
      /\ \A k : k # "host" => k \notin DOMAIN host
  BY NoKeys DEF Param, Get
<1>7. /\ \A k, v : k # "path" => Get(path, k, v) = v
      /\ \A k : k # "path" => k \notin DOMAIN path
  BY NoKeys DEF Param, Get
<1>8. /\ \A k, v : k # "serviceName" => Get(service, k, v) = v
      /\ \A k : k # "serviceName" => k \notin DOMAIN service
  BY NoKeys DEF Param, Get
<1>9. \A v : Get(host, "host", v) = IF c.host # "" /\ c.transport \in {"WebSocket", "HTTPUpgrade", "XHTTP"}
                                     THEN c.host ELSE v
  BY NoKeys DEF Param, Get
<1>10. \A v : Get(path, "path", v) = IF c.path # "" THEN c.path ELSE v
  BY NoKeys DEF Param, Get
<1>11. \A v : Get(service, "serviceName", v) = IF c.service # "" /\ c.transport = "gRPC" THEN c.service ELSE v
  BY NoKeys DEF Param, Get
<1>19. \A v : SecurityGives(s, c, v)
  BY SecuritySays
<1> HIDE DEF host, path, service, rest, p, t, l, x, s
<1>12. \A k : k \notin {"type", "security", "host", "path", "serviceName"} => Get(p, k, d) = Get(s, k, x(k))
  BY <1>2, <1>5, <1>6, <1>7, <1>8
<1>13. Get(p, "security", d) = IF c.reality THEN "reality" ELSE IF c.tls THEN "tls" ELSE "none"
  <2>1. Get(p, "security", d) = e("security")
    BY <1>2
  <2>2. SecurityGives(s, c, Get(host, "security", Get(path, "security", Get(service, "security",
                          Get(rest, "security", d)))))
    BY <1>19
  <2> QED BY <2>1, <2>2 DEF SecurityGives
<1>14. Get(p, "sni", d) = IF c.tls /\ c.sni # "" THEN c.sni ELSE x("sni")
  <2>1. Get(p, "sni", d) = Get(s, "sni", x("sni"))
    BY <1>12
  <2>2. SecurityGives(s, c, x("sni"))
    BY <1>19
  <2> QED BY <2>1, <2>2 DEF SecurityGives
<1>15. Get(p, "fp", d) = IF c.tls /\ c.fingerprint # "" THEN c.fingerprint ELSE x("fp")
  <2>1. Get(p, "fp", d) = Get(s, "fp", x("fp"))
    BY <1>12
  <2>2. SecurityGives(s, c, x("fp"))
    BY <1>19
  <2> QED BY <2>1, <2>2 DEF SecurityGives
<1>16. Get(p, "fingerprint", d) = x("fingerprint")
  <2>1. Get(p, "fingerprint", d) = Get(s, "fingerprint", x("fingerprint"))
    BY <1>12
  <2>2. SecurityGives(s, c, x("fingerprint"))
    BY <1>19
  <2> QED BY <2>1, <2>2 DEF SecurityGives
<1>17. Get(p, "flow", d) = IF c.reality /\ c.flow # "" THEN c.flow ELSE x("flow")
  <2>1. Get(p, "flow", d) = Get(s, "flow", x("flow"))
    BY <1>12
  <2>2. SecurityGives(s, c, x("flow"))
    BY <1>19
  <2> QED BY <2>1, <2>2 DEF SecurityGives
<1>20. Get(p, "alpn", d) = IF c.tls /\ ~c.reality /\ c.alpn # {} THEN c.alpn ELSE x("alpn")
  <2>1. Get(p, "alpn", d) = Get(s, "alpn", x("alpn"))
    BY <1>12
  <2>2. SecurityGives(s, c, x("alpn"))
    BY <1>19
  <2> QED BY <2>1, <2>2 DEF SecurityGives
<1>21. Get(p, "allowInsecure", d) = IF c.tls /\ ~c.reality /\ c.allow_insecure THEN "1" ELSE x("allowInsecure")
  <2>1. Get(p, "allowInsecure", d) = Get(s, "allowInsecure", x("allowInsecure"))
    BY <1>12
  <2>2. SecurityGives(s, c, x("allowInsecure"))
    BY <1>19
  <2> QED BY <2>1, <2>2 DEF SecurityGives
<1>22. "pbk" \in DOMAIN p <=> (c.reality /\ c.public_key) \/ "pbk" \in DOMAIN c.extra
  <2>1. SecurityGives(s, c, d)
    BY <1>19
  <2>2. "pbk" \in DOMAIN p <=> "pbk" \in DOMAIN s \/ "pbk" \in DOMAIN c.extra
    BY <1>4, <1>6, <1>7, <1>8
  <2> QED BY <2>1, <2>2 DEF SecurityGives
<1>23. "sid" \in DOMAIN p <=> (c.reality /\ c.short_id) \/ "sid" \in DOMAIN c.extra
  <2>1. SecurityGives(s, c, d)
    BY <1>19
  <2>2. "sid" \in DOMAIN p <=> "sid" \in DOMAIN s \/ "sid" \in DOMAIN c.extra
    BY <1>4, <1>6, <1>7, <1>8
  <2> QED BY <2>1, <2>2 DEF SecurityGives
<1>24. \A k \in {"host", "path", "serviceName"} : \A v : Get(s, k, v) = v
  BY <1>19 DEF SecurityGives
<1>25. /\ Get(p, "path", d) = IF c.path # "" THEN c.path ELSE x("path")
       /\ Get(p, "serviceName", d) = IF c.service # "" /\ c.transport = "gRPC" THEN c.service ELSE x("serviceName")
  <2>1. Get(p, "path", d) = Get(path, "path", x("path"))
    BY <1>2, <1>5, <1>6, <1>8, <1>24
  <2>2. Get(p, "serviceName", d) = Get(service, "serviceName", x("serviceName"))
    BY <1>2, <1>5, <1>6, <1>7, <1>24
  <2> QED BY <2>1, <2>2, <1>10, <1>11
<1>26. Get(p, "host", d) = IF c.host # "" /\ c.transport \in {"WebSocket", "HTTPUpgrade", "XHTTP"}
                           THEN c.host ELSE x("host")
  <2>1. Get(p, "host", d) = Get(host, "host", x("host"))
    BY <1>2, <1>5, <1>7, <1>8, <1>24
  <2> QED BY <2>1, <1>9
<1> QED BY <1>1, <1>3, <1>13, <1>14, <1>15, <1>16, <1>17, <1>20, <1>21, <1>22, <1>23, <1>25, <1>26 DEF p, l, x, t

\* The query that a VLESS config came with says nothing the config does not say.
Kept(c) ==
  /\ c.flow = Get(c.extra, "flow", "") /\ c.alpn = Get(c.extra, "alpn", {})
  /\ c.fingerprint = Get(c.extra, "fp", Get(c.extra, "fingerprint", ""))
  /\ c.allow_insecure = (Get(c.extra, "allowInsecure", "0") = "1")
  /\ Get(c.extra, "path", c.path) = c.path
  /\ Get(c.extra, "host", c.host) = c.host
  /\ Get(c.extra, "serviceName", c.service) = c.service
  /\ "pbk" \in DOMAIN c.extra => c.public_key
  /\ "sid" \in DOMAIN c.extra => c.short_id

\* What the parser of VLESS links reads.
LEMMA VlessFields ==
  ASSUME NEW l
  PROVE  LET c == ParseVless(l)
             p == l.params
             s == Get(p, "security", "")
         IN  /\ c.protocol = "VLESS" /\ c.extra = p
             /\ c.address = Hostname(l.host) /\ c.secret = l.user /\ c.remark = l.fragment
             /\ c.port = (IF l.port = 0 THEN 443 ELSE l.port)
             /\ c.flow = Get(p, "flow", "") /\ c.alpn = Get(p, "alpn", {})
             /\ c.tls = (s \in {"tls", "reality", "xtls"}) /\ c.reality = (s = "reality")
             /\ c.fingerprint = Get(p, "fp", Get(p, "fingerprint", ""))
             /\ c.public_key = ("pbk" \in DOMAIN p) /\ c.short_id = ("sid" \in DOMAIN p)
             /\ c.sni = AnyOf(<<Get(p, "sni", ""), Get(p, "host", "")>>)
             /\ c.host = Get(p, "host", "") /\ c.path = Get(p, "path", "") /\ c.service = Get(p, "serviceName", "")
             /\ c.transport = DetectTransport(p, "VLESS")
             /\ c.allow_insecure = (Get(p, "allowInsecure", "0") = "1")
<1> DEFINE d == FromUrl(l, "VLESS")
           c == ParseVless(l)
           p == l.params
<1>1. /\ DOMAIN d = DOMAIN NoConfig
      /\ d.protocol = "VLESS" /\ d.extra = p /\ d.address = Hostname(l.host) /\ d.remark = l.fragment
      /\ d.port = (IF l.port = 0 THEN 443 ELSE l.port) /\ d.alpn = Get(p, "alpn", {})
      /\ d.sni = Get(p, "sni", "") /\ d.transport = DetectTransport(p, "VLESS")
  BY DEF FromUrl, NoConfig
<1> HIDE DEF d
<1>2. /\ c.protocol = d.protocol /\ c.extra = d.extra /\ c.address = d.address /\ c.remark = d.remark
      /\ c.port = d.port /\ c.alpn = d.alpn /\ c.transport = d.transport
  BY <1>1 DEF ParseVless, NoConfig, d
<1>3. /\ c.secret = l.user /\ c.flow = Get(p, "flow", "")
      /\ c.sni = AnyOf(<<d.sni, Get(p, "host", "")>>)
      /\ c.host = Get(p, "host", "") /\ c.path = Get(p, "path", "") /\ c.service = Get(p, "serviceName", "")
  BY <1>1 DEF ParseVless, NoConfig, d
<1>4. /\ c.tls = ParseSecurity(p).tls /\ c.reality = ParseSecurity(p).reality
      /\ c.fingerprint = ParseSecurity(p).fp
  BY <1>1 DEF ParseVless, NoConfig, d
<1>5. /\ c.public_key = ("pbk" \in DOMAIN p) /\ c.short_id = ("sid" \in DOMAIN p)
      /\ c.allow_insecure = (Get(p, "allowInsecure", "0") = "1")
  BY <1>1 DEF ParseVless, NoConfig, d
<1> HIDE DEF c
<1>6. /\ c.tls = (Get(p, "security", "") \in {"tls", "reality", "xtls"})
      /\ c.reality = (Get(p, "security", "") = "reality")
      /\ c.fingerprint = Get(p, "fp", Get(p, "fingerprint", ""))
  BY <1>4 DEF ParseSecurity
<1> QED BY <1>1, <1>2, <1>3, <1>5, <1>6 DEF c

\* A second look finds the same.
LEMMA GetTwice == ASSUME NEW f, NEW k, NEW d PROVE Get(f, k, Get(f, k, d)) = Get(f, k, d)
BY DEF Get

\* A parsed VLESS link is such a config.
LEMMA VlessKept == ASSUME NEW l PROVE FlagsOK(ParseVless(l)) /\ Kept(ParseVless(l))
<1> DEFINE c == ParseVless(l)
           p == l.params
           s == Get(p, "security", "")
<1>1. /\ c.extra = p
      /\ c.flow = Get(p, "flow", "") /\ c.alpn = Get(p, "alpn", {})
      /\ c.fingerprint = Get(p, "fp", Get(p, "fingerprint", ""))
      /\ c.host = Get(p, "host", "") /\ c.path = Get(p, "path", "") /\ c.service = Get(p, "serviceName", "")
  BY VlessFields
<1>2. /\ c.tls = (s \in {"tls", "reality", "xtls"}) /\ c.reality = (s = "reality")
      /\ c.public_key = ("pbk" \in DOMAIN p) /\ c.short_id = ("sid" \in DOMAIN p)
      /\ c.allow_insecure = (Get(p, "allowInsecure", "0") = "1")
  BY VlessFields
<1> HIDE DEF c, p, s
<1>3. FlagsOK(c)
  <2>1. /\ (s \in {"tls", "reality", "xtls"}) \in BOOLEAN /\ (s = "reality") \in BOOLEAN
        /\ ("pbk" \in DOMAIN p) \in BOOLEAN /\ ("sid" \in DOMAIN p) \in BOOLEAN
        /\ (Get(p, "allowInsecure", "0") = "1") \in BOOLEAN
    OBVIOUS
  <2>2. (s = "reality") => (s \in {"tls", "reality", "xtls"})
    OBVIOUS
  <2> QED BY <1>2, <2>1, <2>2, Zenon DEF FlagsOK
<1>4. /\ Get(c.extra, "path", c.path) = c.path /\ Get(c.extra, "host", c.host) = c.host
      /\ Get(c.extra, "serviceName", c.service) = c.service
  <2>1. Get(p, "path", Get(p, "path", "")) = Get(p, "path", "")
    BY GetTwice
  <2>2. Get(p, "host", Get(p, "host", "")) = Get(p, "host", "")
    BY GetTwice
  <2>3. Get(p, "serviceName", Get(p, "serviceName", "")) = Get(p, "serviceName", "")
    BY GetTwice
  <2> QED BY <1>1, <2>1, <2>2, <2>3
<1>5. Kept(c)
  BY <1>1, <1>2, <1>4 DEF Kept
<1> QED BY <1>3, <1>5 DEF c, p

\* The first of two strings that is not empty.
LEMMA FirstOfPair ==
  ASSUME NEW a, NEW b
  PROVE  AnyOf(<<a, b>>) = IF a # "" THEN a ELSE b
<1> DEFINE values == <<a, b>>
           rows == [i \in DOMAIN values |-> <<values[i] # "", values[i]>>]
<1>1. AnyOf(values) = FirstOf(rows, "")
  BY DEF AnyOf
<1>2. DOMAIN values = 1..2 /\ values[1] = a /\ values[2] = b
  OBVIOUS
<1> HIDE DEF values
<1>3. DOMAIN rows = 1..2
  BY <1>2
<1>4. /\ (rows[1][1] <=> a # "") /\ rows[1][2] = a
      /\ (rows[2][1] <=> b # "") /\ rows[2][2] = b
  <2>1. rows[1] = <<a # "", a>> /\ rows[2] = <<b # "", b>>
    <3>1. 1 \in DOMAIN values /\ 2 \in DOMAIN values
      BY <1>2
    <3> QED BY <1>2, <3>1, Zenon
  <2> DEFINE said(v) == v # ""
  <2>2. rows[1] = <<said(a), a>> /\ rows[2] = <<said(b), b>>
    BY <2>1, Zenon
  <2> HIDE DEF rows, said
  <2>3. rows[1][1] = said(a) /\ rows[1][2] = a /\ rows[2][1] = said(b) /\ rows[2][2] = b
    BY <2>2
  <2>4. (said(a) <=> a # "") /\ (said(b) <=> b # "")
    BY Zenon DEF said
  <2> QED BY <2>3, <2>4, Zenon
<1> HIDE DEF rows
<1>5. DOMAIN rows \subseteq Nat
  BY <1>3
<1>6. \/ FirstOf(rows, "") = "" /\ \A i \in DOMAIN rows : ~rows[i][1]
      \/ \E i \in DOMAIN rows : /\ rows[i][1]
                                /\ FirstOf(rows, "") = rows[i][2]
                                /\ \A j \in DOMAIN rows : j < i => ~rows[j][1]
  BY <1>5, FirstRowDecides
<1>7. ASSUME FirstOf(rows, "") = "", \A i \in DOMAIN rows : ~rows[i][1]
      PROVE  AnyOf(values) = IF a # "" THEN a ELSE b
  <2>1. ~rows[1][1] /\ ~rows[2][1]
    <3>1. 1 \in DOMAIN rows /\ 2 \in DOMAIN rows
      BY <1>3
    <3> QED BY <1>7, <3>1, Zenon
  <2>2. a = "" /\ b = ""
    BY <2>1, <1>2, <1>4
  <2> QED BY <1>1, <1>7, <2>2
<1>8. ASSUME NEW i \in DOMAIN rows, rows[i][1], FirstOf(rows, "") = rows[i][2],
             \A j \in DOMAIN rows : j < i => ~rows[j][1]
      PROVE  AnyOf(values) = IF a # "" THEN a ELSE b
  <2>1. i = 1 \/ i = 2
    BY <1>3
  <2>2. CASE i = 1
    <3>1. a # "" /\ rows[i][2] = a
      BY <1>2, <1>4, <1>8, <2>2
    <3> QED BY <1>1, <1>8, <3>1
  <2>3. CASE i = 2
    <3>1. ~rows[1][1]
      <4>1. 1 \in DOMAIN rows /\ 1 < i
        BY <1>3, <2>3
      <4> QED BY <1>8, <4>1, Zenon
    <3>2. a = "" /\ rows[i][2] = b
      BY <1>2, <1>4, <2>3, <3>1
    <3> QED BY <1>1, <1>8, <3>2
  <2> QED BY <2>1, <2>2, <2>3
<1>9. AnyOf(values) = IF a # "" THEN a ELSE b
  BY <1>6, <1>7, <1>8
<1> QED BY <1>9 DEF values

\* The name of a transport is read as that transport.
LEMMA NetworksReadBack ==
  ASSUME NEW t \in DOMAIN LinkNetworks
  PROVE  Get(Networks, LinkNetworks[t], "Unknown") = t
BY DEF LinkNetworks, Networks, Get

\* What is kept of one config by a link that can be read.
LinkReadsAs(c, back) ==
  /\ back.secret = Quote(c.secret) /\ back.address = Hostname(c.address)
  /\ \A f \in {"flow", "tls", "reality", "alpn", "path", "fingerprint", "allow_insecure", "remark"} : back[f] = c[f]
  /\ back.port = (IF c.port = 0 THEN 443 ELSE c.port)
  /\ c.reality => back.public_key = c.public_key /\ back.short_id = c.short_id
  /\ c.tls /\ c.sni # "" => back.sni = c.sni
  /\ c.transport \in DOMAIN LinkNetworks => back.transport = c.transport
  /\ c.transport \in {"WebSocket", "HTTPUpgrade", "XHTTP"} => back.host = c.host
  /\ c.transport = "gRPC" => back.service = c.service

\* What a built link says outside its query.
LEMMA LinkFrame ==
  ASSUME NEW c, BuildVlessLink(c) # NoLink
  PROVE  LET l == BuildVlessLink(c)
         IN  /\ l.scheme = "vless" /\ l.user = Quote(c.secret) /\ l.host = c.address /\ l.port = c.port
             /\ l.repeated = {} /\ l.fragment = c.remark
BY DEF BuildVlessLink

\* A built link can be read unless the address or the port spoils it.
LEMMA BuiltLinkRaises ==
  ASSUME NEW c, FlagsOK(c), BuildVlessLink(c) # NoLink
  PROVE  LinkRaises(BuildVlessLink(c)) <=> c.address \in Ipv6 \/ c.port < 0
<1> DEFINE l == BuildVlessLink(c)
<1>1. l.scheme = "vless" /\ l.host = c.address /\ l.port = c.port /\ l.repeated = {}
  BY LinkFrame
<1> HIDE DEF l
<1>2. l.repeated \cap TextKeys(l) = {}
  BY <1>1
<1>3. LinkRaises(l) <=> c.address \in Ipv6 \/ c.port < 0
  BY <1>1, <1>2 DEF LinkRaises, UrlSchemes
<1> QED BY <1>3 DEF l

\* A config is read back from the link built from it.
LEMMA LinkReads ==
  ASSUME NEW c, FlagsOK(c), Kept(c), BuildVlessLink(c) # NoLink
  PROVE  LinkReadsAs(c, ParseVless(BuildVlessLink(c)))
<1> DEFINE l == BuildVlessLink(c)
           p == l.params
           x == c.extra
           back == ParseVless(l)
<1>1. l.user = Quote(c.secret) /\ l.host = c.address /\ l.port = c.port /\ l.fragment = c.remark
  BY LinkFrame
<1>2. /\ back.address = Hostname(l.host) /\ back.secret = l.user /\ back.remark = l.fragment
      /\ back.port = (IF l.port = 0 THEN 443 ELSE l.port)
  BY VlessFields
<1>3. back.flow = c.flow
  <2>1. back.flow = Get(p, "flow", "")
    BY VlessFields
  <2>2. Get(p, "flow", "") = IF c.reality /\ c.flow # "" THEN c.flow ELSE Get(x, "flow", "")
    BY LinkSays
  <2> QED BY <2>1, <2>2 DEF Kept
<1>4. back.alpn = c.alpn
  <2>1. back.alpn = Get(p, "alpn", {})
    BY VlessFields
  <2>2. Get(p, "alpn", {}) = IF c.tls /\ ~c.reality /\ c.alpn # {} THEN c.alpn ELSE Get(x, "alpn", {})
    BY LinkSays
  <2> QED BY <2>1, <2>2 DEF Kept
<1>5. back.tls = c.tls /\ back.reality = c.reality
  <2>1. /\ back.tls = (Get(p, "security", "") \in {"tls", "reality", "xtls"})
        /\ back.reality = (Get(p, "security", "") = "reality")
    BY VlessFields
  <2>2. Get(p, "security", "") = IF c.reality THEN "reality" ELSE IF c.tls THEN "tls" ELSE "none"
    BY LinkSays
  <2> HIDE DEF back, p, x
  <2>3. CASE c.reality
    <3>1. c.reality = TRUE /\ c.tls = TRUE
      BY <2>3 DEF FlagsOK
    <3>2. Get(p, "security", "") = "reality"
      BY <2>2, <2>3
    <3> QED BY <2>1, <3>1, <3>2
  <2>4. CASE c.tls /\ ~c.reality
    <3>1. c.reality = FALSE /\ c.tls = TRUE
      BY <2>4 DEF FlagsOK
    <3>2. Get(p, "security", "") = "tls"
      BY <2>2, <2>4
    <3> QED BY <2>1, <3>1, <3>2
  <2>5. CASE ~c.tls /\ ~c.reality
    <3>1. c.reality = FALSE /\ c.tls = FALSE
      BY <2>5 DEF FlagsOK
    <3>2. Get(p, "security", "") = "none"
      BY <2>2, <2>5
    <3>3. ("none" \in {"tls", "reality", "xtls"}) = FALSE /\ ("none" = "reality") = FALSE
      OBVIOUS
    <3> QED BY <2>1, <3>1, <3>2, <3>3, Zenon
  <2> QED BY <2>3, <2>4, <2>5
<1>6. back.fingerprint = c.fingerprint
  <2> DEFINE e == Get(p, "fingerprint", "")
  <2>1. back.fingerprint = Get(p, "fp", e)
    BY VlessFields
  <2>2. e = Get(x, "fingerprint", "")
    BY LinkSays
  <2> HIDE DEF e
  <2>3. Get(p, "fp", e) = IF c.tls /\ c.fingerprint # "" THEN c.fingerprint ELSE Get(x, "fp", e)
    BY LinkSays
  <2> QED BY <2>1, <2>2, <2>3 DEF Kept
<1>7. back.allow_insecure = c.allow_insecure
  <2>1. back.allow_insecure = (Get(p, "allowInsecure", "0") = "1")
    BY VlessFields
  <2>2. Get(p, "allowInsecure", "0") = IF c.tls /\ ~c.reality /\ c.allow_insecure THEN "1"
                                       ELSE Get(x, "allowInsecure", "0")
    BY LinkSays
  <2> HIDE DEF back, p, x
  <2> QED BY <2>1, <2>2 DEF Kept, FlagsOK, x
<1>8. back.path = c.path
  <2>1. back.path = Get(p, "path", "")
    BY VlessFields
  <2>2. Get(p, "path", "") = IF c.path # "" THEN c.path ELSE Get(x, "path", "")
    BY LinkSays
  <2> QED BY <2>1, <2>2 DEF Kept
<1>9. c.reality => back.public_key = c.public_key /\ back.short_id = c.short_id
  <2>1. back.public_key = ("pbk" \in DOMAIN p) /\ back.short_id = ("sid" \in DOMAIN p)
    BY VlessFields
  <2>2. /\ "pbk" \in DOMAIN p <=> (c.reality /\ c.public_key) \/ "pbk" \in DOMAIN x
        /\ "sid" \in DOMAIN p <=> (c.reality /\ c.short_id) \/ "sid" \in DOMAIN x
    BY LinkSays
  <2> HIDE DEF back, p
  <2>3. ASSUME c.reality PROVE ("pbk" \in DOMAIN p <=> c.public_key) /\ ("sid" \in DOMAIN p <=> c.short_id)
    BY <2>2, <2>3, Zenon DEF Kept
  <2>4. c.public_key \in BOOLEAN /\ c.short_id \in BOOLEAN
    BY DEF FlagsOK
  <2>5. ("pbk" \in DOMAIN p) \in BOOLEAN /\ ("sid" \in DOMAIN p) \in BOOLEAN
    OBVIOUS
  <2>6. \A a, b \in BOOLEAN : (a <=> b) => a = b
    OBVIOUS
  <2>7. ASSUME c.reality PROVE ("pbk" \in DOMAIN p) = c.public_key /\ ("sid" \in DOMAIN p) = c.short_id
    BY <2>3, <2>4, <2>5, <2>6, <2>7, Zenon
  <2> QED BY <2>1, <2>7, Zenon
<1>10. c.tls /\ c.sni # "" => back.sni = c.sni
  <2>1. back.sni = AnyOf(<<Get(p, "sni", ""), Get(p, "host", "")>>)
    BY VlessFields
  <2>2. Get(p, "sni", "") = IF c.tls /\ c.sni # "" THEN c.sni ELSE Get(x, "sni", "")
    BY LinkSays
  <2>3. back.sni = IF Get(p, "sni", "") # "" THEN Get(p, "sni", "") ELSE Get(p, "host", "")
    BY <2>1, FirstOfPair
  <2> HIDE DEF back, p
  <2> QED BY <2>2, <2>3
<1>11. c.transport \in DOMAIN LinkNetworks => back.transport = c.transport
  <2>1. back.transport = DetectTransport(p, "VLESS")
    BY VlessFields
  <2>2. Get(p, "type", Get(p, "network", "tcp")) = TransportParam(c)
    BY LinkSays
  <2>3. back.transport = Get(Networks, TransportParam(c), "Unknown")
    BY <2>1, <2>2 DEF DetectTransport
  <2>4. c.transport \in DOMAIN LinkNetworks => TransportParam(c) = LinkNetworks[c.transport]
    BY DEF TransportParam, Get
  <2> HIDE DEF back
  <2> QED BY <2>3, <2>4, NetworksReadBack
<1>12. c.transport \in {"WebSocket", "HTTPUpgrade", "XHTTP"} => back.host = c.host
  <2>1. back.host = Get(p, "host", "")
    BY VlessFields
  <2>2. Get(p, "host", "") = IF c.host # "" /\ c.transport \in {"WebSocket", "HTTPUpgrade", "XHTTP"} THEN c.host
                             ELSE Get(x, "host", "")
    BY LinkSays
  <2> QED BY <2>1, <2>2 DEF Kept
<1>13. c.transport = "gRPC" => back.service = c.service
  <2>1. back.service = Get(p, "serviceName", "")
    BY VlessFields
  <2>2. Get(p, "serviceName", "") = IF c.service # "" /\ c.transport = "gRPC" THEN c.service
                                    ELSE Get(x, "serviceName", "")
    BY LinkSays
  <2> QED BY <2>1, <2>2 DEF Kept
<1> HIDE DEF back, l
<1>16. back.secret = Quote(c.secret) /\ back.address = Hostname(c.address)
  BY <1>1, <1>2
<1>14. \A f \in {"flow", "tls", "reality", "alpn", "path", "fingerprint", "allow_insecure", "remark"} :
         back[f] = c[f]
  BY <1>1, <1>2, <1>3, <1>4, <1>5, <1>6, <1>7, <1>8
<1>15. back.port = (IF c.port = 0 THEN 443 ELSE c.port)
  BY <1>1, <1>2
<1> QED BY <1>9, <1>10, <1>11, <1>12, <1>13, <1>14, <1>15, <1>16, Zenon DEF LinkReadsAs, back, l

\* What the parsers say of the configs that are written out again.
Readable(c) == (c.protocol \in {"VLESS", "VMESS"} => FlagsOK(c)) /\ (c.protocol = "VLESS" => Kept(c))

\* What the JSON parser reads of an outbound.
OutboundSays(c, ob) ==
  LET node == OutboundNode(ob.settings)
      stream == ob.stream
      security == Get(stream, "security", "none")
      tls == Get(stream, "tlsSettings", Get(stream, "realitySettings", << >>))
      ws == Get(stream, "wsSettings", << >>)
  IN  /\ c.protocol = Get(JsonProtocols, ob.protocol, "Unknown")
      /\ c.address = Get(node, "address", "") /\ c.port = Get(node, "port", 443)
      /\ c.secret = Get(node, "secret", "")
      /\ c.tls = (security \in {"tls", "reality", "xtls"}) /\ c.reality = (security = "reality")
      /\ c.public_key = (Get(tls, "publicKey", FALSE) = TRUE)
      /\ c.short_id = (Get(tls, "shortId", FALSE) = TRUE)
      /\ c.sni = Get(tls, "serverName", "")
      /\ c.host = Get(ws, "host", "") /\ c.path = Get(ws, "path", "")
      /\ c.service = Get(stream, "serviceName", "")
      /\ c.transport = Get(JsonNetworks, Get(stream, "network", "tcp"), "Unknown")

\* So it does.
LEMMA OutboundFields == ASSUME NEW ob PROVE OutboundSays(ParseOutbound(ob), ob)
<1> DEFINE c == ParseOutbound(ob)
           node == OutboundNode(ob.settings)
           stream == ob.stream
           security == Get(stream, "security", "none")
           tls == Get(stream, "tlsSettings", Get(stream, "realitySettings", << >>))
           ws == Get(stream, "wsSettings", << >>)
<1>1. /\ c.protocol = Get(JsonProtocols, ob.protocol, "Unknown")
      /\ c.address = Get(node, "address", "") /\ c.port = Get(node, "port", 443)
      /\ c.secret = Get(node, "secret", "")
      /\ c.sni = Get(tls, "serverName", "")
      /\ c.host = Get(ws, "host", "") /\ c.path = Get(ws, "path", "")
      /\ c.service = Get(stream, "serviceName", "")
      /\ c.transport = Get(JsonNetworks, Get(stream, "network", "tcp"), "Unknown")
  BY DEF ParseOutbound, NoConfig
<1>2. c.tls = (security \in {"tls", "reality", "xtls"}) /\ c.reality = (security = "reality")
  BY DEF ParseOutbound, NoConfig
<1>3. c.public_key = (Get(tls, "publicKey", FALSE) = TRUE) /\ c.short_id = (Get(tls, "shortId", FALSE) = TRUE)
  BY DEF ParseOutbound, NoConfig
<1> HIDE DEF c, node, security, tls, ws
<1>4. /\ c.protocol = Get(JsonProtocols, ob.protocol, "Unknown")
      /\ c.address = Get(node, "address", "") /\ c.port = Get(node, "port", 443)
      /\ c.secret = Get(node, "secret", "")
      /\ c.tls = (security \in {"tls", "reality", "xtls"}) /\ c.reality = (security = "reality")
      /\ c.public_key = (Get(tls, "publicKey", FALSE) = TRUE)
      /\ c.short_id = (Get(tls, "shortId", FALSE) = TRUE)
      /\ c.sni = Get(tls, "serverName", "")
      /\ c.host = Get(ws, "host", "") /\ c.path = Get(ws, "path", "")
      /\ c.service = Get(stream, "serviceName", "")
      /\ c.transport = Get(JsonNetworks, Get(stream, "network", "tcp"), "Unknown")
  BY <1>1, <1>2, <1>3, Zenon
<1> QED BY <1>4, Zenon DEF OutboundSays, c, node, stream, security, tls, ws

\* The JSON parser makes such configs,
LEMMA OutboundReadable == ASSUME NEW ob PROVE Readable(ParseOutbound(ob))
<1> DEFINE c == ParseOutbound(ob)
           s == Get(ob.stream, "security", "none")
           t == Get(ob.stream, "tlsSettings", Get(ob.stream, "realitySettings", << >>))
           pk == Get(t, "publicKey", FALSE)
           si == Get(t, "shortId", FALSE)
<1>1. /\ c.extra = [outbound |-> ob] /\ c.flow = "" /\ c.alpn = {} /\ c.fingerprint = "" /\ c.allow_insecure = FALSE
  BY DEF ParseOutbound, NoConfig
<1>2. c.tls = (s \in {"tls", "reality", "xtls"}) /\ c.reality = (s = "reality")
  BY OutboundFields DEF OutboundSays
<1>3. c.public_key = (pk = TRUE) /\ c.short_id = (si = TRUE)
  BY OutboundFields DEF OutboundSays
<1>4. \A k : k # "outbound" => \A d : Get(c.extra, k, d) = d
  <2> HIDE DEF c
  <2>1. DOMAIN c.extra = {"outbound"}
    BY <1>1
  <2> QED BY <2>1 DEF Get
<1> HIDE DEF c, s, pk, si
<1>5. FlagsOK(c)
  <2>1. /\ (s \in {"tls", "reality", "xtls"}) \in BOOLEAN /\ (s = "reality") \in BOOLEAN
        /\ (pk = TRUE) \in BOOLEAN /\ (si = TRUE) \in BOOLEAN /\ FALSE \in BOOLEAN
    OBVIOUS
  <2>2. (s = "reality") => (s \in {"tls", "reality", "xtls"})
    OBVIOUS
  <2> QED BY <1>1, <1>2, <1>3, <2>1, <2>2, Zenon DEF FlagsOK
<1>6. Kept(c)
  <2>4. Get(c.extra, "flow", "") = "" /\ Get(c.extra, "fingerprint", "") = "" /\ Get(c.extra, "fp", "") = ""
    BY <1>4
  <2>5. Get(c.extra, "alpn", {}) = {}
    BY <1>4
  <2>6. /\ Get(c.extra, "path", c.path) = c.path /\ Get(c.extra, "host", c.host) = c.host
        /\ Get(c.extra, "serviceName", c.service) = c.service
    BY <1>4
  <2>1. /\ Get(c.extra, "flow", "") = "" /\ Get(c.extra, "alpn", {}) = {}
        /\ Get(c.extra, "fp", Get(c.extra, "fingerprint", "")) = ""
        /\ Get(c.extra, "path", c.path) = c.path /\ Get(c.extra, "host", c.host) = c.host
        /\ Get(c.extra, "serviceName", c.service) = c.service
    BY <2>4, <2>5, <2>6, Zenon
  <2>2. (Get(c.extra, "allowInsecure", "0") = "1") = FALSE
    <3>1. Get(c.extra, "allowInsecure", "0") = "0"
      BY <1>4
    <3>2. ("0" = "1") = FALSE
      OBVIOUS
    <3> QED BY <3>1, <3>2, Zenon
  <2>3. "pbk" \notin DOMAIN c.extra /\ "sid" \notin DOMAIN c.extra
    BY <1>1
  <2> QED BY <1>1, <2>1, <2>2, <2>3, Zenon DEF Kept
<1> QED BY <1>5, <1>6 DEF Readable, c

\* so does that of VLESS links,
LEMMA VlessReadable == ASSUME NEW l PROVE Readable(ParseVless(l))
BY VlessKept DEF Readable

\* so does that of VMess links,
LEMMA VmessReadable == ASSUME NEW l PROVE Readable(ParseVmess(l))
<1> DEFINE c == ParseVmess(l)
           d == l.params
           s == Get(d, "tls", "")
           i == Get(d, "allowInsecure", "0")
<1>1. c.protocol = "VMESS" /\ c.reality = FALSE /\ c.public_key = FALSE /\ c.short_id = FALSE
  BY DEF ParseVmess, NoConfig
<1>2. CASE DOMAIN d = {}
  <2>1. c.tls = FALSE /\ c.allow_insecure = FALSE
    BY <1>2 DEF ParseVmess, NoConfig
  <2> HIDE DEF c
  <2>2. FlagsOK(c)
    BY <1>1, <2>1 DEF FlagsOK
  <2> QED BY <1>1, <2>2 DEF Readable, c
<1>3. CASE DOMAIN d # {}
  <2>1. c.tls = (s \in {"tls", "xtls", "reality", "1"}) /\ c.allow_insecure = (i = "1")
    BY <1>3 DEF ParseVmess, NoConfig
  <2> HIDE DEF c, s, i
  <2>2. (s \in {"tls", "xtls", "reality", "1"}) \in BOOLEAN /\ (i = "1") \in BOOLEAN
    OBVIOUS
  <2>3. c.reality \in BOOLEAN /\ c.public_key \in BOOLEAN /\ c.short_id \in BOOLEAN /\ ~c.reality
    BY <1>1
  <2>4. FlagsOK(c)
    BY <2>1, <2>2, <2>3, Zenon DEF FlagsOK
  <2> QED BY <1>1, <2>4 DEF Readable, c
<1> QED BY <1>2, <1>3

\* and the others make configs of other protocols.
LEMMA OtherReadable ==
  ASSUME NEW l
  PROVE  /\ Readable(ParseTrojan(l)) /\ Readable(ParseHysteria2(l)) /\ Readable(ParseTuic(l))
         /\ Readable(ParseShadowsocks(l)) /\ Readable(ParseOpenvpn(l)) /\ Readable([NoConfig EXCEPT !.raw = l])
<1>1. \A c : c.protocol \notin {"VLESS", "VMESS"} => Readable(c)
  BY DEF Readable
<1>2. ParseShadowsocks(l).protocol = "Shadowsocks"
  BY DEF ParseShadowsocks, NoConfig
<1>3. ParseOpenvpn(l).protocol = "OpenVPN"
  BY DEF ParseOpenvpn, NoConfig
<1>4. [NoConfig EXCEPT !.raw = l].protocol = "Unknown"
  BY DEF NoConfig
<1>5. ASSUME NEW protocol
      PROVE  FromUrl(l, protocol).protocol = protocol /\ DOMAIN FromUrl(l, protocol) = DOMAIN NoConfig
  BY DEF FromUrl, NoConfig
<1>6. ParseTrojan(l).protocol = FromUrl(l, "Trojan").protocol
  BY <1>5 DEF ParseTrojan, NoConfig
<1>7. ParseHysteria2(l).protocol = FromUrl(l, "Hysteria2").protocol
  BY <1>5 DEF ParseHysteria2, NoConfig
<1>8. ParseTuic(l).protocol = FromUrl(l, "TUIC").protocol
  BY <1>5 DEF ParseTuic, NoConfig
<1> QED BY <1>1, <1>2, <1>3, <1>4, <1>5, <1>6, <1>7, <1>8

\* Every config of a text is one.
LEMMA ParsedReadable ==
  ASSUME NEW text, text.kind \in {"json", "array", "conf", "links"}, NEW i \in DOMAIN ParseInput(text)
  PROVE  Readable(ParseInput(text)[i])
<1>1. CASE text.kind = "json"
  <2>1. ParseInput(text) = [k \in DOMAIN text.outbounds |-> ParseOutbound(text.outbounds[k])]
    BY <1>1 DEF ParseInput
  <2> QED BY <2>1, OutboundReadable
<1>2. CASE text.kind \in {"conf", "array"}
  <2>1. ParseInput(text) = << >>
    BY <1>2 DEF ParseInput
  <2> QED BY <2>1
<1>3. CASE text.kind = "links"
  <2>1. ParseInput(text) = [k \in DOMAIN text.links |-> ParseShareLink(text.links[k])]
    BY <1>3 DEF ParseInput
  <2>2. ASSUME NEW l PROVE Readable(ParseShareLink(l))
    <3>1. \/ ParseShareLink(l) = ParseOpenvpn(l) \/ ParseShareLink(l) = ParseVless(l)
          \/ ParseShareLink(l) = ParseVmess(l) \/ ParseShareLink(l) = ParseTrojan(l)
          \/ ParseShareLink(l) = ParseShadowsocks(l) \/ ParseShareLink(l) = ParseHysteria2(l)
          \/ ParseShareLink(l) = ParseTuic(l) \/ ParseShareLink(l) = [NoConfig EXCEPT !.raw = l]
      BY DEF ParseShareLink
    <3> QED BY <3>1, VlessReadable, VmessReadable, OtherReadable
  <2> QED BY <2>1, <2>2
<1> QED BY <1>1, <1>2, <1>3

\* What the stream settings of a config answer to the parser.
StreamGives(s, c, d) ==
  /\ Get(s, "network", d) = Get(StreamNetworks, c.transport, "tcp")
  /\ Get(s, "security", d) = IF c.reality THEN "reality" ELSE IF c.tls THEN "tls" ELSE "none"
  /\ c.transport = "WebSocket" => Get(s, "wsSettings", d) = [path |-> PathOrRoot(c), host |-> HostName(c)]
  /\ c.transport # "WebSocket" => Get(s, "wsSettings", d) = d
  /\ c.transport = "gRPC" => Get(s, "serviceName", d) = c.service
  /\ c.transport # "gRPC" => Get(s, "serviceName", d) = d
  /\ c.reality => /\ Get(s, "realitySettings", d).serverName = ServerName(c)
                  /\ DOMAIN Get(s, "realitySettings", d) = {"serverName", "publicKey", "shortId", "fingerprint"}
                  /\ Get(s, "realitySettings", d).publicKey = c.public_key
                  /\ Get(s, "realitySettings", d).shortId = c.short_id
                  /\ Get(s, "tlsSettings", d) = d
  /\ c.tls /\ ~c.reality => /\ Get(s, "tlsSettings", d).serverName = ServerName(c)
                            /\ "serverName" \in DOMAIN Get(s, "tlsSettings", d)

\* Built from the config, they say its transport and its security.
LEMMA StreamSays ==
  ASSUME NEW c, FlagsOK(c), NEW d
  PROVE  StreamGives(BuildStreamSettings(c), c, d)
<1> DEFINE t == TransportSettings(c)
           e == SecuritySettings(c)
           n == [network |-> Get(StreamNetworks, c.transport, "tcp")]
           s == BuildStreamSettings(c)
<1>1. \A k : Get(s, k, d) = Get(n, k, Get(t, k, Get(e, k, d)))
  <2>1. s = With(n, With(t, e))
    BY DEF BuildStreamSettings
  <2> HIDE DEF n, t, e, s
  <2> QED BY <2>1, GetWith
<1>2. /\ Get(n, "network", Get(t, "network", Get(e, "network", d))) = Get(StreamNetworks, c.transport, "tcp")
      /\ \A k, v : k # "network" => Get(n, k, v) = v
  BY DEF Get
<1>3. DOMAIN t \subseteq {"wsSettings", "serviceName", "xhttpSettings"}
  BY NoKeys DEF TransportSettings
<1>4. \A k, v : k \notin {"wsSettings", "serviceName", "xhttpSettings"} => Get(t, k, v) = v
  <2> HIDE DEF t
  <2> QED BY <1>3 DEF Get
<1>5. DOMAIN e \subseteq {"security", "realitySettings", "tlsSettings"}
  BY DEF SecuritySettings
<1>6. \A k, v : k \notin {"security", "realitySettings", "tlsSettings"} => Get(e, k, v) = v
  <2> HIDE DEF e
  <2> QED BY <1>5 DEF Get
<1>7. c.transport = "WebSocket" => \A v : Get(t, "wsSettings", v) = [path |-> PathOrRoot(c), host |-> HostName(c)]
  BY DEF TransportSettings, Get
<1>8. c.transport = "gRPC" => \A v : Get(t, "serviceName", v) = c.service
  BY DEF TransportSettings, Get
<1>17. c.transport # "WebSocket" => \A v : Get(t, "wsSettings", v) = v
  <2>1. c.transport # "WebSocket" => "wsSettings" \notin DOMAIN t
    BY NoKeys DEF TransportSettings
  <2> HIDE DEF t
  <2> QED BY <2>1 DEF Get
<1>18. c.transport # "gRPC" => \A v : Get(t, "serviceName", v) = v
  <2>1. c.transport # "gRPC" => "serviceName" \notin DOMAIN t
    BY NoKeys DEF TransportSettings
  <2> HIDE DEF t
  <2> QED BY <2>1 DEF Get
<1>9. Get(e, "security", d) = IF c.reality THEN "reality" ELSE IF c.tls THEN "tls" ELSE "none"
  BY DEF SecuritySettings, Get, FlagsOK
<1>10. ASSUME c.reality
       PROVE  /\ Get(e, "realitySettings", d).serverName = ServerName(c)
              /\ DOMAIN Get(e, "realitySettings", d) = {"serverName", "publicKey", "shortId", "fingerprint"}
              /\ Get(e, "realitySettings", d).publicKey = c.public_key
              /\ Get(e, "realitySettings", d).shortId = c.short_id
              /\ Get(e, "tlsSettings", d) = d
  BY <1>10 DEF SecuritySettings, Get
<1>11. ASSUME c.tls, ~c.reality
       PROVE  /\ Get(e, "tlsSettings", d).serverName = ServerName(c)
              /\ "serverName" \in DOMAIN Get(e, "tlsSettings", d)
  BY <1>11 DEF SecuritySettings, Get
<1> HIDE DEF n, t, e, s
<1>12. /\ Get(s, "security", d) = Get(e, "security", d)
       /\ Get(s, "realitySettings", d) = Get(e, "realitySettings", d)
       /\ Get(s, "tlsSettings", d) = Get(e, "tlsSettings", d)
  BY <1>1, <1>2, <1>4
<1>13. Get(s, "network", d) = Get(StreamNetworks, c.transport, "tcp")
  BY <1>1, <1>2
<1>14. c.transport = "WebSocket" => Get(s, "wsSettings", d) = [path |-> PathOrRoot(c), host |-> HostName(c)]
  BY <1>1, <1>2, <1>7
<1>15. c.transport = "gRPC" => Get(s, "serviceName", d) = c.service
  BY <1>1, <1>2, <1>8
<1>19. c.transport # "WebSocket" => Get(s, "wsSettings", d) = d
  BY <1>1, <1>2, <1>6, <1>17
<1>20. c.transport # "gRPC" => Get(s, "serviceName", d) = d
  BY <1>1, <1>2, <1>6, <1>18
<1>16. StreamGives(s, c, d)
  BY <1>19, <1>20, <1>9, <1>10, <1>11, <1>12, <1>13, <1>14, <1>15, Zenon DEF StreamGives
<1> QED BY <1>16 DEF s

\* What is kept of one config of VLESS or VMess by its outbound.
OutboundReadsAs(c, back) ==
  /\ \A f \in {"address", "port", "secret", "reality"} : back[f] = c[f]
  /\ back.tls = (c.tls \/ c.reality)
  /\ c.reality => back.public_key = c.public_key /\ back.short_id = c.short_id
  /\ back.tls => back.sni = ServerName(c)
  /\ c.transport \in {"TCP", "WebSocket", "gRPC", "HTTPUpgrade", "QUIC"} => back.transport = c.transport
  /\ c.transport = "XHTTP" => back.transport = "Unknown"
  /\ back.host = (IF c.transport = "WebSocket" THEN HostName(c) ELSE "")
  /\ back.path = (IF c.transport = "WebSocket" THEN PathOrRoot(c) ELSE "")
  /\ back.service = (IF c.transport = "gRPC" THEN c.service ELSE "")

\* What an outbound says besides the stream.
OutboundGives(ob, c) ==
  /\ ob.stream = BuildStreamSettings(c)
  /\ Get(JsonProtocols, ob.protocol, "Unknown") = c.protocol
  /\ Get(OutboundNode(ob.settings), "address", "") = c.address
  /\ Get(OutboundNode(ob.settings), "port", 443) = c.port
  /\ Get(OutboundNode(ob.settings), "secret", "") = c.secret

\* That of VLESS and VMess says the config.
LEMMA OutboundIs ==
  ASSUME NEW c, c.protocol \in {"VLESS", "VMESS"}
  PROVE  OutboundGives(BuildOutbound(c), c)
<1> DEFINE s == BuildStreamSettings(c)
           ob == BuildOutbound(c)
           node == OutboundNode(ob.settings)
           m == [Node(c) EXCEPT !.flow = ""]
<1>1. /\ c.protocol = "VLESS" =>
            ob = [protocol |-> XrayNames["VLESS"], settings |-> [vnext |-> <<Node(c)>>], stream |-> s]
      /\ c.protocol = "VMESS" =>
            ob = [protocol |-> XrayNames["VMESS"], settings |-> [vnext |-> <<m>>], stream |-> s]
  BY DEF BuildOutbound
<1>2. \A x : OutboundNode([vnext |-> <<x>>]) = x
  BY DEF OutboundNode, Get
<1>3. /\ Get(m, "address", "") = c.address /\ Get(m, "port", 443) = c.port /\ Get(m, "secret", "") = c.secret
      /\ Get(Node(c), "address", "") = c.address /\ Get(Node(c), "port", 443) = c.port
      /\ Get(Node(c), "secret", "") = c.secret
  BY DEF Node, Get
<1>4. /\ Get(JsonProtocols, XrayNames["VLESS"], "Unknown") = "VLESS"
      /\ Get(JsonProtocols, XrayNames["VMESS"], "Unknown") = "VMESS"
  BY DEF JsonProtocols, XrayNames, Get
<1> HIDE DEF s, m, ob
<1>5. /\ ob.stream = s /\ Get(JsonProtocols, ob.protocol, "Unknown") = c.protocol
      /\ node = Node(c) \/ node = m
  BY <1>1, <1>2, <1>4
<1> HIDE DEF node
<1>6. /\ Get(node, "address", "") = c.address /\ Get(node, "port", 443) = c.port
      /\ Get(node, "secret", "") = c.secret
  BY <1>3, <1>5
<1> QED BY <1>5, <1>6 DEF ob, s, node, OutboundGives

\* A config is read back from the outbound built from it.
LEMMA OutboundReads ==
  ASSUME NEW c, FlagsOK(c), c.protocol \in {"VLESS", "VMESS"}
  PROVE  OutboundReadsAs(c, ParseOutbound(BuildOutbound(c)))
<1> DEFINE ob == BuildOutbound(c)
           back == ParseOutbound(ob)
           s == BuildStreamSettings(c)
           tls == Get(s, "tlsSettings", Get(s, "realitySettings", << >>))
           ws == Get(s, "wsSettings", << >>)
           security == Get(s, "security", "none")
           node == OutboundNode(ob.settings)
<1>1. OutboundGives(ob, c)
  BY OutboundIs
<1>20. OutboundSays(back, ob)
  BY OutboundFields
<1> HIDE DEF ob, back, s
<1>2. back.protocol = c.protocol /\ back.address = c.address /\ back.port = c.port /\ back.secret = c.secret
  <2>1. /\ back.protocol = Get(JsonProtocols, ob.protocol, "Unknown")
        /\ back.address = Get(node, "address", "") /\ back.port = Get(node, "port", 443)
        /\ back.secret = Get(node, "secret", "")
    BY <1>20 DEF OutboundSays
  <2> QED BY <1>1, <2>1 DEF OutboundGives
<1>21. ob.stream = s
  BY <1>1 DEF OutboundGives, s
<1>3. /\ back.tls = (security \in {"tls", "reality", "xtls"}) /\ back.reality = (security = "reality")
      /\ back.public_key = (Get(tls, "publicKey", FALSE) = TRUE)
      /\ back.short_id = (Get(tls, "shortId", FALSE) = TRUE)
  BY <1>20, <1>21 DEF OutboundSays
<1>4. /\ back.sni = Get(tls, "serverName", "")
      /\ back.host = Get(ws, "host", "") /\ back.path = Get(ws, "path", "")
      /\ back.service = Get(s, "serviceName", "")
      /\ back.transport = Get(JsonNetworks, Get(s, "network", "tcp"), "Unknown")
  BY <1>20, <1>21 DEF OutboundSays
<1>5. \A d : StreamGives(s, c, d)
  BY StreamSays DEF s
<1>6. /\ c.transport \in {"TCP", "WebSocket", "gRPC", "HTTPUpgrade", "QUIC"} => back.transport = c.transport
      /\ c.transport = "XHTTP" => back.transport = "Unknown"
  <2>1. StreamGives(s, c, "tcp")
    BY <1>5
  <2>2. Get(s, "network", "tcp") = Get(StreamNetworks, c.transport, "tcp")
    BY <2>1 DEF StreamGives
  <2>3. /\ c.transport \in {"TCP", "WebSocket", "gRPC", "HTTPUpgrade", "QUIC"} =>
             Get(JsonNetworks, Get(StreamNetworks, c.transport, "tcp"), "Unknown") = c.transport
        /\ c.transport = "XHTTP" => Get(JsonNetworks, Get(StreamNetworks, c.transport, "tcp"), "Unknown") = "Unknown"
    BY DEF StreamNetworks, JsonNetworks, Get
  <2> QED BY <1>4, <2>2, <2>3
<1>7. security = IF c.reality THEN "reality" ELSE IF c.tls THEN "tls" ELSE "none"
  <2>1. StreamGives(s, c, "none")
    BY <1>5
  <2> QED BY <2>1 DEF StreamGives
<1>8. back.tls = (c.tls \/ c.reality) /\ back.reality = c.reality
  <2> HIDE DEF security
  <2>1. CASE c.reality
    <3>1. c.reality = TRUE /\ (c.tls \/ c.reality) = TRUE
      BY <2>1 DEF FlagsOK
    <3>2. security = "reality"
      BY <1>7, <2>1
    <3>3. (security \in {"tls", "reality", "xtls"}) = TRUE /\ (security = "reality") = TRUE
      BY <3>2
    <3> QED BY <1>3, <3>1, <3>3, Zenon
  <2>2. CASE c.tls /\ ~c.reality
    <3>1. c.reality = FALSE /\ (c.tls \/ c.reality) = TRUE
      BY <2>2 DEF FlagsOK
    <3>2. security = "tls"
      BY <1>7, <2>2
    <3>3. (security \in {"tls", "reality", "xtls"}) = TRUE /\ (security = "reality") = FALSE
      BY <3>2
    <3> QED BY <1>3, <3>1, <3>3, Zenon
  <2>3. CASE ~c.tls /\ ~c.reality
    <3>1. c.reality = FALSE /\ (c.tls \/ c.reality) = FALSE
      BY <2>3 DEF FlagsOK
    <3>2. security = "none"
      BY <1>7, <2>3
    <3>3. (security \in {"tls", "reality", "xtls"}) = FALSE /\ (security = "reality") = FALSE
      BY <3>2
    <3> QED BY <1>3, <3>1, <3>3, Zenon
  <2> QED BY <2>1, <2>2, <2>3
<1>9. ASSUME c.reality
      PROVE  back.public_key = c.public_key /\ back.short_id = c.short_id /\ back.sni = ServerName(c)
  <2> DEFINE g == Get(s, "realitySettings", << >>)
  <2>1. StreamGives(s, c, g) /\ StreamGives(s, c, << >>)
    BY <1>5
  <2>2. tls = g
    BY <1>9, <2>1 DEF StreamGives
  <2>3. /\ g.serverName = ServerName(c) /\ g.publicKey = c.public_key /\ g.shortId = c.short_id
        /\ DOMAIN g = {"serverName", "publicKey", "shortId", "fingerprint"}
    BY <1>9, <2>1 DEF StreamGives
  <2> HIDE DEF tls, g
  <2>4. Get(tls, "publicKey", FALSE) = c.public_key /\ Get(tls, "shortId", FALSE) = c.short_id
        /\ Get(tls, "serverName", "") = ServerName(c)
    BY <2>2, <2>3 DEF Get
  <2>5. c.public_key \in BOOLEAN /\ c.short_id \in BOOLEAN
    BY DEF FlagsOK
  <2>6. \A b \in BOOLEAN : (b = TRUE) = b
    OBVIOUS
  <2>7. back.public_key = (c.public_key = TRUE) /\ back.short_id = (c.short_id = TRUE)
    BY <1>3, <2>4, Zenon
  <2> QED BY <1>4, <2>4, <2>5, <2>6, <2>7, Zenon
<1>10. ASSUME c.tls, ~c.reality
       PROVE  back.sni = ServerName(c)
  <2> DEFINE g == Get(s, "realitySettings", << >>)
  <2>1. StreamGives(s, c, g)
    BY <1>5
  <2>2. tls.serverName = ServerName(c) /\ "serverName" \in DOMAIN tls
    BY <1>10, <2>1 DEF StreamGives
  <2> HIDE DEF tls
  <2> QED BY <1>4, <2>2 DEF Get
<1>11. ASSUME c.transport = "WebSocket"
       PROVE  back.host = HostName(c) /\ back.path = PathOrRoot(c)
  <2>1. StreamGives(s, c, << >>)
    BY <1>5
  <2>2. ws = [path |-> PathOrRoot(c), host |-> HostName(c)]
    BY <1>11, <2>1 DEF StreamGives
  <2> HIDE DEF ws
  <2> QED BY <1>4, <2>2 DEF Get
<1>12. ASSUME c.transport = "gRPC"
       PROVE  back.service = c.service
  <2>1. StreamGives(s, c, "")
    BY <1>5
  <2> QED BY <1>4, <1>12, <2>1 DEF StreamGives
<1>17. ASSUME c.transport # "WebSocket"
       PROVE  back.host = "" /\ back.path = ""
  <2>1. StreamGives(s, c, << >>)
    BY <1>5
  <2>2. ws = << >>
    BY <1>17, <2>1 DEF StreamGives
  <2> HIDE DEF ws
  <2> QED BY <1>4, <2>2, NoKeys DEF Get
<1>18. ASSUME c.transport # "gRPC"
       PROVE  back.service = ""
  <2>1. StreamGives(s, c, "")
    BY <1>5
  <2> QED BY <1>4, <1>18, <2>1 DEF StreamGives
<1>13. \A f \in {"address", "port", "secret", "reality"} : back[f] = c[f]
  BY <1>2, <1>8
<1>19. /\ back.host = (IF c.transport = "WebSocket" THEN HostName(c) ELSE "")
       /\ back.path = (IF c.transport = "WebSocket" THEN PathOrRoot(c) ELSE "")
       /\ back.service = (IF c.transport = "gRPC" THEN c.service ELSE "")
  BY <1>11, <1>12, <1>17, <1>18
<1>14. ASSUME back.tls PROVE back.sni = ServerName(c)
  <2>1. c.tls \/ c.reality
    BY <1>8, <1>14
  <2> QED BY <1>9, <1>10, <2>1
<1>15. back.tls = (c.tls \/ c.reality)
  BY <1>8
<1>16. OutboundReadsAs(c, back)
  BY <1>6, <1>9, <1>13, <1>14, <1>15, <1>19, Zenon DEF OutboundReadsAs
<1> QED BY <1>16 DEF back, ob

\* Only parsing sets the config.
LEMMA ConfigKeptHolds == TypeInv /\ CdnInv /\ [Next]_vars /\ ~Parse => r'.cfg = r.cfg
<1> SUFFICES ASSUME TypeInv, CdnInv, [Next]_vars, ~Parse PROVE r'.cfg = r.cfg
  OBVIOUS
<1>1. DOMAIN r = Fields
  BY DEF CdnInv
<1>2. CASE Validate \/ ResolveTargets \/ ProbeTargets
  BY <1>1, <1>2 DEF Validate, ResolveTargets, ProbeTargets, Fields
<1>3. CASE GatherIntel \/ Conclude \/ LiveTest
  BY <1>1, <1>3 DEF GatherIntel, Conclude, LiveTest, Fields
<1>4. CASE Assess
  <2>1. PICK order :
          r' = AssessStealth([[r EXCEPT !.setOrder = order]
                                 EXCEPT !.tun = AnalyzeTunnels([r EXCEPT !.setOrder = order])])
    BY <1>4 DEF Assess
  <2>2. ConfigIsOK(r.cfg)
    BY DEF TypeInv
  <2> QED BY <1>1, <2>1, <2>2, AssessProfiles
<1>5. CASE BuildReports
  BY <1>1, <1>5 DEF BuildReports, Fields
<1>6. CASE Align
  BY <1>1, <1>6, AlignGrades DEF Align
<1>7. CASE \/ ParseFails \/ ResolveRaises \/ RunHooks \/ HookReturnsNothing \/ SyncUpload \/ ShowSummary
           \/ Ended \/ UNCHANGED vars
  BY <1>7 DEF ParseFails, ResolveRaises, RunHooks, HookReturnsNothing, SyncUpload, ShowSummary, Ended, vars
<1> QED BY <1>2, <1>3, <1>4, <1>5, <1>6, <1>7 DEF Next

\* Each step keeps the config readable.
LEMMA ReadableKept == Readable(r.cfg) /\ TypeInv /\ CdnInv /\ [Next]_vars => Readable(r.cfg)'
<1> SUFFICES ASSUME Readable(r.cfg), TypeInv, CdnInv, [Next]_vars PROVE Readable(r'.cfg)
  OBVIOUS
<1>1. CASE Parse
  <2>1. PICK text \in Texts : \E i \in DOMAIN ParseInput(text) : r' = NothingKnown(ParseInput(text)[i])
    BY <1>1 DEF Parse
  <2>2. PICK i \in DOMAIN ParseInput(text) : r' = NothingKnown(ParseInput(text)[i])
    BY <2>1
  <2>3. text.kind \in {"json", "array", "conf", "links"}
    BY TextsAssumption, Zenon
  <2> QED BY <2>2, <2>3, ParsedReadable, KnownConfig
<1>2. CASE ~Parse
  BY <1>2, ConfigKeptHolds
<1> QED BY <1>1, <1>2

\* It is at the start.
LEMMA ReadableInit == Init => Readable(r.cfg)
<1> SUFFICES ASSUME Init PROVE Readable(r.cfg)
  OBVIOUS
<1>1. r.cfg = NoConfig
  BY KnownConfig DEF Init
<1>2. NoConfig.protocol = "Unknown"
  BY DEF NoConfig
<1> QED BY <1>1, <1>2 DEF Readable

\* The JSON parser fills in nothing but what it reads, and knows every protocol
\* that is written; the servers of an outbound without vnext it does not see.
LEMMA ImportForgets ==
  ASSUME NEW c, BuildOutbound(c) # NoOutbound
  PROVE  LET back == ParseOutbound(BuildOutbound(c))
         IN  /\ back.protocol = c.protocol
             /\ \A f \in {"flow", "alpn", "fingerprint", "allow_insecure", "remark"} : back[f] = NoConfig[f]
             /\ c.protocol \notin {"VLESS", "VMESS"} => back.address = "" /\ back.secret = "" /\ back.port = 443
<1> DEFINE ob == BuildOutbound(c)
           back == ParseOutbound(ob)
<1>1. /\ back.flow = NoConfig.flow /\ back.alpn = NoConfig.alpn /\ back.fingerprint = NoConfig.fingerprint
      /\ back.allow_insecure = NoConfig.allow_insecure /\ back.remark = NoConfig.remark
  <2>1. {"flow", "alpn", "fingerprint", "allow_insecure", "remark"} \subseteq DOMAIN NoConfig
    BY DEF NoConfig
  <2> QED BY <2>1 DEF ParseOutbound
<1>2. c.protocol \in {"VLESS", "VMESS", "Trojan", "Shadowsocks", "Hysteria2", "TUIC"}
  BY TestedProtocols
<1>3. ob.protocol = XrayNames[c.protocol]
  BY <1>2 DEF BuildOutbound
<1>4. OutboundSays(back, ob)
  BY OutboundFields
<1>5. back.protocol = c.protocol
  <2>1. Get(JsonProtocols, XrayNames[c.protocol], "Unknown") = c.protocol
    BY <1>2 DEF JsonProtocols, XrayNames, Get
  <2> HIDE DEF back, ob
  <2> QED BY <1>3, <1>4, <2>1 DEF OutboundSays
<1>6. ASSUME c.protocol \notin {"VLESS", "VMESS"}
      PROVE  back.address = "" /\ back.secret = "" /\ back.port = 443
  <2>1. \E servers : ob.settings = [servers |-> servers]
    BY <1>2, <1>6 DEF BuildOutbound
  <2>2. \A servers : OutboundNode([servers |-> servers]) = << >>
    BY DEF OutboundNode, Get, EmptyNode
  <2>3. \A k, d : Get(<< >>, k, d) = d
    BY NoKeys DEF Get
  <2> HIDE DEF back, ob
  <2>4. OutboundNode(ob.settings) = << >>
    BY <2>1, <2>2
  <2>5. /\ back.address = Get(OutboundNode(ob.settings), "address", "")
        /\ back.secret = Get(OutboundNode(ob.settings), "secret", "")
        /\ back.port = Get(OutboundNode(ob.settings), "port", 443)
    BY <1>4, Zenon DEF OutboundSays
  <2>6. /\ Get(<< >>, "address", "") = "" /\ Get(<< >>, "secret", "") = "" /\ Get(<< >>, "port", 443) = 443
    BY <2>3, Zenon
  <2>7. back.address = Get(<< >>, "address", "") /\ back.secret = Get(<< >>, "secret", "") /\ back.port = Get(<< >>, "port", 443)
    BY <2>4, <2>5, Zenon
  <2> QED BY <2>6, <2>7
<1> HIDE DEF back
<1>7. \A f \in {"flow", "alpn", "fingerprint", "allow_insecure", "remark"} : back[f] = NoConfig[f]
  BY <1>1
<1> QED BY <1>5, <1>6, <1>7 DEF back, ob

\* Then it reads back as a link
LEMMA LinkOfReadable == Readable(r.cfg) => LinkReadsBack
<1> SUFFICES ASSUME Readable(r.cfg) PROVE LinkReadsBack
  OBVIOUS
<1> DEFINE c == r.cfg
<1>1. ASSUME BuildVlessLink(c) # NoLink
      PROVE  /\ LinkRaises(BuildVlessLink(c)) <=> c.address \in Ipv6 \/ c.port < 0
             /\ LinkReadsAs(c, ParseVless(BuildVlessLink(c)))
  <2>1. c.protocol = "VLESS"
    BY <1>1 DEF BuildVlessLink
  <2>2. FlagsOK(c) /\ Kept(c)
    BY <2>1 DEF Readable
  <2> QED BY <1>1, <2>2, LinkReads, BuiltLinkRaises
<1> HIDE DEF c
<1> QED BY <1>1, Zenon DEF LinkReadsBack, LinkReadsAs, c

\* and as an outbound.
LEMMA OutboundOfReadable == Readable(r.cfg) => OutboundReadsBack
<1> SUFFICES ASSUME Readable(r.cfg) PROVE OutboundReadsBack
  OBVIOUS
<1> DEFINE c == r.cfg
           back == ParseOutbound(BuildOutbound(c))
<1>1. ASSUME c.protocol \in {"VLESS", "VMESS"} PROVE OutboundReadsAs(c, back)
  <2>1. FlagsOK(c)
    BY <1>1 DEF Readable
  <2> QED BY <1>1, <2>1, OutboundReads
<1>2. ASSUME BuildOutbound(c) # NoOutbound
      PROVE  /\ back.protocol = c.protocol
             /\ \A f \in {"flow", "alpn", "fingerprint", "allow_insecure", "remark"} : back[f] = NoConfig[f]
             /\ c.protocol \notin {"VLESS", "VMESS"} => back.address = "" /\ back.secret = "" /\ back.port = 443
  BY <1>2, ImportForgets
<1> HIDE DEF c
<1> QED BY <1>1, <1>2, Zenon DEF OutboundReadsBack, OutboundReadsAs, c

\* So every config of an analysis is readable.
LEMMA ReadableHolds == Spec => []Readable(r.cfg)
<1>1. Init => Redacted
  BY DEF Init, Redacted
<1> QED
  BY <1>1, ReadableInit, TypeInvInit, CdnInvInit, ReadableKept, TypeInvKept, CdnInvKept, RedactedKept, PTL DEF Spec

\* Whatever is pasted, a link built from its config is read back as that config,
\* the id quoted and the host in lower case, unless it has an IPv6 address or a
\* port out of range: then it cannot be read.
THEOREM LinkReadsBackHolds == Spec => []LinkReadsBack
BY ReadableHolds, LinkOfReadable, PTL

\* Whatever is pasted, an outbound that the program wrote for VLESS or VMess keeps,
\* imported again, its server, id, security and transport settings and loses its
\* flow, ALPN, fingerprint, allowInsecure and remark; the others lose their server.
THEOREM OutboundReadsBackHolds == Spec => []OutboundReadsBack
BY ReadableHolds, OutboundOfReadable, PTL

=============================================================================
