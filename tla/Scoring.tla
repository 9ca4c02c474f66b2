------------------------------ MODULE Scoring -------------------------------
(***************************************************************************)
(* Root cause analysis (rca.Service.analyze): the alerts of an incident    *)
(* select rules, each rule's probes are answered by Prometheus and Loki,   *)
(* and the best hypothesis decides confidence and candidates.  Scores are  *)
(* in thousandths: every one the table yields is a multiple of five, which *)
(* round4 leaves alone.                                                    *)
(***************************************************************************)
EXTENDS Integers, Sequences, FiniteSets, FiniteSetsExt

CONSTANTS IncidentService,
          Signals,       \* [mode, name : the rules its label and its alertname select, service, accepted]
          MaxSignals     \* bound: the alerts of the incident

VARIABLES signals,       \* in the order of observation
          results,       \* per matched rule: the status of each of its probes
          report         \* the analysis of these signals and results

Probe(backend, weight, symptom) == [backend |-> backend, weight |-> weight, symptom |-> symptom]
errorRatioProbe(weight) == Probe("prometheus", weight, TRUE)
logProbe(weight) == Probe("loki", weight, FALSE)

\* hypothesis: the place of its name in lexical order.
DefaultRules == [
    postgres_connection_exhaustion |-> [hypothesis |-> 4,
        probes |-> <<Probe("prometheus", 200, FALSE), errorRatioProbe(100), logProbe(200)>>,
        remediations |-> {"drain_postgres_connections", "resize_connection_pool", "restart_pod"}],
    redis_memory_pressure |-> [hypothesis |-> 5,
        probes |-> <<Probe("prometheus", 200, FALSE), Probe("prometheus", 150, FALSE), logProbe(150)>>,
        remediations |-> {"purge_cache"}],
    nginx_upstream_config |-> [hypothesis |-> 3,
        probes |-> <<Probe("prometheus", 200, TRUE), logProbe(150)>>,
        remediations |-> {"rollback_config", "reload_nginx"}],
    dependency_latency |-> [hypothesis |-> 2,
        probes |-> <<Probe("prometheus", 200, TRUE), logProbe(150)>>,
        remediations |-> {"toggle_feature_flag"}],
    bad_config_rollout |-> [hypothesis |-> 1,
        probes |-> <<logProbe(250), errorRatioProbe(100)>>,
        remediations |-> {"rollback_config", "restart_pod"}]]
Rules == DOMAIN DefaultRules

-----------------------------------------------------------------------------
(* Matching.                                                               *)

\* The failure-mode label wins if it names a rule, then the alertname.
selected(signal) == IF signal.mode \in Rules THEN signal.mode ELSE signal.name
Match(alerts) == {i \in DOMAIN alerts : selected(alerts[i]) \in Rules}
matches(alerts, rule) == {i \in DOMAIN alerts : selected(alerts[i]) = rule}

\* The service that the rule's probes are scoped to: that of the first alert on
\* the incident's own service, otherwise of the earliest.
primaryMatch(alerts, rule) ==
    LET own == {i \in matches(alerts, rule) : alerts[i].service = IncidentService}
    IN  alerts[Min(IF own # {} THEN own ELSE matches(alerts, rule))].service

-----------------------------------------------------------------------------
(* Scoring one rule.                                                       *)

BaselineConfidence == 350
AlertMatchScore == 450

SourceCap(sources) == CASE sources <= 1 -> 550 [] sources = 2 -> 800 [] OTHER -> 950

\* Mutant: the bounds are passed in the wrong order.
clampSwapped(value, min, max) == IF value < max THEN max ELSE IF value > min THEN min ELSE value

clamp(value, min, max) == IF value < min THEN min ELSE IF value > max THEN max ELSE value

\* status: of each probe of the rule.  A rule has at most three probes.
weight(rule, status, wanted) ==
    LET probes == DefaultRules[rule].probes
        counted(i) == IF i \in DOMAIN probes /\ status[i] = wanted THEN probes[i].weight ELSE 0
    IN  counted(1) + counted(2) + counted(3)

\* The backends on which a probe of the cause itself corroborated.
backends(rule, status) ==
    LET probes == DefaultRules[rule].probes
    IN  {probes[i].backend : i \in {j \in DOMAIN probes : status[j] = "corroborated" /\ ~probes[j].symptom}}

scoreRule(rule, status) ==
    LET corroborated == weight(rule, status, "corroborated")
        refuted == weight(rule, status, "refuted")
        sources == 1 + Cardinality(backends(rule, status))
    IN  [rule |-> rule, sources |-> sources, cap |-> SourceCap(sources),
         confidence |-> clamp(AlertMatchScore + corroborated - refuted \div 2, BaselineConfidence, SourceCap(sources)),
         contradicted |-> refuted > corroborated]

\* The order of the hypotheses.
RanksBefore(a, b) ==
    \/ ~a.contradicted /\ b.contradicted
    \/ /\ a.contradicted = b.contradicted
       /\ \/ a.confidence > b.confidence
          \/ a.confidence = b.confidence /\ a.sources > b.sources
          \/ /\ a.confidence = b.confidence /\ a.sources = b.sources
             /\ DefaultRules[a.rule].hypothesis < DefaultRules[b.rule].hypothesis

-----------------------------------------------------------------------------
(* The analysis.                                                           *)

diagnostics(service) == {[action |-> "collect_diagnostics", target |-> service]}

\* accepted: the actions for which the labels and the service of the alert yield
\* a target that the action catalog accepts; another candidate is dropped.
Render(action, match) ==
    {[action |-> a, target |-> match.service] : a \in {action} \cap match.accepted}

\* Mutant: the target comes from the earliest alert.
renderEarliest(alerts, rule) ==
    LET match == alerts[Min(matches(alerts, rule))]
        candidates == UNION {Render(a, match) : a \in DefaultRules[rule].remediations}
    IN  IF candidates = {} THEN diagnostics(match.service) ELSE candidates

\* The target comes from the first match on the service that was probed.
renderCandidates(alerts, rule) ==
    LET match == alerts[Min({i \in matches(alerts, rule) : alerts[i].service = primaryMatch(alerts, rule)})]
        candidates == UNION {Render(a, match) : a \in DefaultRules[rule].remediations}
    IN  IF candidates = {} THEN diagnostics(match.service) ELSE candidates

insufficientEvidence ==
    [rule |-> "none", scored |-> BaselineConfidence, confidence |-> BaselineConfidence, cap |-> 0, contradicted |-> FALSE,
     candidates |-> diagnostics(IncidentService)]

\* scored: the confidence before topology is considered.
scoreHypotheses(alerts, answers) ==
    LET scores == {scoreRule(r, answers[r]) : r \in DOMAIN answers}
        best == CHOOSE a \in scores : \A b \in scores \ {a} : RanksBefore(a, b)
    IN  IF scores = {} THEN insufficientEvidence
        ELSE [rule |-> best.rule, scored |-> best.confidence, confidence |-> best.confidence, cap |-> best.cap,
              contradicted |-> best.contradicted,
              candidates |-> IF best.contradicted THEN diagnostics(primaryMatch(alerts, best.rule))
                             ELSE renderCandidates(alerts, best.rule)]

\* GetIncidentTopology: the incident is on the root of the alerts it groups.
SuppressedAlertCount(alerts) == Cardinality({i \in DOMAIN alerts : alerts[i].service # IncidentService})
RootInferred(alerts) == alerts # <<>> /\ SuppressedAlertCount(alerts) = Len(alerts)

applyTopologyFallback(alerts, result) ==
    IF result.rule # "none" \/ SuppressedAlertCount(alerts) = 0 THEN result
    ELSE [result EXCEPT !.confidence = IF RootInferred(alerts) THEN 580 ELSE 720, !.cap = SourceCap(2)]

enrichWithTopology(alerts, result) ==
    IF SuppressedAlertCount(alerts) = 0 \/ RootInferred(alerts) \/ result.rule = "none" \/ result.contradicted
    THEN result
    ELSE [result EXCEPT !.confidence = clamp(@ + 30, BaselineConfidence, result.cap)]

-----------------------------------------------------------------------------
(* The inputs of an analysis grow alert by alert, then answer by answer.   *)

\* Until its backend answers with a sample a probe is unavailable; one without
\* data counts as little.
Unanswered(alerts) ==
    [r \in {selected(alerts[i]) : i \in Match(alerts)} |-> [i \in DOMAIN DefaultRules[r].probes |-> "unavailable"]]

NoAlerts == signals = <<>> /\ results = Unanswered(<<>>) /\ report = insufficientEvidence

analyze(alerts, answers) ==
    /\ signals' = alerts /\ results' = answers
    /\ \E scored \in {scoreHypotheses(alerts, answers)} :
          report' = enrichWithTopology(alerts, applyTopologyFallback(alerts, scored))

Observe(signal) ==
    /\ Len(signals) < MaxSignals /\ results = Unanswered(signals)
    /\ analyze(Append(signals, signal), Unanswered(Append(signals, signal)))

runOne(rule, i, status) ==
    /\ results[rule][i] = "unavailable"
    /\ analyze(signals, [results EXCEPT ![rule][i] = status])

Analysis ==
    \/ \E signal \in Signals : Observe(signal)
    \/ \E rule \in DOMAIN results : \E i \in DOMAIN results[rule], status \in {"corroborated", "refuted"} :
          runOne(rule, i, status)

-----------------------------------------------------------------------------
(* Properties.                                                             *)

\* "Argus never proposes a remediation for a hypothesis its backends disagree
\* with": what is proposed beyond diagnostics is for a service that was probed
\* and whose answers do not outweigh the hypothesis, and a confidence above 0.55
\* (0.80) has one (two) backends behind it that confirmed the cause and not just
\* a symptom, whatever the topology adds; without a rule it proposes diagnostics.
ReportSupported ==
    LET rule == report.rule
        acts == {c \in report.candidates : c.action # "collect_diagnostics"}
    IN  IF rule = "none" THEN acts = {} /\ report.confidence <= 720
        ELSE /\ acts # {} => weight(rule, results[rule], "refuted") <= weight(rule, results[rule], "corroborated")
             /\ \A c \in acts : c.target = primaryMatch(signals, rule)
             /\ report.confidence > 550 => backends(rule, results[rule]) # {}
             /\ report.confidence > 800 => backends(rule, results[rule]) = {"prometheus", "loki"}

\* Evidence counts the way it points, through the caps and the ranking of
\* competing hypotheses: an answer that corroborates a hypothesis lowers neither
\* the score reported nor the rank of that hypothesis, one that refutes it does
\* not make it the one reported, nor raises its confidence.  (What topology adds
\* is clipped by the cap of the hypothesis reported, so that a corroborated
\* symptom may cost 0.005 of the final confidence by bringing up another one.)
EvidenceCounts ==
    [][\A r \in DOMAIN results \cap DOMAIN results' : \A i \in DOMAIN results[r] :
          /\ results[r][i] # "corroborated" /\ results'[r][i] = "corroborated" =>
                /\ report'.scored >= report.scored
                /\ report.rule = r => report'.rule = r /\ report'.confidence >= report.confidence
          /\ results[r][i] # "refuted" /\ results'[r][i] = "refuted" /\ report'.rule = r =>
                report.rule = r /\ report'.confidence <= report.confidence]_<<signals, results, report>>

=============================================================================
