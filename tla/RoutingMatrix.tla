---------------------------- MODULE RoutingMatrix ----------------------------
(***************************************************************************)
(* layer1_orchestration/security/routing_matrix.py: from the engine that   *)
(* made a finding and the type of the finding, the rule that says which    *)
(* engine follows it up and with which action.                             *)
(***************************************************************************)
EXTENDS Integers, Sequences

Engines == {"scraping", "mining", "security"}

Rule(source, target, types, action, priority) ==
  [source |-> source, target |-> target, types |-> types,
   action |-> action, priority |-> priority]

Rules == <<
  Rule("scraping", "mining", {"FINDING", "OBSERVATION"}, "mine_discovered_source", 10),
  Rule("scraping", "security", {"FINDING", "ACCESS_CONDITION"}, "assess_discovered_endpoint", 10),
  Rule("mining", "scraping", {"FINDING", "DATA_SOURCE"}, "rescrape_for_mining", 10),
  Rule("mining", "security", {"FINDING", "TRUST_BOUNDARY"}, "investigate_mining_anomaly", 10),
  Rule("security", "scraping", {"FINDING", "OBSERVATION"}, "scrape_security_finding", 10),
  Rule("security", "mining", {"FINDING", "ACCESS_CONDITION"}, "mine_exposed_data", 10),
  Rule("scraping", "scraping", {"FINDING", "OBSERVATION"}, "deep_scrape_related", 20),
  Rule("mining", "mining", {"FINDING", "DATA_SOURCE"}, "deep_mine_related", 20),
  Rule("security", "security", {"FINDING", "ACCESS_CONDITION", "TRUST_BOUNDARY"},
       "deep_assess_related", 20) >>

NoRoute == [target |-> "none", action |-> "none"]

\* RoutingRule.matches
Matches(rule, type, source) == rule.source = source /\ type \in rule.types

Candidates(type, source) == {i \in DOMAIN Rules : Matches(Rules[i], type, source)}

\* Sorted by priority, rules of one priority in the order they are written.
Before(i, j) ==
  \/ Rules[i].priority < Rules[j].priority
  \/ Rules[i].priority = Rules[j].priority /\ i <= j

Best(ruleset) == CHOOSE i \in ruleset : \A j \in ruleset : Before(i, j)

Toward(ruleset, target) == {i \in ruleset : Rules[i].target = target}

\* Preferring one engine narrows the choice only if some rule leads there.
Resolve(type, source, preferred) ==
  LET all == Candidates(type, source)
      narrowed == Toward(all, preferred)
      rule == Rules[Best(IF narrowed = {} THEN all ELSE narrowed)]
  IN  IF all = {} THEN NoRoute ELSE [target |-> rule.target, action |-> rule.action]
==============================================================================
