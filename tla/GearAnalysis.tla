------------------------------ MODULE GearAnalysis ------------------------------
(*****************************************************************************)
(* What the four gear engines write about a discovery, what the synthesis    *)
(* makes of it and what the mission director chooses: the pure part of       *)
(* layer1_orchestration/discovery.                                           *)
(*                                                                           *)
(* A perspective is kept as what later code looks at: its confidence in      *)
(* hundredths, which of the looked-for words its interpretation contains,    *)
(* how many actions it recommends, how many uncertainties it leaves open,    *)
(* whether it assesses the authorization and whether it expands the scope.   *)
(* The prose, the other impact fields, the opportunities and the risks only  *)
(* travel through.  Names of agents and managers contain none of the words.  *)
(*****************************************************************************)
EXTENDS Naturals, FiniteSets

Gears == {"scraping", "mining", "security", "evidence"}

\* The words the synthesis looks for in an interpretation, in lower case.
Words == {"structured", "catalog", "prohibited", "not automatically a vulnerability"}

(* What the engines read of a discovery: types, whether the materiality is   *)
(* high or critical, the number of evidence references, the words in the     *)
(* title, the source gear, and whether title and agent were given at all.    *)
Discoveries ==
  [types : SUBSET STRING, high : BOOLEAN, references : Nat, title : SUBSET Words,
   source : Gears, complete : BOOLEAN]

IsApi(d) == d.types \cap {"API_DISCOVERY", "STRUCTURED_CATALOG"} # {}

IfThen(condition, n) == IF condition THEN n ELSE 0

-----------------------------------------------------------------------------
(* The four engines.                                                         *)

ScrapingAnalysis(d) ==
  [confidence    |-> 75,
   words         |-> (IF IsApi(d) THEN {"structured"} ELSE {})
                       \cup (IF IsApi(d) \/ d.types \cap {"DATA_SOURCE", "ENDPOINT"} # {}
                             THEN d.title ELSE {}),
   actions       |-> 2 + IfThen(IsApi(d), 1) + IfThen(d.high, 1),
   open          |-> 2 + IfThen(IsApi(d), 1),
   authorization |-> TRUE,
   expands       |-> TRUE]

MiningAnalysis(d) ==
  [confidence    |-> 65,
   words         |-> (IF IsApi(d) THEN {"structured"} \cup d.title ELSE {})
                       \cup (IF "STRUCTURED_CATALOG" \in d.types \/ d.high
                             THEN {"structured", "catalog"} ELSE {}),
   actions       |-> 3 + IfThen(d.high, 1),
   open          |-> 1 + IfThen(~d.high, 1),
   authorization |-> TRUE,
   expands       |-> FALSE]

\* Its opening sentence, written whatever the discovery is, says "catalog".
SecurityAnalysis(d) ==
  [confidence    |-> 85,
   words         |-> {"catalog", "prohibited", "not automatically a vulnerability"},
   actions       |-> 2,
   open          |-> 1,
   authorization |-> TRUE,
   expands       |-> FALSE]

EvidenceAnalysis(d) ==
  [confidence    |-> IF d.references > 0 THEN 55 ELSE 30,
   words         |-> {},
   actions       |-> IfThen(d.references = 0, 1) + IfThen(d.references > 1, 1),
   open          |-> IfThen(d.source \notin {"scraping", "security"}, 1)
                       + IfThen(d.references < 2, 1) + IfThen(d.references = 0, 1),
   authorization |-> TRUE,
   expands       |-> FALSE]

\* GearEngineRegistry: the engine of each gear.
Analysis(gear, d) ==
  CASE gear = "scraping" -> ScrapingAnalysis(d)
    [] gear = "mining"   -> MiningAnalysis(d)
    [] gear = "security" -> SecurityAnalysis(d)
    [] gear = "evidence" -> EvidenceAnalysis(d)

-----------------------------------------------------------------------------
(* The synthesis of a list of perspectives, p[g] the one of gear g.          *)

Has(p, gears) == gears \subseteq DOMAIN p

Agreements(p) ==
  LET found ==
        (IF Cardinality({g \in DOMAIN p : p[g].confidence >= 50}) >= 3
         THEN {"confidence"} ELSE {})
        \cup (IF /\ Has(p, {"scraping", "mining"})
                 /\ "structured" \in p["scraping"].words \cap p["mining"].words
              THEN {"structured data"} ELSE {})
        \cup (IF /\ Has(p, {"security", "evidence"})
                 /\ "not automatically a vulnerability" \in p["security"].words
              THEN {"public access"} ELSE {})
  IN IF found = {} THEN {"further analysis"} ELSE found

\* Mutant: registered contradictions only when the engine finds none.
ContradictionsOrRegistered(p, registered) ==
  IF /\ Has(p, {"security", "scraping"})
     /\ "prohibited" \in p["security"].words /\ p["scraping"].actions > 0
  THEN {<<"TENSION", 0>>}
  ELSE {<<"REGISTERED", c>> : c \in registered}

\* The tensions the engine finds itself, and the registered contradictions.
Contradictions(p, registered) ==
  (IF /\ Has(p, {"security", "scraping"})
      /\ "prohibited" \in p["security"].words
      /\ p["scraping"].actions > 0
   THEN {<<"TENSION", 0>>} ELSE {})
  \cup (IF /\ Has(p, {"evidence", "mining"})
           /\ p["evidence"].confidence < 50 /\ p["mining"].confidence > 60
        THEN {<<"DIVERGENCE", 0>>} ELSE {})
  \cup {<<"REGISTERED", c>> : c \in registered}

Uncertainties(p) ==
  {u \in Gears \X (1 .. 4) : u[1] \in DOMAIN p /\ u[2] <= p[u[1]].open}

SafeOptions(p) ==
  (IF Has(p, {"scraping"}) THEN {"schema mapping", "pagination analysis"} ELSE {})
  \cup (IF Has(p, {"mining"}) THEN {"quality assessment"} ELSE {})
  \cup (IF Has(p, {"evidence"}) THEN {"evidence collection"} ELSE {})

BlockedOptions ==
  {"external testing", "scope expansion", "production testing", "unilateral disposition"}

NextPhases(p) ==
  {"CONSUME_IN_CURRENT_MISSION", "SCHEDULE_RECURRING_ACQUISITION"}
  \cup (IF \E g \in DOMAIN p : p[g].words \cap {"catalog", "structured"} # {}
        THEN {"STRUCTURED_CATALOG_INTELLIGENCE_QUALIFICATION"} ELSE {})

\* _synthesize_scope and _synthesize_authorization: is there anything to say?
ScopeExpands(p) == \E g \in DOMAIN p : p[g].expands
AuthorizationAssessed(p) == "security" \in DOMAIN p

SynthesisOf(p, registered) ==
  [agreements     |-> Agreements(p),
   contradictions |-> Contradictions(p, registered),
   uncertainties  |-> Uncertainties(p),
   expansion      |-> ScopeExpands(p),
   authorization  |-> AuthorizationAssessed(p),
   safe           |-> SafeOptions(p),
   blocked        |-> BlockedOptions,
   next           |-> NextPhases(p)]

-----------------------------------------------------------------------------
(* The mission director.                                                     *)

DecisionTypes ==
  {"CONSUME_IN_CURRENT_MISSION", "APPROVE_NEW_INTERNAL_PHASE",
   "REQUEST_ADDITIONAL_AUTHORIZATION", "DEFER_WITH_REASON", "REJECT_AS_LOW_VALUE",
   "REJECT_AS_INVALID", "BLOCK_BY_AUTHORIZATION", "CLOSE_AFTER_REVIEW"}

\* Mutant: contradictions defer whatever is recommended.
DirectorDefers(s) ==
  IF s.contradictions # {} THEN "DEFER_WITH_REASON" ELSE "APPROVE_NEW_INTERNAL_PHASE"

\* Contradictions defer only a synthesis that recommends nothing.
DirectorChooses(s) ==
  CASE s.next = {} /\ s.contradictions # {} -> "DEFER_WITH_REASON"
    [] s.next # {} -> "APPROVE_NEW_INTERNAL_PHASE"
    [] s.next = {} /\ s.contradictions = {} /\ s.uncertainties = {} -> "REJECT_AS_LOW_VALUE"
    [] OTHER -> "CONSUME_IN_CURRENT_MISSION"

================================================================================
