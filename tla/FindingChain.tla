---------------------------- MODULE FindingChain -----------------------------
(***************************************************************************)
(* The governed finding chain: FindingChainCoordinator with the findings   *)
(* graph, the planner's hypotheses, the ten authorization gates, the       *)
(* routing matrix and the loop and budget checks before an engine runs.    *)
(*                                                                         *)
(* A hypothesis h names the observation that a dispatch of h leaves in the *)
(* graph, so a node is a finding or a hypothesis.  The coordinator has no  *)
(* locks and no await: each public call is one step.  Which lab check or   *)
(* data gate refuses, and what an engine answers, is the environment's     *)
(* choice.  Calls that only return an error, and the audit, event, stop    *)
(* and block logs, are left out.                                           *)
(***************************************************************************)
EXTENDS Integers, Sequences, SequencesExt, RoutingMatrix

CONSTANTS
  Findings, Hypotheses, Managers,
  Gear,         \* Gear[f]: the engine that registers finding f
  Parents,      \* Parents[h]: parent_finding_ids
  Planned,      \* hypotheses of the planner; callers add the others
  Asset,        \* Asset[h]: the asset h targets, as it is spelled
  Normal,       \* Normal[a]: what normalize_asset makes of spelling a
  Linkable,     \* edges that callers add to the graph
  Preferences,  \* target engines a context asks for
  DataFaults,   \* sets of data gates that refuse one request
  ChainBudget,  \* chain_budget_limit
  MaxRequests   \* bound: requests one dispatch reports

Node == Findings \cup Hypotheses

\* The gates that look only at the data of a request.
DataGates == {"evidence", "scope", "authorization", "safety", "supervisor", "budget", "minimization"}
Gates == DataGates \cup {"manager", "causation"}

ASSUME ChainConstants ==
  /\ Findings \cap Hypotheses = {}
  /\ Gear \in [Findings -> Engines]
  /\ Parents \in [Hypotheses -> Seq(Node)]
  /\ Planned \subseteq Hypotheses
  /\ \A h \in Planned : Len(Parents[h]) = 1
  /\ Linkable \subseteq Node \X Node
  /\ DataFaults \subseteq SUBSET DataGates
  /\ ChainBudget \in Nat \ {0} /\ MaxRequests \in Nat

Statuses == {"NONE", "PROPOSED", "SAFE_VALIDATION_AVAILABLE", "REQUIRES_ADDITIONAL_AUTHORIZATION",
             "APPROVED", "REJECTED", "BLOCKED_BY_SCOPE", "BLOCKED_BY_AUTHORIZATION",
             "VALIDATED", "NOT_SUPPORTED"}

\* What the planner and its safety gates make of a candidate.
PlannedStatuses == {"SAFE_VALIDATION_AVAILABLE", "REQUIRES_ADDITIONAL_AUTHORIZATION", "REJECTED",
                    "BLOCKED_BY_SCOPE", "BLOCKED_BY_AUTHORIZATION"}

VARIABLES
  nodes,      \* graph._nodes
  validated,  \* nodes whose validation_status is VALIDATED
  edges,      \* graph._edges as <<source, target>>
  status,     \* status[h]: its status, "NONE" while it is not in the graph
  reviewed,   \* reviewed[h]: reviewed_by
  approvals,  \* hypotheses that were given an approved decision
  refusing,   \* refusing[h]: the gates that refused the last request for h
              \* (history variable)
  visited,    \* graph._visited_work_set
  consumed,   \* _chain_budget_consumed
  log         \* the dispatches so far (history variable)

graph == <<nodes, validated, edges>>
verdicts == <<reviewed, approvals, refusing>>
effort == <<visited, consumed, log>>
vars == <<graph, status, verdicts, effort>>

Init ==
  /\ nodes = {} /\ validated = {} /\ edges = {}
  /\ status = [h \in Hypotheses |-> "NONE"]
  /\ reviewed = [h \in Hypotheses |-> {}]
  /\ approvals = {}
  /\ refusing = [h \in Hypotheses |-> {}]
  /\ visited = {} /\ consumed = 0 /\ log = <<>>

-----------------------------------------------------------------------------
(* The graph *)

\* register_finding
Register(f) ==
  /\ f \notin nodes
  /\ nodes' = nodes \cup {f}
  /\ UNCHANGED <<validated, edges, status, verdicts, effort>>

\* validate_finding
Validate(n) ==
  /\ n \in nodes
  /\ validated' = validated \cup {n}
  /\ UNCHANGED <<nodes, edges, status, verdicts, effort>>

\* FindingsGraph.add_edge
Link(n, m) ==
  /\ {n, m} \subseteq nodes
  /\ edges' = edges \cup {<<n, m>>}
  /\ UNCHANGED <<nodes, validated, status, verdicts, effort>>

\* The planner leaves out what the graph already has under the same title.
Drafts(n) == {h \in Planned : Parents[h] = <<n>> /\ status[h] = "NONE"}

\* generate_hypotheses
Propose(n) ==
  /\ n \in validated
  /\ \E draft \in [Drafts(n) -> PlannedStatuses] :
       status' = [h \in Hypotheses |-> IF h \in Drafts(n) THEN draft[h] ELSE status[h]]
  /\ UNCHANGED <<graph, verdicts, effort>>

\* FindingsGraph.add_hypothesis
AddHypothesis(h) ==
  /\ h \notin Planned /\ status[h] = "NONE"
  /\ status' = [status EXCEPT ![h] = "PROPOSED"]
  /\ UNCHANGED <<graph, verdicts, effort>>

-----------------------------------------------------------------------------
(* Authorization *)

ParentSet(h) == ToSet(Parents[h])
Missing(h) == ParentSet(h) \ nodes

\* _are_parents_connected: only edges between two parents count.
Connected(parents) ==
  \A part \in SUBSET parents \ {{}, parents} :
    \E p \in part, q \in parents \ part : {<<p, q>>, <<q, p>>} \cap edges # {}

\* _chain_causation_gate
Caused(h) == ParentSet(h) # {} /\ Missing(h) = {} /\ Connected(ParentSet(h))

\* An authorization with an approved_by marks the manager as a reviewer first.
Reviewers(h, manager, signed) == reviewed[h] \cup (IF signed THEN {manager} ELSE {})

RefusingGates(h, manager, signed, faults) ==
  faults \cup (IF ParentSet(h) = {} THEN {"evidence"} ELSE {})
         \cup (IF manager \in Reviewers(h, manager, signed) THEN {} ELSE {"manager"})
         \cup (IF Caused(h) THEN {} ELSE {"causation"})

\* Mutant: a refusal under no heading keeps the name of the decision's state.
RefusedStatusUnmapped(refused) ==
  IF "budget" \in refused \/ "scope" \in refused THEN "BLOCKED_BY_SCOPE" ELSE "DENIED"

\* The decision's state and its entry in status_map: of several gates that
\* refuse, the last that has a heading decides.
RefusedStatus(refused) ==
  IF "budget" \in refused THEN "BLOCKED_BY_SCOPE"
  ELSE IF {"manager", "supervisor"} \cap refused # {} THEN "REQUIRES_ADDITIONAL_AUTHORIZATION"
  ELSE IF "authorization" \in refused THEN "BLOCKED_BY_AUTHORIZATION"
  ELSE IF "scope" \in refused THEN "BLOCKED_BY_SCOPE"
  ELSE "REJECTED"

\* request_authorization, up to the pre-checks: a target outside the lab, a
\* stop condition, or the exception a parent outside the graph raises while
\* its confidence is read, end the call with the reviewer already written.
StopRequest(h, manager, signed) ==
  /\ status[h] # "NONE"
  /\ reviewed' = [reviewed EXCEPT ![h] = Reviewers(h, manager, signed)]
  /\ UNCHANGED <<graph, status, approvals, refusing, effort>>

\* request_authorization, the gates and the decision.
Decide(h, manager, signed, faults) ==
  LET refused == RefusingGates(h, manager, signed, faults) IN
  /\ status[h] # "NONE" /\ Missing(h) = {}
  /\ reviewed' = [reviewed EXCEPT ![h] = Reviewers(h, manager, signed)]
  /\ refusing' = [refusing EXCEPT ![h] = refused]
  /\ status' = [status EXCEPT ![h] = IF refused = {} THEN "APPROVED" ELSE RefusedStatus(refused)]
  /\ approvals' = IF refused = {} THEN approvals \cup {h} ELSE approvals
  /\ UNCHANGED <<graph, effort>>

-----------------------------------------------------------------------------
(* Execution *)

\* register_finding makes findings, _update_graph_from_result observations.
TypeOf(n) == IF n \in Findings THEN "FINDING" ELSE "OBSERVATION"
GearOf(n) == IF n \in Findings THEN Gear[n] ELSE "LAB_EXECUTOR"

\* The route starts at the first parent; one outside the graph has no engine.
Route(h, preferred) ==
  IF Parents[h] = <<>> \/ Head(Parents[h]) \notin nodes
  THEN NoRoute
  ELSE Resolve(TypeOf(Head(Parents[h])), GearOf(Head(Parents[h])), preferred)

\* Mutant: the asset goes into the identity as it is spelled.
WorkAsSpelled(h, preferred) ==
  LET route == Route(h, preferred)
  IN  [engine |-> route.target, asset |-> Asset[h], action |-> route.action]

\* make_work_identity
Work(h, preferred) ==
  LET route == Route(h, preferred)
  IN  [engine |-> route.target, asset |-> Normal[Asset[h]], action |-> route.action]

\* Mutant: the status of the hypothesis is not looked at.
ApprovedOnce(h) == approvals # {}

\* The decision must be approved, but nothing ties it to the hypothesis.
Approved(h) == approvals # {} /\ status[h] = "APPROVED"

\* Mutant: one dispatch more.
BudgetLeftOrSpent == consumed <= ChainBudget

BudgetLeft == consumed < ChainBudget

\* execute_in_lab, up to and including check_and_register_work.
MayDispatch(h, preferred) ==
  /\ Approved(h) /\ Route(h, preferred) # NoRoute
  /\ BudgetLeft
  /\ Work(h, preferred) \notin visited

RegisterWork(h, preferred) == visited' = visited \cup {Work(h, preferred)}
LogDispatch(h, preferred) == log' = Append(log, [hyp |-> h, work |-> Work(h, preferred)])

\* The guard stops the dispatch or no adapter exists: the work stays visited.
StopDispatch(h, preferred) ==
  /\ MayDispatch(h, preferred)
  /\ RegisterWork(h, preferred)
  /\ UNCHANGED <<graph, status, verdicts, consumed, log>>

\* The adapter raises: what it used is not charged.
DispatchRaises(h, preferred) ==
  /\ MayDispatch(h, preferred)
  /\ RegisterWork(h, preferred)
  /\ LogDispatch(h, preferred)
  /\ UNCHANGED <<graph, status, verdicts, consumed>>

DispatchFails(h, preferred, requests) ==
  /\ MayDispatch(h, preferred)
  /\ RegisterWork(h, preferred)
  /\ LogDispatch(h, preferred)
  /\ consumed' = consumed + requests
  /\ status' = [status EXCEPT ![h] = "NOT_SUPPORTED"]
  /\ UNCHANGED <<graph, verdicts>>

\* Mutant: only the first parent is linked.
FirstLinked(h) == {Head(Parents[h])} \cap nodes

\* Parents before the first that add_edge does not find.
Linked(h) ==
  {Parents[h][i] : i \in {k \in DOMAIN Parents[h] : \A j \in 1..k : Parents[h][j] \in nodes}}

\* _update_graph_from_result: if add_edge raises, the rest is not done.
DispatchSucceeds(h, preferred, requests) ==
  /\ MayDispatch(h, preferred)
  /\ RegisterWork(h, preferred)
  /\ LogDispatch(h, preferred)
  /\ consumed' = consumed + requests
  /\ nodes' = nodes \cup {h}
  /\ edges' = edges \cup {<<p, h>> : p \in Linked(h)}
  /\ status' = IF Linked(h) = ParentSet(h) THEN [status EXCEPT ![h] = "VALIDATED"] ELSE status
  /\ UNCHANGED <<validated, verdicts>>

Next ==
  \/ \E f \in Findings : Register(f)
  \/ \E n \in Node : Validate(n) \/ Propose(n)
  \/ \E link \in Linkable : Link(link[1], link[2])
  \/ \E h \in Hypotheses :
       \/ AddHypothesis(h)
       \/ \E manager \in Managers, signed \in BOOLEAN :
            \/ StopRequest(h, manager, signed)
            \/ \E faults \in DataFaults : Decide(h, manager, signed, faults)
       \/ \E preferred \in Preferences :
            \/ StopDispatch(h, preferred)
            \/ DispatchRaises(h, preferred)
            \/ \E requests \in 0..MaxRequests :
                 \/ DispatchFails(h, preferred, requests)
                 \/ DispatchSucceeds(h, preferred, requests)

Spec == Init /\ [][Next]_vars

-----------------------------------------------------------------------------
(* Properties *)

Normalized == {Normal[Asset[h]] : h \in Hypotheses}
Works == [engine : Engines, asset : Normalized, action : {Rules[i].action : i \in DOMAIN Rules}]
MaxConsumed == ChainBudget - 1 + MaxRequests

\* The types of the coordinator's and the graph's fields.
TypeOK ==
  /\ nodes \subseteq Node /\ validated \subseteq nodes /\ edges \subseteq nodes \X nodes
  /\ status \in [Hypotheses -> Statuses]
  /\ reviewed \in [Hypotheses -> SUBSET Managers]
  /\ approvals \subseteq Hypotheses
  /\ refusing \in [Hypotheses -> SUBSET Gates]
  /\ visited \subseteq Works /\ consumed \in Nat
  /\ log \in Seq([hyp : Hypotheses, work : Works])

\* No engine is sent twice to do one action on one asset, whichever hypotheses
\* ask for it, however the asset is spelled and however the first try ended.
SameEffort(d, e) ==
  /\ d.work.engine = e.work.engine /\ d.work.action = e.work.action
  /\ Normal[Asset[d.hyp]] = Normal[Asset[e.hyp]]

OneDispatchPerWork == \A i, j \in DOMAIN log : SameEffort(log[i], log[j]) => i = j

\* The chain budget is checked before a dispatch and charged after it, so it
\* is overrun by less than one dispatch.
OverrunBounded == consumed <= MaxConsumed

\* An engine runs for a hypothesis only if no gate refused its last request, a
\* manager reviewed it and its parents form a chain: an approval is not used
\* once the gates have refused a later request, with whichever decision the
\* caller comes.  A request that ends before the gates takes nothing back.
DispatchIsAuthorized ==
  [][log' # log => LET h == Last(log').hyp
                   IN  refusing[h] = {} /\ reviewed[h] # {} /\ Caused(h)]_vars

\* The update of the graph after a dispatch never stops half-way: each
\* observation has an edge from every parent of its hypothesis.
ObservationIsLinked ==
  \A h \in Hypotheses \cap nodes : \A p \in ParentSet(h) : <<p, h>> \in edges

\* What a dispatch observed never starts another dispatch, so the coordinator
\* makes no chain longer than one engine step.  max_cascade_depth only stops a
\* caller whose context states a cascade_depth above it (lines 493-512), with
\* no change of state but the record of the stop; nothing counts that depth.
CascadeEnds == \A i \in DOMAIN log : Head(Parents[log[i].hyp]) \in Findings

=============================================================================
