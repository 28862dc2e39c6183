------------------------- MODULE FindingChainProofs --------------------------
(***************************************************************************)
(* Proofs about RoutingMatrix and FindingChain, for any findings,          *)
(* hypotheses, parents, spellings, gate faults, engines' answers and       *)
(* budget.                                                                 *)
(***************************************************************************)
EXTENDS FindingChain, TLAPS

-----------------------------------------------------------------------------
(* The routing matrix *)

LEMMA RulesByRow ==
  /\ DOMAIN Rules = 1..9
  /\ \A i \in 1..9 :
       /\ Rules[i].source = <<"scraping", "scraping", "mining", "mining", "security", "security",
                              "scraping", "mining", "security">>[i]
       /\ Rules[i].target = <<"mining", "security", "scraping", "security", "scraping", "mining",
                              "scraping", "mining", "security">>[i]
       /\ Rules[i].priority = IF i <= 6 THEN 10 ELSE 20
       /\ "FINDING" \in Rules[i].types
       /\ Rules[i].target \in Engines /\ Rules[i].source \in Engines
<1>1. DOMAIN Rules = 1..9
  BY DEF Rules
<1>2. ASSUME NEW i \in 1..9
      PROVE  /\ Rules[i].source = <<"scraping", "scraping", "mining", "mining", "security",
                                    "security", "scraping", "mining", "security">>[i]
             /\ Rules[i].target = <<"mining", "security", "scraping", "security", "scraping",
                                    "mining", "scraping", "mining", "security">>[i]
             /\ Rules[i].priority = IF i <= 6 THEN 10 ELSE 20
             /\ "FINDING" \in Rules[i].types
             /\ Rules[i].target \in Engines /\ Rules[i].source \in Engines
  <2>1. CASE i \in {1, 2, 3}
    BY <2>1 DEF Rules, Rule, Engines
  <2>2. CASE i \in {4, 5, 6}
    BY <2>2 DEF Rules, Rule, Engines
  <2>3. CASE i \in {7, 8, 9}
    BY <2>3 DEF Rules, Rule, Engines
  <2>. QED BY <2>1, <2>2, <2>3
<1>. QED BY <1>1, <1>2

\* The rules are written in the order the resolver sorts them into.
LEMMA BeforeIsWrittenOrder ==
  \A i, j \in 1..9 : Before(i, j) <=> i <= j
  BY RulesByRow DEF Before

LEMMA BestIsIn ==
  ASSUME NEW C \in SUBSET (1..9), C # {}
  PROVE  Best(C) \in C
<1>1. \E i \in C : \A j \in C : i <= j
  <2>. SUFFICES ASSUME \A i \in C : \E j \in C : j < i
                PROVE  FALSE
    OBVIOUS
  <2>1. 1 \notin C OBVIOUS
  <2>2. 2 \notin C BY <2>1
  <2>3. 3 \notin C BY <2>1, <2>2
  <2>4. 4 \notin C BY <2>1, <2>2, <2>3
  <2>5. 5 \notin C BY <2>1, <2>2, <2>3, <2>4
  <2>6. 6 \notin C BY <2>1, <2>2, <2>3, <2>4, <2>5
  <2>7. 7 \notin C BY <2>1, <2>2, <2>3, <2>4, <2>5, <2>6
  <2>8. 8 \notin C BY <2>1, <2>2, <2>3, <2>4, <2>5, <2>6, <2>7
  <2>9. 9 \notin C BY <2>1, <2>2, <2>3, <2>4, <2>5, <2>6, <2>7, <2>8
  <2>10. PICK k \in C : k \in 1..9
    OBVIOUS
  <2>11. k \in {1, 2, 3, 4, 5, 6, 7, 8, 9}
    BY <2>10
  <2>. QED BY <2>1, <2>2, <2>3, <2>4, <2>5, <2>6, <2>7, <2>8, <2>9, <2>10, <2>11
<1>2. \E i \in C : \A j \in C : Before(i, j)
  BY <1>1, BeforeIsWrittenOrder
<1>. QED BY <1>2 DEF Best

\* Nine directions: a finding of any engine reaches any engine that the caller
\* prefers, its own included (RoutingResolver.resolve).
THEOREM EveryDirectionIsHonoured ==
  ASSUME NEW source \in Engines, NEW preferred \in Engines
  PROVE  Resolve("FINDING", source, preferred).target = preferred
<1>. DEFINE all == Candidates("FINDING", source)
            narrowed == Toward(all, preferred)
<1>1. all \in SUBSET (1..9) /\ narrowed \in SUBSET all
  BY RulesByRow DEF Candidates, Toward
<1>2. \E i \in 1..9 : Rules[i].source = source /\ Rules[i].target = preferred
  BY RulesByRow DEF Engines
<1>3. narrowed # {} /\ all # {}
  BY <1>2, RulesByRow DEF Candidates, Toward, Matches
<1>4. Best(narrowed) \in narrowed
  BY <1>1, <1>3, BestIsIn
<1>5. Rules[Best(narrowed)].target = preferred
  BY <1>4 DEF Toward
<1>. QED BY <1>3, <1>5 DEF Resolve

\* A route leads from a rule's source to a rule's target and action.
LEMMA RouteHasRule ==
  ASSUME NEW type, NEW source, NEW preferred,
         Resolve(type, source, preferred) # NoRoute
  PROVE  \E i \in 1..9 : /\ Rules[i].source = source
                         /\ Resolve(type, source, preferred)
                              = [target |-> Rules[i].target, action |-> Rules[i].action]
<1>. DEFINE all == Candidates(type, source)
            narrowed == Toward(all, preferred)
            chosen == IF narrowed = {} THEN all ELSE narrowed
<1>1. all # {}
  BY DEF Resolve
<1>2. chosen \in SUBSET all /\ all \in SUBSET (1..9) /\ chosen # {}
  BY <1>1, RulesByRow DEF Candidates, Toward
<1>3. Best(chosen) \in chosen
  BY <1>2, BestIsIn
<1>4. Rules[Best(chosen)].source = source
  BY <1>2, <1>3 DEF Candidates, Matches
<1>5. Resolve(type, source, preferred)
        = [target |-> Rules[Best(chosen)].target, action |-> Rules[Best(chosen)].action]
  BY <1>1 DEF Resolve
<1>. QED BY <1>2, <1>3, <1>4, <1>5
-----------------------------------------------------------------------------
(* The chain *)

\* An approved hypothesis passed every gate, and what the gates saw of the
\* graph still holds, because nodes and edges are only added.
ApprovalStands ==
  \A h \in Hypotheses : status[h] = "APPROVED" =>
    refusing[h] = {} /\ reviewed[h] # {} /\ Caused(h)

\* What the log says of one dispatch.
LogFits ==
  \A i \in DOMAIN log :
    /\ log[i].work \in visited
    /\ log[i].work.asset = Normal[Asset[log[i].hyp]]
    /\ Head(Parents[log[i].hyp]) \in Findings

LogIsSet == \A i, j \in DOMAIN log : log[i].work = log[j].work => i = j

IInv ==
  /\ TypeOK
  /\ ApprovalStands
  /\ LogFits
  /\ LogIsSet
  /\ ObservationIsLinked
  /\ OverrunBounded

LEMMA DispatchedWork ==
  ASSUME NEW h \in Hypotheses, NEW preferred, MayDispatch(h, preferred)
  PROVE  /\ Work(h, preferred) \in Works
         /\ Work(h, preferred).asset = Normal[Asset[h]]
         /\ Head(Parents[h]) \in Findings
         /\ Work(h, preferred) \notin visited
<1>. DEFINE first == Head(Parents[h])
            route == Resolve(TypeOf(first), GearOf(first), preferred)
<1>1. Route(h, preferred) = route /\ route # NoRoute
  BY DEF MayDispatch, Route
<1>2. PICK i \in 1..9 : /\ Rules[i].source = GearOf(first)
                        /\ route = [target |-> Rules[i].target, action |-> Rules[i].action]
  BY <1>1, RouteHasRule
<1>3. Rules[i].source \in Engines /\ Rules[i].target \in Engines /\ i \in DOMAIN Rules
  BY RulesByRow
<1>4. "LAB_EXECUTOR" \notin Engines
  BY DEF Engines
<1>5. first \in Findings
  BY <1>2, <1>3, <1>4 DEF GearOf
<1>6. Work(h, preferred) = [engine |-> Rules[i].target, asset |-> Normal[Asset[h]],
                            action |-> Rules[i].action]
  BY <1>1, <1>2 DEF Work
<1>7. Work(h, preferred) \in Works
  BY <1>3, <1>6 DEF Works, Normalized
<1>. QED BY <1>5, <1>6, <1>7 DEF MayDispatch

\* Chains of edges are not broken by more nodes and edges.
LEMMA CausedGrows ==
  ASSUME NEW h \in Hypotheses, Caused(h), nodes \subseteq nodes', edges \subseteq edges'
  PROVE  Caused(h)'
<1>1. Missing(h)' = {}
  BY DEF Caused, Missing, ParentSet
<1>2. Connected(ParentSet(h))'
  BY DEF Caused, Connected, ParentSet
<1>. QED BY <1>1, <1>2 DEF Caused, ParentSet

LEMMA InitInv == Init => IInv
  BY ChainConstants DEF Init, IInv, TypeOK, ApprovalStands, LogFits, LogIsSet,
     ObservationIsLinked, OverrunBounded, MaxConsumed, Statuses

\* Writing down one more dispatch.
LEMMA LogGrows ==
  ASSUME IInv, NEW h \in Hypotheses, NEW preferred, MayDispatch(h, preferred),
         RegisterWork(h, preferred), LogDispatch(h, preferred)
  PROVE  /\ visited' \subseteq Works
         /\ log' \in Seq([hyp : Hypotheses, work : Works])
         /\ LogFits' /\ LogIsSet'
<1>. DEFINE work == Work(h, preferred)
            entry == [hyp |-> h, work |-> work]
<1>1. work \in Works /\ work \notin visited /\ entry \in [hyp : Hypotheses, work : Works]
  BY DispatchedWork
<1>2. work.asset = Normal[Asset[h]] /\ Head(Parents[h]) \in Findings
  BY DispatchedWork
<1>3. log \in Seq([hyp : Hypotheses, work : Works]) /\ visited \subseteq Works
  BY DEF IInv, TypeOK
<1>4. log' = Append(log, entry) /\ visited' = visited \cup {work}
  BY DEF LogDispatch, RegisterWork
<1>5. entry.hyp = h /\ entry.work = work
  OBVIOUS
<1>. HIDE DEF work, entry
<1>6. /\ DOMAIN log' = 1..(Len(log) + 1)
      /\ \A i \in DOMAIN log : log'[i] = log[i]
      /\ log'[Len(log) + 1] = entry
      /\ DOMAIN log = 1..Len(log) /\ Len(log) \in Nat
  BY <1>1, <1>3, <1>4
<1>7. LogFits'
  <2>. SUFFICES ASSUME NEW i \in DOMAIN log'
                PROVE  /\ log'[i].work \in visited'
                       /\ log'[i].work.asset = Normal[Asset[log'[i].hyp]]
                       /\ Head(Parents[log'[i].hyp]) \in Findings
    BY DEF LogFits
  <2>1. CASE i \in DOMAIN log
    BY <1>4, <1>6, <2>1 DEF IInv, LogFits
  <2>2. CASE i = Len(log) + 1
    BY <1>2, <1>4, <1>5, <1>6, <2>2
  <2>. QED BY <1>6, <2>1, <2>2
<1>8. LogIsSet'
  <2>1. \A i \in DOMAIN log : log[i].work # work
    BY <1>1 DEF IInv, LogFits
  <2>. QED BY <1>5, <1>6, <2>1 DEF IInv, LogIsSet
<1>. QED BY <1>1, <1>3, <1>4, <1>6, <1>7, <1>8

\* Steps that approve nothing and take nothing away leave approvals standing.
LEMMA ApprovalsKept ==
  ASSUME ApprovalStands, nodes \subseteq nodes', edges \subseteq edges', refusing' = refusing,
         \A h \in Hypotheses : reviewed[h] \subseteq reviewed'[h],
         \A h \in Hypotheses : status'[h] = "APPROVED" => status[h] = "APPROVED"
  PROVE  ApprovalStands'
<1>. SUFFICES ASSUME NEW h \in Hypotheses, status'[h] = "APPROVED"
              PROVE  refusing'[h] = {} /\ reviewed'[h] # {} /\ Caused(h)'
  BY DEF ApprovalStands
<1>1. refusing[h] = {} /\ reviewed[h] # {} /\ Caused(h)
  BY DEF ApprovalStands
<1>. QED BY <1>1, CausedGrows

LEMMA EffortKept ==
  ASSUME LogFits, LogIsSet, OverrunBounded, UNCHANGED effort
  PROVE  LogFits' /\ LogIsSet' /\ OverrunBounded'
  BY DEF LogFits, LogIsSet, OverrunBounded, MaxConsumed, effort

LEMMA GraphCallInv ==
  ASSUME IInv,
         \/ \E f \in Findings : Register(f)
         \/ \E n \in Node : Validate(n) \/ Propose(n)
         \/ \E link \in Linkable : Link(link[1], link[2])
         \/ \E h \in Hypotheses : AddHypothesis(h)
  PROVE  IInv'
<1>1. CASE \E f \in Findings : Register(f)
  <2>. PICK f \in Findings : Register(f)
    BY <1>1
  <2>1. TypeOK'
    BY DEF IInv, TypeOK, Register, verdicts, effort, Node
  <2>2. ApprovalStands'
    BY ApprovalsKept DEF IInv, Register, verdicts
  <2>3. LogFits' /\ LogIsSet' /\ OverrunBounded'
    BY EffortKept DEF IInv, Register
  <2>4. ObservationIsLinked'
    BY ChainConstants DEF IInv, ObservationIsLinked, Register, ParentSet
  <2>. QED BY <2>1, <2>2, <2>3, <2>4 DEF IInv
<1>2. CASE \E n \in Node : Validate(n)
  <2>. PICK n \in Node : Validate(n)
    BY <1>2
  <2>1. TypeOK'
    BY DEF IInv, TypeOK, Validate, verdicts, effort
  <2>2. ApprovalStands'
    BY ApprovalsKept DEF IInv, Validate, verdicts
  <2>3. LogFits' /\ LogIsSet' /\ OverrunBounded'
    BY EffortKept DEF IInv, Validate
  <2>4. ObservationIsLinked'
    BY DEF IInv, ObservationIsLinked, Validate, ParentSet
  <2>. QED BY <2>1, <2>2, <2>3, <2>4 DEF IInv
<1>3. CASE \E n \in Node : Propose(n)
  <2>. PICK n \in Node : Propose(n)
    BY <1>3
  <2>. PICK draft \in [Drafts(n) -> PlannedStatuses] :
         status' = [h \in Hypotheses |-> IF h \in Drafts(n) THEN draft[h] ELSE status[h]]
    BY DEF Propose
  <2>1. TypeOK'
    BY DEF IInv, TypeOK, Propose, graph, verdicts, effort, Statuses, PlannedStatuses
  <2>2. \A h \in Hypotheses : status'[h] = "APPROVED" => status[h] = "APPROVED"
    BY DEF PlannedStatuses
  <2>3. ApprovalStands'
    BY <2>2, ApprovalsKept DEF IInv, Propose, graph, verdicts
  <2>4. LogFits' /\ LogIsSet' /\ OverrunBounded'
    BY EffortKept DEF IInv, Propose
  <2>5. ObservationIsLinked'
    BY DEF IInv, ObservationIsLinked, Propose, graph, ParentSet
  <2>. QED BY <2>1, <2>3, <2>4, <2>5 DEF IInv
<1>4. CASE \E link \in Linkable : Link(link[1], link[2])
  <2>. PICK link \in Linkable : Link(link[1], link[2])
    BY <1>4
  <2>1. TypeOK'
    BY DEF IInv, TypeOK, Link, verdicts, effort
  <2>2. ApprovalStands'
    BY ApprovalsKept DEF IInv, Link, verdicts
  <2>3. LogFits' /\ LogIsSet' /\ OverrunBounded'
    BY EffortKept DEF IInv, Link
  <2>4. ObservationIsLinked'
    BY DEF IInv, ObservationIsLinked, Link, ParentSet
  <2>. QED BY <2>1, <2>2, <2>3, <2>4 DEF IInv
<1>5. CASE \E h \in Hypotheses : AddHypothesis(h)
  <2>. PICK h \in Hypotheses : AddHypothesis(h)
    BY <1>5
  <2>1. TypeOK'
    BY DEF IInv, TypeOK, AddHypothesis, graph, verdicts, effort, Statuses
  <2>2. \A k \in Hypotheses : status'[k] = "APPROVED" => status[k] = "APPROVED"
    BY DEF IInv, TypeOK, AddHypothesis
  <2>3. ApprovalStands'
    BY <2>2, ApprovalsKept DEF IInv, AddHypothesis, graph, verdicts
  <2>4. LogFits' /\ LogIsSet' /\ OverrunBounded'
    BY EffortKept DEF IInv, AddHypothesis
  <2>5. ObservationIsLinked'
    BY DEF IInv, ObservationIsLinked, AddHypothesis, graph, ParentSet
  <2>. QED BY <2>1, <2>3, <2>4, <2>5 DEF IInv
<1>. QED BY <1>1, <1>2, <1>3, <1>4, <1>5

\* A refusal leaves a hypothesis in a status that is not APPROVED.
LEMMA RefusalIsFiled ==
  ASSUME NEW refused
  PROVE  RefusedStatus(refused) \in Statuses \ {"APPROVED"}
  BY DEF RefusedStatus, Statuses


LEMMA RefusingGatesAreGates ==
  ASSUME NEW h \in Hypotheses, NEW manager \in Managers, NEW signed \in BOOLEAN,
         NEW faults \in DataFaults
  PROVE  RefusingGates(h, manager, signed, faults) \subseteq Gates
  BY ChainConstants DEF RefusingGates, Gates, DataGates

LEMMA AuthorizationInv ==
  ASSUME IInv, NEW h \in Hypotheses, NEW manager \in Managers, NEW signed \in BOOLEAN,
         \/ StopRequest(h, manager, signed)
         \/ \E faults \in DataFaults : Decide(h, manager, signed, faults)
  PROVE  IInv'
<1>1. /\ reviewed \in [Hypotheses -> SUBSET Managers]
      /\ Reviewers(h, manager, signed) \in SUBSET Managers
      /\ reviewed[h] \subseteq Reviewers(h, manager, signed)
  BY DEF IInv, TypeOK, Reviewers
<1>2. /\ reviewed' \in [Hypotheses -> SUBSET Managers]
      /\ \A k \in Hypotheses : reviewed[k] \subseteq reviewed'[k]
      /\ reviewed'[h] = Reviewers(h, manager, signed)
  BY <1>1 DEF StopRequest, Decide
<1>3. UNCHANGED <<graph, effort>>
  BY DEF StopRequest, Decide
<1>4. LogFits' /\ LogIsSet' /\ OverrunBounded'
  BY <1>3, EffortKept DEF IInv
<1>5. ObservationIsLinked'
  BY <1>3 DEF IInv, ObservationIsLinked, graph, ParentSet
<1>6. CASE StopRequest(h, manager, signed)
  <2>1. TypeOK'
    BY <1>2, <1>3, <1>6 DEF IInv, TypeOK, StopRequest, graph, effort
  <2>2. ApprovalStands'
    BY <1>2, <1>3, <1>6, ApprovalsKept DEF IInv, StopRequest, graph
  <2>. QED BY <1>4, <1>5, <2>1, <2>2 DEF IInv
<1>7. ASSUME NEW faults \in DataFaults, Decide(h, manager, signed, faults)
      PROVE  IInv'
  <2>. DEFINE refused == RefusingGates(h, manager, signed, faults)
  <2>1. refused \in SUBSET Gates /\ RefusedStatus(refused) \in Statuses \ {"APPROVED"}
    BY RefusingGatesAreGates, RefusalIsFiled
  <2>2. /\ refusing' = [refusing EXCEPT ![h] = refused]
        /\ status' = [status EXCEPT ![h] = IF refused = {} THEN "APPROVED"
                                           ELSE RefusedStatus(refused)]
        /\ approvals' = IF refused = {} THEN approvals \cup {h} ELSE approvals
    BY <1>7 DEF Decide
  <2>3. refused = {} => Caused(h) /\ manager \in Reviewers(h, manager, signed)
    BY DEF RefusingGates
  <2>. HIDE DEF refused
  <2>4. TypeOK'
    BY <1>2, <1>3, <2>1, <2>2 DEF IInv, TypeOK, graph, effort, Statuses
  <2>5. ApprovalStands'
    <3>. SUFFICES ASSUME NEW k \in Hypotheses, status'[k] = "APPROVED"
                  PROVE  refusing'[k] = {} /\ reviewed'[k] # {} /\ Caused(k)'
      BY DEF ApprovalStands
    <3>1. CASE k = h
      <4>1. refused = {}
        BY <2>1, <2>2, <3>1 DEF IInv, TypeOK
      <4>2. Caused(h)'
        BY <1>3, <2>3, <4>1, CausedGrows DEF graph
      <4>3. refusing'[h] = {}
        BY <2>2, <4>1 DEF IInv, TypeOK
      <4>. QED BY <1>2, <2>3, <3>1, <4>1, <4>2, <4>3
    <3>2. CASE k # h
      <4>1. status[k] = "APPROVED" /\ refusing'[k] = refusing[k]
        BY <2>2, <3>2 DEF IInv, TypeOK
      <4>2. refusing[k] = {} /\ reviewed[k] # {} /\ Caused(k)
        BY <4>1 DEF IInv, ApprovalStands
      <4>. QED BY <1>2, <1>3, <4>1, <4>2, CausedGrows DEF graph
    <3>. QED BY <3>1, <3>2
  <2>. QED BY <1>4, <1>5, <2>4, <2>5 DEF IInv
<1>. QED BY <1>6, <1>7

\* The gates saw every parent in the graph, so add_edge finds them all.
LEMMA ApprovedIsLinked ==
  ASSUME IInv, NEW h \in Hypotheses, status[h] = "APPROVED"
  PROVE  Linked(h) = ParentSet(h) /\ ParentSet(h) \subseteq nodes
<1>1. ParentSet(h) \subseteq nodes
  BY DEF IInv, ApprovalStands, Caused, Missing
<1>2. Parents[h] \in Seq(Node)
  BY ChainConstants
<1>3. ParentSet(h) = {Parents[h][i] : i \in DOMAIN Parents[h]}
  BY DEF ParentSet, ToSet
<1>4. \A i \in DOMAIN Parents[h] : \A j \in 1..i : j \in DOMAIN Parents[h]
  BY <1>2
<1>. QED BY <1>1, <1>3, <1>4 DEF Linked

LEMMA DispatchInv ==
  ASSUME IInv, NEW h \in Hypotheses, NEW preferred \in Preferences,
         \/ StopDispatch(h, preferred)
         \/ DispatchRaises(h, preferred)
         \/ \E requests \in 0..MaxRequests :
              \/ DispatchFails(h, preferred, requests)
              \/ DispatchSucceeds(h, preferred, requests)
  PROVE  IInv'
<1>1. MayDispatch(h, preferred) /\ RegisterWork(h, preferred) /\ UNCHANGED verdicts
  BY DEF StopDispatch, DispatchRaises, DispatchFails, DispatchSucceeds
<1>2. status[h] = "APPROVED" /\ consumed < ChainBudget
  BY <1>1 DEF MayDispatch, Approved, BudgetLeft
<1>3. CASE StopDispatch(h, preferred)
  <2>1. visited' \subseteq Works /\ visited \subseteq visited'
    BY <1>1, DispatchedWork DEF IInv, TypeOK, RegisterWork
  <2>2. TypeOK'
    BY <1>3, <2>1 DEF IInv, TypeOK, StopDispatch, graph, verdicts
  <2>3. ApprovalStands'
    BY <1>3, ApprovalsKept DEF IInv, StopDispatch, graph, verdicts
  <2>4. LogFits' /\ LogIsSet' /\ OverrunBounded' /\ ObservationIsLinked'
    BY <1>3, <2>1 DEF IInv, LogFits, LogIsSet, OverrunBounded, MaxConsumed,
                      ObservationIsLinked, ParentSet, StopDispatch, graph
  <2>. QED BY <2>2, <2>3, <2>4 DEF IInv
<1>4. CASE LogDispatch(h, preferred) /\ UNCHANGED <<graph, status, consumed>>
  <2>1. /\ visited' \subseteq Works /\ LogFits' /\ LogIsSet'
        /\ log' \in Seq([hyp : Hypotheses, work : Works])
    BY <1>1, <1>4, LogGrows
  <2>2. TypeOK'
    BY <1>1, <1>4, <2>1 DEF IInv, TypeOK, graph, verdicts
  <2>3. ApprovalStands'
    BY <1>1, <1>4, ApprovalsKept DEF IInv, graph, verdicts
  <2>4. OverrunBounded' /\ ObservationIsLinked'
    BY <1>4 DEF IInv, OverrunBounded, MaxConsumed, ObservationIsLinked, ParentSet, graph
  <2>. QED BY <2>1, <2>2, <2>3, <2>4 DEF IInv
<1>5. ASSUME NEW requests \in 0..MaxRequests, LogDispatch(h, preferred),
             consumed' = consumed + requests
      PROVE  /\ visited' \subseteq Works /\ LogFits' /\ LogIsSet'
             /\ log' \in Seq([hyp : Hypotheses, work : Works])
             /\ consumed' \in Nat /\ OverrunBounded'
  <2>1. consumed' \in Nat /\ consumed' <= ChainBudget - 1 + MaxRequests
    BY <1>2, <1>5, ChainConstants DEF IInv, TypeOK
  <2>2. OverrunBounded'
    BY <2>1 DEF OverrunBounded, MaxConsumed
  <2>. QED BY <1>1, <1>5, <2>1, <2>2, LogGrows
<1>6. ASSUME NEW requests \in 0..MaxRequests, DispatchFails(h, preferred, requests)
      PROVE  IInv'
  <2>1. /\ visited' \subseteq Works /\ LogFits' /\ LogIsSet'
        /\ log' \in Seq([hyp : Hypotheses, work : Works])
        /\ consumed' \in Nat /\ OverrunBounded'
    BY <1>5, <1>6 DEF DispatchFails
  <2>2. TypeOK'
    BY <1>1, <1>6, <2>1 DEF IInv, TypeOK, DispatchFails, graph, verdicts, Statuses
  <2>3. \A k \in Hypotheses : status'[k] = "APPROVED" => status[k] = "APPROVED"
    BY <1>6 DEF IInv, TypeOK, DispatchFails
  <2>4. ApprovalStands'
    BY <1>6, <2>3, ApprovalsKept DEF IInv, DispatchFails, graph, verdicts
  <2>5. ObservationIsLinked'
    BY <1>6 DEF IInv, ObservationIsLinked, ParentSet, DispatchFails, graph
  <2>. QED BY <2>1, <2>2, <2>4, <2>5 DEF IInv
<1>7. ASSUME NEW requests \in 0..MaxRequests, DispatchSucceeds(h, preferred, requests)
      PROVE  IInv'
  <2>1. /\ visited' \subseteq Works /\ LogFits' /\ LogIsSet'
        /\ log' \in Seq([hyp : Hypotheses, work : Works])
        /\ consumed' \in Nat /\ OverrunBounded'
    BY <1>5, <1>7 DEF DispatchSucceeds
  <2>2. /\ nodes' = nodes \cup {h}
        /\ edges' = edges \cup {<<p, h>> : p \in ParentSet(h)}
        /\ status' = [status EXCEPT ![h] = "VALIDATED"]
        /\ ParentSet(h) \subseteq nodes
    BY <1>2, <1>7, ApprovedIsLinked DEF DispatchSucceeds
  <2>3. TypeOK'
    BY <1>1, <1>7, <2>1, <2>2 DEF IInv, TypeOK, DispatchSucceeds, verdicts, Statuses, Node
  <2>4. \A k \in Hypotheses : status'[k] = "APPROVED" => status[k] = "APPROVED"
    BY <2>2 DEF IInv, TypeOK
  <2>5. ApprovalStands'
    BY <1>1, <2>2, <2>4, ApprovalsKept DEF IInv, verdicts
  <2>6. ObservationIsLinked'
    BY <2>2 DEF IInv, ObservationIsLinked, ParentSet
  <2>. QED BY <2>1, <2>3, <2>5, <2>6 DEF IInv
<1>. QED BY <1>1, <1>3, <1>4, <1>6, <1>7 DEF DispatchRaises

LEMMA StepInv == IInv /\ [Next]_vars => IInv'
<1>. SUFFICES ASSUME IInv, [Next]_vars PROVE IInv'
  OBVIOUS
<1>1. CASE UNCHANGED vars
  BY <1>1 DEF vars, graph, verdicts, effort, IInv, TypeOK, ApprovalStands, LogFits, LogIsSet,
     ObservationIsLinked, OverrunBounded, MaxConsumed, ParentSet, Caused, Missing, Connected
<1>2. CASE Next
  BY <1>2, GraphCallInv, AuthorizationInv, DispatchInv DEF Next
<1>. QED BY <1>1, <1>2

LEMMA AlwaysInv == Spec => []IInv
  BY InitInv, StepInv, PTL DEF Spec

-----------------------------------------------------------------------------
(* The results *)

\* The coordinator's and the graph's fields keep their types.
THEOREM ChainTypeOK == Spec => []TypeOK
  BY AlwaysInv, PTL DEF IInv

LEMMA EntriesOf ==
  ASSUME NEW S, NEW seq \in Seq(S), NEW i \in DOMAIN seq
  PROVE  seq[i] \in S
  OBVIOUS

\* One engine does one action on one asset at most once (execute_in_lab).
THEOREM ChainDispatchesOnce == Spec => []OneDispatchPerWork
<1>1. IInv => OneDispatchPerWork
  <2>. SUFFICES ASSUME IInv, NEW i \in DOMAIN log, NEW j \in DOMAIN log,
                       SameEffort(log[i], log[j])
                PROVE  i = j
    BY DEF OneDispatchPerWork
  <2>. log \in Seq([hyp : Hypotheses, work : Works])
    BY DEF IInv, TypeOK
  <2>1. log[i].work \in Works /\ log[j].work \in Works
    <3>1. /\ log[i] \in [hyp : Hypotheses, work : Works]
          /\ log[j] \in [hyp : Hypotheses, work : Works]
      BY EntriesOf
    <3>. QED BY <3>1
  <2>2. log[i].work.asset = log[j].work.asset
    BY DEF IInv, LogFits, SameEffort
  <2>3. log[i].work = log[j].work
    <3>. DEFINE v == log[i].work  w == log[j].work
    <3>1. /\ v = [engine |-> v.engine, asset |-> v.asset, action |-> v.action]
          /\ w = [engine |-> w.engine, asset |-> w.asset, action |-> w.action]
      BY <2>1 DEF Works
    <3>2. v.engine = w.engine /\ v.action = w.action
      BY DEF SameEffort
    <3>. QED BY <2>2, <3>1, <3>2
  <2>. QED BY <2>3 DEF IInv, LogIsSet
<1>. QED BY <1>1, AlwaysInv, PTL

\* The chain budget is overrun by less than one dispatch (execute_in_lab).
THEOREM ChainOverrunBounded == Spec => []OverrunBounded
  BY AlwaysInv, PTL DEF IInv

\* _update_graph_from_result always finds every parent.
THEOREM ChainObservationIsLinked == Spec => []ObservationIsLinked
  BY AlwaysInv, PTL DEF IInv

\* The routing matrix has no rule for what the lab observed.
THEOREM ChainCascadeEnds == Spec => []CascadeEnds
<1>1. IInv => CascadeEnds
  BY DEF IInv, LogFits, CascadeEnds
<1>. QED BY <1>1, AlwaysInv, PTL

\* No engine runs on an approval that a later request took back.
THEOREM ChainDispatchIsAuthorized == Spec => DispatchIsAuthorized
<1>. DEFINE Justified == log' # log => LET h == Last(log').hyp
                                       IN  refusing[h] = {} /\ reviewed[h] # {} /\ Caused(h)
<1>1. IInv /\ [Next]_vars => [Justified]_vars
  <2>. SUFFICES ASSUME IInv, Next, log' # log
                PROVE  Justified
    BY DEF vars, effort
  <2>1. PICK h \in Hypotheses, preferred \in Preferences :
          MayDispatch(h, preferred) /\ LogDispatch(h, preferred)
    BY DEF Next, Register, Validate, Propose, Link, AddHypothesis, StopRequest, Decide,
           StopDispatch, DispatchRaises, DispatchFails, DispatchSucceeds, effort
  <2>2. Last(log').hyp = h
    <3>1. log \in Seq([hyp : Hypotheses, work : Works])
      BY DEF IInv, TypeOK
    <3>2. log' = Append(log, [hyp |-> h, work |-> Work(h, preferred)])
      BY <2>1 DEF LogDispatch
    <3>. QED BY <3>1, <3>2 DEF Last
  <2>3. status[h] = "APPROVED"
    BY <2>1 DEF MayDispatch, Approved
  <2>. QED BY <2>2, <2>3 DEF IInv, ApprovalStands
<1>. QED BY <1>1, AlwaysInv, PTL DEF Spec, DispatchIsAuthorized
=============================================================================
