------------------------------- MODULE Discovery -------------------------------
(*****************************************************************************)
(* The parallel discovery lifecycle of layer1_orchestration/discovery: one   *)
(* call of the DiscoveryCoordinator about one discovery, the register, the   *)
(* managers' reviews, the sharing, the gate, the freeze, the synthesis and   *)
(* the decision it goes through, and the subscribers of the event bus.       *)
(* Discoveries share nothing but the loop of the certification report, so    *)
(* one is enough.                                                            *)
(*                                                                           *)
(* A call of the coordinator is a script: the calls it makes, in order, as   *)
(* pairs <<operation, argument>> (module DiscoveryScripts).  An action is    *)
(* one of them, up to and with the event it publishes.  Everything runs in   *)
(* one thread, but publish calls the subscribers before it returns, and a    *)
(* subscriber may do what the cross-sharing and review classes offer to      *)
(* gears and managers: answer with a new version or a contradiction, review  *)
(* again, reject, escalate, time out.  It may also raise, which ends the     *)
(* call.  So the replies interleave with the script exactly at the events.   *)
(* The subscribers are not in the repository; what they may do is what the   *)
(* docstrings of these classes say they do.                                  *)
(*****************************************************************************)
EXTENDS GearAnalysis, Sequences

CONSTANTS
  Script,      \* Script[s]: the instructions of the coordinator's method s
  Inputs,      \* Inputs[s]: the discoveries s may be called with
  Repliers,    \* the gears whose perspectives subscribers act on
  MaxReplies   \* bound: replies of subscribers during one call

Scripts == DOMAIN Script

\* The methods that return when their gate has not passed.
Guarded == {s \in Scripts : \E i \in 1 .. Len(Script[s]) : Script[s][i][1] = "exit"}

DiscoveryStatus == {"NONE", "REGISTERED", "BROADCAST", "IN_REVIEW", "SYNTHESIZED", "DECIDED"}

\* Operations whose argument is a gear.
GearOperations ==
  {"receive", "acknowledge", "record acknowledgment", "analyze", "submit", "pass", "rework",
   "update", "share"}

(* A script is a sequence of instructions with arguments they take; it       *)
(* reviews and updates perspectives it has made, exits on the answer of a    *)
(* gate just evaluated, and if it has an exit it decides after one.          *)
ASSUME ScriptAssumption ==
  \A s \in Scripts :
    /\ Script[s] \in Seq(STRING \X STRING)
    /\ \A i \in 1 .. Len(Script[s]) :
         LET op == Script[s][i][1]  argument == Script[s][i][2]
         IN /\ op \in GearOperations => argument \in Gears
            /\ op = "status" => argument \in DiscoveryStatus
            /\ op = "file" => argument \in {"synthesis", "decision"}
            /\ op \in {"submit", "pass", "rework", "update"}
                 => \E j \in 1 .. i - 1 : Script[s][j] = <<"analyze", argument>>
            /\ op = "exit" => i > 1 /\ Script[s][i - 1][1] = "gate"
            /\ op = "decide" /\ s \in Guarded => \E j \in 1 .. i - 1 : Script[s][j][1] = "exit"

\* The instructions of s before its i-th.
Before(s, i) == {Script[s][j] : j \in 1 .. i - 1}

(* What an instruction relies on was made by one before it: an               *)
(* acknowledgment is recorded once it is on the bus, and all four are when a *)
(* gate is asked or the status leaves REGISTERED; the status follows the     *)
(* perspectives and the records it announces; the synthesis is of all four   *)
(* gears, and a decision is on a synthesis.                                  *)
ASSUME OrderAssumption ==
  \A s \in Scripts : \A i \in 1 .. Len(Script[s]) :
    LET op == Script[s][i][1]  argument == Script[s][i][2]
        made(kind) == \A g \in Gears : <<kind, g>> \in Before(s, i)
    IN /\ op = "record acknowledgment" => <<"acknowledge", argument>> \in Before(s, i)
       /\ op = "gate" => made("record acknowledgment")
       /\ op = "status" => made("record acknowledgment") /\ argument # "NONE"
       /\ op = "status" /\ argument \in {"IN_REVIEW", "SYNTHESIZED", "DECIDED"} => made("analyze")
       /\ op = "status" /\ argument \in {"SYNTHESIZED", "DECIDED"}
            => <<"file", "synthesis">> \in Before(s, i)
       /\ op = "status" /\ argument = "DECIDED" => <<"file", "decision">> \in Before(s, i)
       /\ op = "synthesize" => made("analyze")
       /\ op = "decide" => <<"synthesize", "">> \in Before(s, i)

\* The last of the operations named that s has before its i-th is its j-th.
LastBefore(s, i, operations, j) ==
  /\ j \in 1 .. i - 1 /\ Script[s][j][1] \in operations
  /\ \A k \in j + 1 .. i - 1 : Script[s][k][1] \notin operations

\* The last review of gear g before the i-th instruction approves.
ReviewedBefore(s, i, g) ==
  \E j \in 1 .. i - 1 :
    /\ Script[s][j] = <<"pass", g>>
    /\ \A k \in j + 1 .. i - 1 :
         Script[s][k] \notin {"analyze", "submit", "pass", "rework", "update"} \X {g}

Asking == {"gate", "freeze", "check acknowledgments"}

(* What a method is for: it registers a discovery that all four gears        *)
(* acknowledge, the last question it asks is one it has prepared for, and    *)
(* either it reviews all four gears, or it asks no gate and leaves out one.  *)
(* A method that stops at a failed gate ends with the status DECIDED.        *)
ASSUME PurposeAssumption ==
  \A s \in Scripts :
    LET end == Len(Script[s]) + 1
        has(op) == \E i \in 1 .. Len(Script[s]) : Script[s][i][1] = op
        reviewed(i) == \A g \in Gears : ReviewedBefore(s, i, g)
    IN /\ has("register")
       /\ \A g \in Gears : <<"record acknowledgment", g>> \in Before(s, end)
       /\ \E j \in 1 .. Len(Script[s]) :
            /\ LastBefore(s, end, Asking, j)
            /\ IF Script[s][j][1] = "check acknowledgments"
                 THEN \A g \in Gears : <<"acknowledge", g>> \in Before(s, j)
                 ELSE reviewed(j)
       /\ IF has("gate")
            THEN reviewed(end)
            ELSE \E g \in Gears : <<"analyze", g>> \notin Before(s, end)
       /\ s \in Guarded => \E j \in 1 .. Len(Script[s]) :
            /\ Script[s][j] = <<"status", "DECIDED">>
            /\ LastBefore(s, end, {"register", "status"}, j)

ASSUME InputAssumption ==
  /\ \A s \in Scripts : Inputs[s] \subseteq Discoveries
  /\ Repliers \subseteq Gears /\ MaxReplies \in Nat

VARIABLES
  script, input,   \* the method called and the discovery it is called with
  pc,              \* the instruction it comes to
  out,             \* "running" or how the call ended
  hearing,         \* the last thing that happened was a publication
  replies,         \* how many replies subscribers have made
  heard,           \* gears with a DISCOVERY_ACKNOWLEDGED event on the bus
  status,          \* register: DiscoveryRecord.status, "NONE" before it exists
  acked,           \* register: gears whose acknowledgment is recorded
  versions,        \* register: versions[g], the perspectives of gear g
  disputes,        \* register: number of contradictions
  filed,           \* register: which of synthesis and decision it holds
  held,            \* held[g]: the version of g in the caller's list, 0 if none
  log,             \* what gate, freeze and acknowledgment check answered
  synthesis,       \* the SynthesisResult, NoSynthesis before
  decision         \* the ManagementDecision's choice, "NONE" before

busVars == <<hearing, replies, heard>>
registerVars == <<status, acked, versions, disputes, filed>>
callVars == <<script, input, pc, out>>
resultVars == <<log, synthesis, decision>>
vars == <<callVars, busVars, registerVars, held, resultVars>>

PerspectiveStatus ==
  {"CREATED", "UNDER_ANALYSIS", "SUBMITTED_TO_MANAGER", "REWORK_REQUIRED",
   "MANAGER_APPROVED", "MANAGER_REJECTED", "TIMED_OUT", "ESCALATED"}

Outcomes == {"running", "returned", "refused", "gate failed", "raised"}

NoSynthesis == [none |-> TRUE]

(* A version of a perspective: its status and the words of its               *)
(* interpretation, the only content that a new version may change.           *)
Perspective == [status : PerspectiveStatus, words : SUBSET Words]

Latest(g) == versions[g][Len(versions[g])]

\* The caller's list of perspectives: the objects the register holds, too.
Listed == {g \in Gears : held[g] # 0}
InList(g) == versions[g][held[g]]
ApprovedInList == {g \in Listed : InList(g).status = "MANAGER_APPROVED"}
List == [g \in Listed |-> [Analysis(g, input) EXCEPT !.words = InList(g).words]]

WithStatus(g, v, s) == [versions EXCEPT ![g][v].status = s]
WithVersion(g, p) == [versions EXCEPT ![g] = Append(@, p)]

-----------------------------------------------------------------------------
(* Running the script.                                                       *)

Running == out = "running" /\ pc <= Len(Script[script])
Argument == Script[script][pc][2]

Proceed(op) ==
  /\ Running /\ Script[script][pc][1] = op
  /\ pc' = pc + 1
  /\ UNCHANGED <<script, input, replies>>

\* The instruction ends in a publication, or makes none.
Publishing(op) == Proceed(op) /\ hearing' = TRUE /\ out' = out
Quietly(op) == Proceed(op) /\ hearing' = FALSE /\ out' = out

\* The instruction ends the call with outcome o when stop holds.
EndsIf(op, stop, o) ==
  Proceed(op) /\ hearing' = FALSE /\ out' = IF stop THEN o ELSE out

\* process_discovery refuses a finding without title or agent.
Validate ==
  /\ EndsIf("validate", ~input.complete, "refused")
  /\ UNCHANGED <<heard, registerVars, held, resultVars>>

-----------------------------------------------------------------------------
(* Registration, broadcast and acknowledgment.                               *)

RegisterDiscovery ==
  /\ Quietly("register")
  /\ status' = "REGISTERED"
  /\ UNCHANGED <<heard, acked, versions, disputes, filed, held, resultVars>>

\* DETECTED, REGISTERED and one BROADCAST for each gear.
BroadcastDiscovery ==
  /\ Publishing("broadcast")
  /\ UNCHANGED <<heard, registerVars, held, resultVars>>

\* DISCOVERY_RETRY and another BROADCAST for a silent gear.
RetryGear ==
  /\ Publishing("retry")
  /\ UNCHANGED <<heard, registerVars, held, resultVars>>

\* acknowledge_receipt publishes DISCOVERY_RECEIVED first, of which nothing is read.
ReceiveDiscovery ==
  /\ Publishing("receive")
  /\ UNCHANGED <<heard, registerVars, held, resultVars>>

\* Then DISCOVERY_ACKNOWLEDGED: it is on the bus before any subscriber hears it.
AcknowledgeReceipt ==
  /\ Publishing("acknowledge")
  /\ heard' = heard \cup {Argument}
  /\ UNCHANGED <<registerVars, held, resultVars>>

\* Mutant: the register keeps the last acknowledgment only.
RecordLastAcknowledgment ==
  /\ Quietly("record acknowledgment")
  /\ acked' = {Argument}
  /\ UNCHANGED <<heard, status, versions, disputes, filed, held, resultVars>>

RecordAcknowledgment ==
  /\ Quietly("record acknowledgment")
  /\ acked' = acked \cup {Argument}
  /\ UNCHANGED <<heard, status, versions, disputes, filed, held, resultVars>>

\* check_acknowledgments asks the events, not the register.
CheckAcknowledgments ==
  /\ Quietly("check acknowledgments")
  /\ log' = Append(log, <<"acknowledged", Gears \subseteq heard>>)
  /\ UNCHANGED <<heard, registerVars, held, synthesis, decision>>

UpdateStatus ==
  /\ Quietly("status")
  /\ status' = Argument
  /\ UNCHANGED <<heard, acked, versions, disputes, filed, held, resultVars>>

-----------------------------------------------------------------------------
(* Perspectives and their review.                                            *)

\* analyze, start_analysis, register.add_perspective and, in the caller's
\* list, append: no event is published from one to the other.
Analyze ==
  /\ Quietly("analyze")
  /\ versions' = WithVersion(Argument, [status |-> "UNDER_ANALYSIS",
                                        words  |-> Analysis(Argument, input).words])
  /\ held' = [held EXCEPT ![Argument] = Len(versions[Argument]) + 1]
  /\ UNCHANGED <<heard, status, acked, disputes, filed, resultVars>>

\* Status first, whatever it was, then the event.
SetInList(op, s) ==
  /\ Publishing(op)
  /\ versions' = WithStatus(Argument, held[Argument], s)
  /\ UNCHANGED <<heard, status, acked, disputes, filed, held, resultVars>>

SubmitToManager == SetInList("submit", "SUBMITTED_TO_MANAGER")
ReviewPass == SetInList("pass", "MANAGER_APPROVED")
ReviewRework == SetInList("rework", "REWORK_REQUIRED")

\* update_perspective: a version of its own, CREATED, with a text of its own.
NewVersion(g, words) == WithVersion(g, [status |-> "CREATED", words |-> words])

\* Mutant: the new version is listed and never added to the register.
UpdateUnregistered ==
  /\ Quietly("update")
  /\ held' = [held EXCEPT ![Argument] = Len(versions[Argument]) + 1]
  /\ UNCHANGED <<heard, registerVars, resultVars>>

\* Mutant: the caller's list keeps the version that was sent back.
UpdateUnlisted ==
  /\ Quietly("update")
  /\ versions' = NewVersion(Argument, InList(Argument).words)
  /\ UNCHANGED <<heard, status, acked, disputes, filed, held, resultVars>>

\* update_perspective only makes the version; the caller adds it to the register
\* and puts it in the place of the old one in its list.
UpdatePerspective ==
  /\ Quietly("update")
  /\ versions' = NewVersion(Argument, InList(Argument).words)
  /\ held' = [held EXCEPT ![Argument] = Len(versions[Argument]) + 1]
  /\ UNCHANGED <<heard, status, acked, disputes, filed, resultVars>>

\* publish_approved_perspective raises ValueError unless it is approved.
PublishApproved ==
  /\ Proceed("share")
  /\ IF InList(Argument).status = "MANAGER_APPROVED"
       THEN hearing' = TRUE /\ out' = out
       ELSE hearing' = FALSE /\ out' = "raised"
  /\ UNCHANGED <<heard, registerVars, held, resultVars>>

OpenContradiction ==
  /\ Quietly("contradict")
  /\ disputes' = disputes + 1
  /\ UNCHANGED <<heard, status, acked, versions, filed, held, resultVars>>

-----------------------------------------------------------------------------
(* Gate, freeze, synthesis and decision.                                     *)

\* Mutant: the gate counts the perspectives, approved or not.
GateCounts == Gears \subseteq Listed

(* evaluate, as the coordinator calls it: on the caller's list, with all     *)
(* four acknowledgments named in the call and no contradictions given.       *)
GatePasses ==
  /\ Gears \subseteq ApprovedInList
  /\ List["security"].authorization

EvaluateGate ==
  /\ Publishing("gate")
  /\ log' = Append(log, <<"gate", GatePasses>>)
  /\ UNCHANGED <<heard, registerVars, held, synthesis, decision>>

LastAnswer == log[Len(log)][2]

\* process_discovery returns when the gate has not passed.
StopUnlessPassed ==
  /\ EndsIf("exit", ~LastAnswer, "gate failed")
  /\ UNCHANGED <<heard, registerVars, held, resultVars>>

ProhibitedDecisions ==
  {"APPROVE_NEW_PHASE", "ACTIVATE_NEW_PHASE", "DEFER_DISCOVERY", "REJECT_DISCOVERY",
   "CLOSE_DISCOVERY", "FINALIZE_MISSION"}

\* check_decision publishes DECISION_ATTEMPT_BLOCKED, and nothing when it allows.
CheckDecision ==
  LET allowed == Argument \notin ProhibitedDecisions \/ Gears \subseteq ApprovedInList
  IN /\ Proceed("freeze") /\ out' = out
     /\ hearing' = ~allowed
     /\ log' = Append(log, <<"allowed", allowed>>)
     /\ UNCHANGED <<heard, registerVars, held, synthesis, decision>>

\* DISCOVERY_SYNTHESIS_STARTED, before anything is read.
StartSynthesis ==
  /\ Publishing("start synthesis")
  /\ UNCHANGED <<heard, registerVars, held, resultVars>>

(* get_contradictions hands out the register's own list, so contradictions   *)
(* that arrive with the started event are in it, later ones are not.         *)
Synthesize ==
  /\ Publishing("synthesize")
  /\ synthesis' = SynthesisOf(List, 1 .. disputes)
  /\ UNCHANGED <<heard, registerVars, held, log, decision>>

StartDecision ==
  /\ Publishing("start decision")
  /\ UNCHANGED <<heard, registerVars, held, resultVars>>

Decide ==
  /\ Publishing("decide")
  /\ decision' = DirectorChooses(synthesis)
  /\ UNCHANGED <<heard, registerVars, held, log, synthesis>>

\* Mutant: the register has one place for synthesis and decision.
FileOver ==
  /\ Quietly("file")
  /\ filed' = {Argument}
  /\ UNCHANGED <<heard, status, acked, versions, disputes, held, resultVars>>

\* add_synthesis, add_decision.
File ==
  /\ Quietly("file")
  /\ filed' = filed \cup {Argument}
  /\ UNCHANGED <<heard, status, acked, versions, disputes, held, resultVars>>

Return ==
  /\ out = "running" /\ pc > Len(Script[script])
  /\ out' = "returned"
  /\ UNCHANGED <<script, input, pc, busVars, registerVars, held, resultVars>>

-----------------------------------------------------------------------------
(* Subscribers, called by publish.                                           *)

Reply ==
  /\ out = "running" /\ hearing /\ replies < MaxReplies
  /\ replies' = replies + 1
  /\ UNCHANGED <<callVars, hearing, heard, status, acked, filed, held, resultVars>>

ReplyAbout(g, v) == Reply /\ v \in 1 .. Len(versions[g]) /\ UNCHANGED disputes

Resubmit(g, v) ==
  ReplyAbout(g, v) /\ versions' = WithStatus(g, v, "SUBMITTED_TO_MANAGER")

Approve(g, v) ==
  ReplyAbout(g, v) /\ versions' = WithStatus(g, v, "MANAGER_APPROVED")

SendBack(g, v) ==
  ReplyAbout(g, v) /\ versions' = WithStatus(g, v, "REWORK_REQUIRED")

Reject(g, v) ==
  ReplyAbout(g, v) /\ versions' = WithStatus(g, v, "MANAGER_REJECTED")

Escalate(g, v) ==
  ReplyAbout(g, v) /\ versions' = WithStatus(g, v, "ESCALATED")

MarkTimedOut(g, v) ==
  ReplyAbout(g, v) /\ versions' = WithStatus(g, v, "TIMED_OUT")

\* Another version with an addendum, or with a text that says nothing.
Supersede(g, v) ==
  /\ ReplyAbout(g, v)
  /\ \E words \in {versions[g][v].words, {}} : versions' = NewVersion(g, words)

Contradict(g) ==
  /\ Reply /\ versions[g] # <<>>
  /\ disputes' = disputes + 1
  /\ UNCHANGED versions

\* A handler's exception comes out of publish, and out of the coordinator.
HandlerRaises ==
  /\ out = "running" /\ hearing
  /\ out' = "raised" /\ hearing' = FALSE
  /\ UNCHANGED <<script, input, pc, replies, heard, registerVars, held, resultVars>>

-----------------------------------------------------------------------------
Init ==
  /\ script \in Scripts /\ input \in Inputs[script]
  /\ pc = 1 /\ out = "running" /\ hearing = FALSE /\ replies = 0
  /\ heard = {} /\ status = "NONE" /\ acked = {} /\ disputes = 0 /\ filed = {}
  /\ versions = [g \in Gears |-> <<>>]
  /\ held = [g \in Gears |-> 0]
  /\ log = <<>> /\ synthesis = NoSynthesis /\ decision = "NONE"

Coordinator ==
  \/ Validate \/ RegisterDiscovery \/ BroadcastDiscovery \/ RetryGear
  \/ ReceiveDiscovery \/ AcknowledgeReceipt \/ RecordAcknowledgment \/ CheckAcknowledgments
  \/ UpdateStatus \/ Analyze \/ SubmitToManager \/ ReviewPass \/ ReviewRework
  \/ UpdatePerspective \/ PublishApproved \/ OpenContradiction
  \/ EvaluateGate \/ StopUnlessPassed \/ CheckDecision
  \/ StartSynthesis \/ Synthesize \/ StartDecision \/ Decide \/ File \/ Return

Subscribers ==
  \/ \E g \in Repliers :
       \/ Contradict(g)
       \/ \E v \in 1 .. Len(versions[g]) :
            \/ Resubmit(g, v) \/ Approve(g, v) \/ SendBack(g, v) \/ Reject(g, v)
            \/ Escalate(g, v) \/ MarkTimedOut(g, v) \/ Supersede(g, v)
  \/ HandlerRaises

Next == Coordinator \/ Subscribers

Spec == Init /\ [][Next]_vars

-----------------------------------------------------------------------------
(* get_certification_report, of one discovery.                               *)

ApprovedLatest == {g \in Gears : versions[g] # <<>> /\ Latest(g).status = "MANAGER_APPROVED"}

Certified ==
  /\ status # "NONE" => Gears \subseteq ApprovedLatest
  /\ status = "DECIDED" => "decision" \in filed

\* The report's issues that do not withhold the certificate.
MissingAcknowledgments == Gears \ acked
SynthesisNotFound == "synthesis" \notin filed /\ status \in {"SYNTHESIZED", "DECIDED"}

-----------------------------------------------------------------------------
(* Properties.                                                               *)

(* A perspective the gate will be shown is one the register holds: what the  *)
(* caller's list refers to is among the versions of its gear, so that the    *)
(* certification report and the gate judge the same objects.  The engines    *)
(* and update_perspective register nothing themselves; each caller has to    *)
(* (discovery_coordinator.py:160, :574).                                     *)
ListedIsRegistered == \A g \in Gears : held[g] <= Len(versions[g])

(* Every field has its type (discovery_types.py, discovery_register.py), and *)
(* ListedIsRegistered.                                                       *)
TypeOK ==
  /\ script \in Scripts /\ input \in Inputs[script]
  /\ pc \in 1 .. Len(Script[script]) + 1 /\ out \in Outcomes
  /\ hearing \in BOOLEAN /\ replies \in 0 .. MaxReplies
  /\ heard \subseteq Gears /\ acked \subseteq Gears
  /\ status \in DiscoveryStatus /\ disputes \in Nat
  /\ filed \subseteq {"synthesis", "decision"}
  /\ versions \in [Gears -> Seq(Perspective)]
  /\ held \in [Gears -> Nat] /\ ListedIsRegistered
  /\ log \in Seq({"gate", "allowed", "acknowledged"} \X BOOLEAN)
  /\ decision \in DecisionTypes \cup {"NONE"}

(* The lifecycle status never runs ahead of the records behind it, also when *)
(* a subscriber's exception ends the call between any two steps: the issues  *)
(* "Expected synthesis not found" and "marked DECIDED but no decision        *)
(* record" of the certification report (discovery_coordinator.py:943) are    *)
(* never raised.                                                             *)
StatusBacked ==
  /\ status \in {"BROADCAST", "IN_REVIEW", "SYNTHESIZED", "DECIDED"} => acked = Gears
  /\ status \in {"IN_REVIEW", "SYNTHESIZED", "DECIDED"}
       => \A g \in Gears : versions[g] # <<>>
  /\ ~SynthesisNotFound
  /\ status = "DECIDED" => "decision" \in filed

GatePassed == \E i \in 1 .. Len(log) : log[i] = <<"gate", TRUE>>

(* The coordinator tells the gate that all four gears have acknowledged, as  *)
(* a literal in the call (discovery_coordinator.py:193).  It is true         *)
(* whenever a gate passes: the register holds all four, and none that was    *)
(* not heard on the bus.                                                     *)
PassedWasAcknowledged ==
  /\ acked \subseteq heard
  /\ GatePassed => acked = Gears

(* No disagreement is lost on the way to the decision: the synthesis holds   *)
(* every contradiction registered before its completion was published, those *)
(* of subscribers to the started event included, and finds its own           *)
(* divergence exactly when the evidence gear had nothing to go by            *)
(* (evidence_synthesis.py:_find_contradictions).  What it never holds are    *)
(* contradictions registered after it: the call does not synthesize again.   *)
DisputesSurvive ==
  [][synthesis' # synthesis =>
       /\ \A c \in 1 .. disputes : <<"REGISTERED", c>> \in synthesis'.contradictions
       /\ <<"TENSION", 0>> \in synthesis'.contradictions
       /\ <<"DIVERGENCE", 0>> \in synthesis'.contradictions <=> input.references = 0]_vars

(* Whatever the discovery is and whatever subscribers do, a decision is to   *)
(* approve a new phase, on a synthesis that recommends qualifying a catalog  *)
(* and carries a tension: the security engine always writes "catalog" and    *)
(* "prohibited", the scraping engine always recommends an action.  The seven *)
(* other decision types of discovery_types.py:44 are never chosen.           *)
OneChoiceOnly ==
  decision # "NONE" =>
    /\ decision = "APPROVE_NEW_INTERNAL_PHASE"
    /\ "STRUCTURED_CATALOG_INTELLIGENCE_QUALIFICATION" \in synthesis.next
    /\ synthesis.authorization /\ synthesis.expansion

ReviewedDecision == INSTANCE ReviewedDecision WITH
  approved <- ApprovedInList,
  passed   <- GatePassed,
  decided  <- decision # "NONE" /\ script \in Guarded

(* A method that stops at a failed gate decides only after a gate that found *)
(* the perspectives of all four gears in the caller's list approved at that  *)
(* moment, however managers and gears change them in between                 *)
(* (MYC-DISC-PAR-INV-001).                                                   *)
ImplementsReviewedDecision == ReviewedDecision!Spec

(* A call that no subscriber disturbs ends as its method intends, and every  *)
(* method that reviews all four gears leaves a discovery the certification   *)
(* report certifies; run_failure_scenario_5 makes no perspectives and is not.*)
UndisturbedIsCertified ==
  out = "returned" /\ replies = 0 =>
    /\ Certified <=> \E i \in 1 .. Len(log) : log[i][1] = "gate"
    /\ MissingAcknowledgments = {}
    /\ log # <<>> /\ LastAnswer
    /\ script \in Guarded => status = "DECIDED"

================================================================================
