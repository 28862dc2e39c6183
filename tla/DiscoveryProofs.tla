---------------------------- MODULE DiscoveryProofs ----------------------------
(***************************************************************************)
(* Proofs about Discovery, for any scripts that satisfy the assumptions    *)
(* of that module, any discoveries and any number of replies.              *)
(***************************************************************************)
EXTENDS Discovery, TLAPS

\* What has been analyzed is in the caller's list.
AnalyzedIsHeld ==
  \A j \in 1 .. pc - 1 :
    Script[script][j][1] = "analyze" => held[Script[script][j][2]] # 0

\* After the instruction that evaluates the gate, its answer is the last one.
GateAnswers ==
  \A j \in 1 .. pc - 1 :
    j = pc - 1 /\ Script[script][j][1] = "gate"
      => log # <<>> /\ log[Len(log)][1] = "gate"

\* Whoever goes on after an exit has passed a gate.
ExitMeansPassed ==
  (out = "running" /\ \E j \in 1 .. pc - 1 : Script[script][j][1] = "exit") => GatePassed

\* What TypeOK says of the caller's list is used wherever TypeOK is.
USE DEF ListedIsRegistered

IInv == TypeOK /\ AnalyzedIsHeld /\ GateAnswers /\ ExitMeansPassed

-----------------------------------------------------------------------------
(* Instructions and versions.                                              *)

LEMMA InitHolds == Init => IInv
<1>. SUFFICES ASSUME Init PROVE IInv
  OBVIOUS
<1>1. Script[script] \in Seq(STRING \X STRING) /\ Len(Script[script]) \in Nat
  BY ScriptAssumption DEF Init
<1>2. TypeOK
  <2>1. pc \in 1 .. Len(Script[script]) + 1 /\ replies \in 0 .. MaxReplies
    BY <1>1, InputAssumption DEF Init
  <2>2. /\ versions \in [Gears -> Seq(Perspective)]
        /\ log \in Seq({"gate", "allowed", "acknowledged"} \X BOOLEAN)
    BY DEF Init
  <2>3. held \in [Gears -> Nat] /\ \A g \in Gears : held[g] <= Len(versions[g])
    BY DEF Init
  <2>. QED BY <2>1, <2>2, <2>3 DEF Init, TypeOK, Outcomes, DiscoveryStatus
<1>3. AnalyzedIsHeld /\ GateAnswers /\ ExitMeansPassed
  BY DEF Init, AnalyzedIsHeld, GateAnswers, ExitMeansPassed
<1>. QED BY <1>2, <1>3 DEF IInv

LEMMA InstructionFits ==
  ASSUME TypeOK, NEW op, Proceed(op)
  PROVE  /\ pc \in 1 .. Len(Script[script]) /\ Script[script][pc][1] = op
         /\ pc' = pc + 1 /\ pc' \in 1 .. Len(Script[script]) + 1
         /\ script' = script /\ input' = input /\ replies' = replies
         /\ out = "running"
         /\ op \in GearOperations => Argument \in Gears
         /\ op = "status" => Argument \in DiscoveryStatus
         /\ op = "file" => Argument \in {"synthesis", "decision"}
<1>1. script \in Scripts /\ Len(Script[script]) \in Nat
  BY ScriptAssumption DEF TypeOK
<1>2. pc \in 1 .. Len(Script[script])
  BY <1>1 DEF TypeOK, Proceed, Running
<1>. QED BY <1>1, <1>2, ScriptAssumption DEF Proceed, Running, Argument

LEMMA WordsFit ==
  ASSUME NEW d \in Discoveries, NEW g \in Gears
  PROVE  Analysis(g, d).words \in SUBSET Words
<1>. USE DEF Discoveries, Gears, Words
<1>1. ScrapingAnalysis(d).words \in SUBSET Words BY DEF ScrapingAnalysis
<1>2. MiningAnalysis(d).words \in SUBSET Words BY DEF MiningAnalysis
<1>3. SecurityAnalysis(d).words \in SUBSET Words BY DEF SecurityAnalysis
<1>4. EvidenceAnalysis(d).words \in SUBSET Words BY DEF EvidenceAnalysis
<1>. QED BY <1>1, <1>2, <1>3, <1>4 DEF Analysis

\* A change of status, and a new version, keep the history well-formed and no
\* shorter than it was.
LEMMA StatusKeepsVersions ==
  ASSUME versions \in [Gears -> Seq(Perspective)], NEW g \in Gears, NEW v \in Nat,
         NEW s \in PerspectiveStatus
  PROVE  /\ WithStatus(g, v, s) \in [Gears -> Seq(Perspective)]
         /\ \A h \in Gears : Len(WithStatus(g, v, s)[h]) = Len(versions[h])
<1>. DEFINE q == versions[g]
            r == [q EXCEPT ![v] = [@ EXCEPT !.status = s]]
<1>1. q \in Seq(Perspective)
  OBVIOUS
<1>2. r \in Seq(Perspective) /\ Len(r) = Len(q)
  <2>1. CASE v \in 1 .. Len(q)
    <3>1. q[v] \in Perspective
      BY <1>1, <2>1
    <3>2. [q[v] EXCEPT !.status = s] \in Perspective
      BY <3>1 DEF Perspective
    <3>. HIDE DEF q
    <3>. QED BY <1>1, <2>1, <3>2
  <2>2. CASE v \notin 1 .. Len(q)
    <3>. HIDE DEF q
    <3>1. DOMAIN q = 1 .. Len(q)
      BY <1>1
    <3>2. r = q
      BY <1>1, <3>1, <2>2
    <3>. QED BY <1>1, <3>2
  <2>. QED BY <2>1, <2>2
<1>3. WithStatus(g, v, s) = [versions EXCEPT ![g] = r]
  BY DEF WithStatus
<1>. QED BY <1>2, <1>3

LEMMA VersionKeepsVersions ==
  ASSUME versions \in [Gears -> Seq(Perspective)], NEW g \in Gears,
         NEW p \in Perspective
  PROVE  /\ WithVersion(g, p) \in [Gears -> Seq(Perspective)]
         /\ \A h \in Gears : Len(WithVersion(g, p)[h]) >= Len(versions[h])
         /\ Len(WithVersion(g, p)[g]) = Len(versions[g]) + 1
  BY DEF WithVersion

-----------------------------------------------------------------------------
(* What an instruction does to the parts of the invariant about the script. *)

LEMMA AnalyzedKept ==
  ASSUME IInv, NEW op, Proceed(op),
         \A g \in Gears : held[g] # 0 => held'[g] # 0,
         op = "analyze" => held'[Argument] # 0
  PROVE  AnalyzedIsHeld'
<1>1. /\ pc \in 1 .. Len(Script[script]) /\ Script[script][pc][1] = op
      /\ pc' = pc + 1 /\ script' = script
  BY InstructionFits DEF IInv
<1>2. SUFFICES ASSUME NEW j \in 1 .. pc, Script[script][j][1] = "analyze"
               PROVE  held'[Script[script][j][2]] # 0
  BY <1>1 DEF AnalyzedIsHeld, IInv, TypeOK
<1>3. CASE j = pc
  BY <1>1, <1>2, <1>3 DEF Argument
<1>4. CASE j # pc
  <2>1. j \in 1 .. pc - 1 /\ j \in 1 .. Len(Script[script])
    BY <1>1, <1>4
  <2>2. held[Script[script][j][2]] # 0
    BY <1>2, <2>1 DEF IInv, AnalyzedIsHeld
  <2>3. Script[script][j][2] \in Gears
    BY <1>2, <2>1, ScriptAssumption DEF IInv, TypeOK, GearOperations
  <2>. QED BY <2>2, <2>3
<1>. QED BY <1>3, <1>4

LEMMA GateAnswersKept ==
  ASSUME IInv, NEW op, Proceed(op),
         op = "gate" => \E b \in BOOLEAN : log' = Append(log, <<"gate", b>>)
  PROVE  GateAnswers'
<1>1. /\ Script[script][pc][1] = op /\ pc \in Nat
      /\ pc' = pc + 1 /\ script' = script
  BY InstructionFits, ScriptAssumption DEF IInv, TypeOK
<1>2. SUFFICES ASSUME op = "gate"
               PROVE  log' # <<>> /\ log'[Len(log')][1] = "gate"
  BY <1>1 DEF GateAnswers
<1>3. PICK b \in BOOLEAN : log' = Append(log, <<"gate", b>>)
  BY <1>2
<1>. QED BY <1>3 DEF IInv, TypeOK

LEMMA PassedGrows ==
  ASSUME TypeOK,
         \/ log' = log
         \/ \E t \in {"gate", "allowed", "acknowledged"}, b \in BOOLEAN : log' = Append(log, <<t, b>>)
  PROVE  GatePassed => GatePassed'
<1>1. CASE log' = log
  BY <1>1 DEF GatePassed
<1>2. CASE \E t \in {"gate", "allowed", "acknowledged"}, b \in BOOLEAN : log' = Append(log, <<t, b>>)
  <2>1. log \in Seq({"gate", "allowed", "acknowledged"} \X BOOLEAN)
    BY DEF TypeOK
  <2>2. \A i \in 1 .. Len(log) : i \in 1 .. Len(log') /\ log'[i] = log[i]
    BY <1>2, <2>1
  <2>. QED BY <2>2 DEF GatePassed
<1>. QED BY <1>1, <1>2

LEMMA ExitKept ==
  ASSUME IInv, NEW op, Proceed(op), GatePassed => GatePassed',
         op = "exit" => log' = log /\ (out' = "running" => LastAnswer)
  PROVE  ExitMeansPassed'
<1>1. /\ pc \in 1 .. Len(Script[script]) /\ Script[script][pc][1] = op
      /\ pc' = pc + 1 /\ script' = script /\ out = "running"
      /\ script \in Scripts /\ pc \in Nat
  BY InstructionFits, ScriptAssumption DEF IInv, TypeOK
<1>2. SUFFICES ASSUME out' = "running", NEW j \in 1 .. pc, Script[script][j][1] = "exit"
               PROVE  GatePassed'
  BY <1>1 DEF ExitMeansPassed
<1>3. CASE j # pc
  <2>1. j \in 1 .. pc - 1
    BY <1>1, <1>3
  <2>. QED BY <1>1, <1>2, <2>1 DEF IInv, ExitMeansPassed
<1>4. CASE j = pc
  <2>1. op = "exit" /\ log' = log /\ LastAnswer
    BY <1>1, <1>2, <1>4
  <2>2. pc > 1 /\ Script[script][pc - 1][1] = "gate"
    BY <1>1, <2>1, ScriptAssumption
  <2>3. log # <<>> /\ log[Len(log)][1] = "gate"
    BY <1>1, <2>2 DEF IInv, GateAnswers
  <2>4. log \in Seq({"gate", "allowed", "acknowledged"} \X BOOLEAN)
    BY DEF IInv, TypeOK
  <2>5. /\ Len(log) \in 1 .. Len(log)
        /\ log[Len(log)] \in {"gate", "allowed", "acknowledged"} \X BOOLEAN
    BY <2>3, <2>4
  <2>6. log[Len(log)] = <<"gate", TRUE>>
    <3>1. PICK t \in {"gate", "allowed", "acknowledged"}, b \in BOOLEAN : log[Len(log)] = <<t, b>>
      BY <2>5
    <3>2. t = "gate"
      BY <2>3, <3>1
    <3>3. log[Len(log)][2] = b
      BY <3>1
    <3>4. b
      BY <2>1, <3>3, Zenon DEF LastAnswer
    <3>. QED BY <3>1, <3>2, <3>4
  <2>7. GatePassed
    BY <2>5, <2>6 DEF GatePassed
  <2>. QED BY <2>7
<1>. QED BY <1>3, <1>4

\* An instruction that leaves perspectives and log as they are.
LEMMA PlainInstructionKeeps ==
  ASSUME IInv, NEW op, Proceed(op), op \notin {"analyze", "gate", "exit"},
         held' = held, log' = log, TypeOK'
  PROVE  IInv'
  BY AnalyzedKept, GateAnswersKept, PassedGrows, ExitKept DEF IInv

-----------------------------------------------------------------------------
(* The instructions, one by one.                                            *)

LEMMA BookkeepingKeeps ==
  ASSUME IInv,
         \/ Validate \/ RegisterDiscovery \/ BroadcastDiscovery \/ RetryGear
         \/ ReceiveDiscovery \/ AcknowledgeReceipt \/ RecordAcknowledgment \/ UpdateStatus
         \/ OpenContradiction \/ PublishApproved
         \/ StartSynthesis \/ Synthesize \/ StartDecision \/ Decide \/ File
  PROVE  IInv' /\ log' = log
<1>. USE DEF TypeOK, Outcomes, DiscoveryStatus, GearOperations, registerVars, resultVars
<1>0. TypeOK /\ InputAssumption
  BY InputAssumption DEF IInv
<1>1. CASE Validate
  <2>1. Proceed("validate") /\ held' = held /\ log' = log
    BY <1>1 DEF Validate, EndsIf
  <2>2. TypeOK'
    BY <1>0, <1>1, <2>1, InstructionFits DEF Validate, EndsIf
  <2>. QED BY <2>1, <2>2, PlainInstructionKeeps
<1>2. CASE RegisterDiscovery
  <2>1. Proceed("register") /\ held' = held /\ log' = log
    BY <1>2 DEF RegisterDiscovery, Quietly
  <2>2. TypeOK'
    BY <1>0, <1>2, <2>1, InstructionFits DEF RegisterDiscovery, Quietly
  <2>. QED BY <2>1, <2>2, PlainInstructionKeeps
<1>3. CASE BroadcastDiscovery
  <2>1. Proceed("broadcast") /\ held' = held /\ log' = log
    BY <1>3 DEF BroadcastDiscovery, Publishing
  <2>2. TypeOK'
    BY <1>0, <1>3, <2>1, InstructionFits DEF BroadcastDiscovery, Publishing
  <2>. QED BY <2>1, <2>2, PlainInstructionKeeps
<1>4. CASE RetryGear
  <2>1. Proceed("retry") /\ held' = held /\ log' = log
    BY <1>4 DEF RetryGear, Publishing
  <2>2. TypeOK'
    BY <1>0, <1>4, <2>1, InstructionFits DEF RetryGear, Publishing
  <2>. QED BY <2>1, <2>2, PlainInstructionKeeps
<1>5. CASE AcknowledgeReceipt
  <2>1. Proceed("acknowledge") /\ held' = held /\ log' = log
    BY <1>5 DEF AcknowledgeReceipt, Publishing
  <2>2. TypeOK'
    BY <1>0, <1>5, <2>1, InstructionFits DEF AcknowledgeReceipt, Publishing
  <2>. QED BY <2>1, <2>2, PlainInstructionKeeps
<1>6. CASE RecordAcknowledgment
  <2>1. Proceed("record acknowledgment") /\ held' = held /\ log' = log
    BY <1>6 DEF RecordAcknowledgment, Quietly
  <2>2. TypeOK'
    BY <1>0, <1>6, <2>1, InstructionFits DEF RecordAcknowledgment, Quietly
  <2>. QED BY <2>1, <2>2, PlainInstructionKeeps
<1>7. CASE UpdateStatus
  <2>1. Proceed("status") /\ held' = held /\ log' = log
    BY <1>7 DEF UpdateStatus, Quietly
  <2>2. TypeOK'
    BY <1>0, <1>7, <2>1, InstructionFits DEF UpdateStatus, Quietly
  <2>. QED BY <2>1, <2>2, PlainInstructionKeeps
<1>8. CASE OpenContradiction
  <2>1. Proceed("contradict") /\ held' = held /\ log' = log
    BY <1>8 DEF OpenContradiction, Quietly
  <2>2. TypeOK'
    <3>1. /\ pc' \in 1 .. Len(Script[script]) + 1 /\ script' = script
          /\ input' = input /\ replies' = replies
      BY <1>0, <2>1, InstructionFits
    <3>2. out' = out /\ hearing' = FALSE /\ held' = held /\ disputes' = disputes + 1
      BY <1>8 DEF OpenContradiction, Quietly
    <3>3. /\ heard' = heard /\ status' = status /\ acked' = acked
          /\ versions' = versions /\ filed' = filed /\ log' = log /\ decision' = decision
      BY <1>8 DEF OpenContradiction
    <3>4. disputes' \in Nat
      <4>1. disputes \in Nat
        BY <1>0
      <4>. HIDE DEF TypeOK
      <4>. QED BY <3>2, <4>1
    <3>. QED BY <1>0, <3>1, <3>2, <3>3, <3>4
  <2>. QED BY <2>1, <2>2, PlainInstructionKeeps
<1>9. CASE StartSynthesis
  <2>1. Proceed("start synthesis") /\ held' = held /\ log' = log
    BY <1>9 DEF StartSynthesis, Publishing
  <2>2. TypeOK'
    BY <1>0, <1>9, <2>1, InstructionFits DEF StartSynthesis, Publishing
  <2>. QED BY <2>1, <2>2, PlainInstructionKeeps
<1>10. CASE Synthesize
  <2>1. Proceed("synthesize") /\ held' = held /\ log' = log
    BY <1>10 DEF Synthesize, Publishing
  <2>2. TypeOK'
    BY <1>0, <1>10, <2>1, InstructionFits DEF Synthesize, Publishing
  <2>. QED BY <2>1, <2>2, PlainInstructionKeeps
<1>11. CASE StartDecision
  <2>1. Proceed("start decision") /\ held' = held /\ log' = log
    BY <1>11 DEF StartDecision, Publishing
  <2>2. TypeOK'
    BY <1>0, <1>11, <2>1, InstructionFits DEF StartDecision, Publishing
  <2>. QED BY <2>1, <2>2, PlainInstructionKeeps
<1>12. CASE Decide
  <2>1. Proceed("decide") /\ held' = held /\ log' = log
    BY <1>12 DEF Decide, Publishing
  <2>2. TypeOK'
    BY <1>0, <1>12, <2>1, InstructionFits DEF Decide, Publishing, DirectorChooses, DecisionTypes
  <2>. QED BY <2>1, <2>2, PlainInstructionKeeps
<1>13. CASE File
  <2>1. Proceed("file") /\ held' = held /\ log' = log
    BY <1>13 DEF File, Quietly
  <2>2. TypeOK'
    BY <1>0, <1>13, <2>1, InstructionFits DEF File, Quietly
  <2>. QED BY <2>1, <2>2, PlainInstructionKeeps
<1>14. CASE PublishApproved
  <2>1. Proceed("share") /\ held' = held /\ log' = log
    BY <1>14 DEF PublishApproved
  <2>2. TypeOK'
    BY <1>0, <1>14, <2>1, InstructionFits DEF PublishApproved
  <2>. QED BY <2>1, <2>2, PlainInstructionKeeps
<1>15. CASE ReceiveDiscovery
  <2>1. Proceed("receive") /\ held' = held /\ log' = log
    BY <1>15 DEF ReceiveDiscovery, Publishing
  <2>2. TypeOK'
    BY <1>0, <1>15, <2>1, InstructionFits DEF ReceiveDiscovery, Publishing
  <2>. QED BY <2>1, <2>2, PlainInstructionKeeps
<1>. QED BY <1>1, <1>2, <1>3, <1>4, <1>5, <1>6, <1>7, <1>8, <1>9, <1>10, <1>11, <1>12, <1>13, <1>14,
            <1>15

\* A review sets the status of the version in the caller's list.
LEMMA ReviewKeeps ==
  ASSUME IInv, SubmitToManager \/ ReviewPass \/ ReviewRework
  PROVE  IInv' /\ log' = log
<1>1. PICK op \in {"submit", "pass", "rework"}, s \in PerspectiveStatus :
        SetInList(op, s)
  BY DEF SubmitToManager, ReviewPass, ReviewRework, PerspectiveStatus
<1>2. Proceed(op) /\ held' = held /\ log' = log
  BY <1>1 DEF SetInList, Publishing, resultVars
<1>3. Argument \in Gears /\ TypeOK
  BY <1>2, InstructionFits DEF IInv, GearOperations
<1>4. /\ versions' \in [Gears -> Seq(Perspective)]
      /\ \A h \in Gears : Len(versions'[h]) = Len(versions[h])
  <2>1. versions' = WithStatus(Argument, held[Argument], s)
    BY <1>1 DEF SetInList
  <2>2. held[Argument] \in Nat /\ versions \in [Gears -> Seq(Perspective)]
    BY <1>3 DEF TypeOK
  <2>. QED BY <1>3, <2>1, <2>2, StatusKeepsVersions
<1>5. TypeOK'
  BY <1>1, <1>2, <1>3, <1>4, InstructionFits
  DEF TypeOK, SetInList, Publishing, Outcomes, resultVars
<1>. QED BY <1>2, <1>5, PlainInstructionKeeps

\* A new version put into the caller's list is the last one.
LEMMA NewInListKeeps ==
  ASSUME IInv, NEW op \in {"analyze", "update"}, Quietly(op), NEW p \in Perspective,
         versions' = WithVersion(Argument, p),
         held' = [held EXCEPT ![Argument] = Len(versions[Argument]) + 1],
         UNCHANGED <<heard, status, acked, disputes, filed, resultVars>>
  PROVE  IInv' /\ log' = log
<1>1. Proceed(op) /\ log' = log /\ out' = out /\ hearing' = FALSE
  BY DEF Quietly, resultVars
<1>2. Argument \in Gears /\ TypeOK
  BY <1>1, InstructionFits DEF IInv, GearOperations
<1>3. /\ versions' \in [Gears -> Seq(Perspective)]
      /\ \A h \in Gears : Len(versions'[h]) >= Len(versions[h])
      /\ Len(versions'[Argument]) = Len(versions[Argument]) + 1
  BY <1>2, VersionKeepsVersions DEF TypeOK
<1>4. \A g \in Gears : Len(versions[g]) \in Nat /\ Len(versions'[g]) \in Nat
  BY <1>2, <1>3 DEF TypeOK
<1>5. \A g \in Gears : held'[g] <= Len(versions'[g]) /\ (held[g] # 0 => held'[g] # 0)
  <2>. TAKE g \in Gears
  <2>1. CASE g = Argument
    <3>. SUFFICES held'[g] = Len(versions[g]) + 1
      BY <1>3, <1>4, <2>1
    <3>. QED BY <1>2, <2>1 DEF TypeOK
  <2>2. CASE g # Argument
    BY <1>2, <1>3, <1>4, <2>2 DEF TypeOK
  <2>. QED BY <2>1, <2>2
<1>6. held'[Argument] # 0
  BY <1>2, <1>4 DEF TypeOK
<1>7. TypeOK'
  <2>1. held' \in [Gears -> Nat]
    BY <1>2, <1>4 DEF TypeOK
  <2>. QED BY <1>1, <1>2, <1>3, <1>5, <2>1, InstructionFits DEF TypeOK, Outcomes, resultVars
<1>8. AnalyzedIsHeld'
  BY <1>1, <1>5, <1>6, AnalyzedKept
<1>9. GateAnswers' /\ ExitMeansPassed'
  BY <1>1, <1>2, GateAnswersKept, PassedGrows, ExitKept
<1>. QED BY <1>1, <1>7, <1>8, <1>9 DEF IInv

LEMMA AnalyzeKeeps ==
  ASSUME IInv, Analyze
  PROVE  IInv' /\ log' = log
<1>. DEFINE p == [status |-> "UNDER_ANALYSIS", words |-> Analysis(Argument, input).words]
<1>1. Argument \in Gears /\ TypeOK
  BY InstructionFits DEF IInv, Analyze, Quietly, GearOperations
<1>2. input \in Discoveries
  BY <1>1, InputAssumption DEF TypeOK
<1>3. p \in Perspective
  BY <1>1, <1>2, WordsFit DEF Perspective, PerspectiveStatus
<1>4. versions' = WithVersion(Argument, p)
  BY DEF Analyze
<1>. HIDE DEF p
<1>. QED BY <1>3, <1>4, NewInListKeeps DEF Analyze

\* What is updated has been analyzed, so it is in the caller's list.
LEMMA UpdateKeeps ==
  ASSUME IInv, UpdatePerspective
  PROVE  IInv' /\ log' = log
<1>. DEFINE p == [status |-> "CREATED", words |-> InList(Argument).words]
<1>1. /\ Argument \in Gears /\ TypeOK /\ script \in Scripts
      /\ pc \in 1 .. Len(Script[script]) /\ Script[script][pc][1] = "update"
  BY InstructionFits DEF IInv, TypeOK, UpdatePerspective, Quietly, GearOperations
<1>2. PICK j \in 1 .. pc - 1 : Script[script][j] = <<"analyze", Argument>>
  BY <1>1, ScriptAssumption DEF Argument
<1>3. held[Argument] \in 1 .. Len(versions[Argument])
  BY <1>1, <1>2 DEF IInv, AnalyzedIsHeld, TypeOK
<1>4. InList(Argument) \in Perspective
  BY <1>1, <1>3 DEF InList, TypeOK
<1>5. p \in Perspective
  BY <1>4 DEF Perspective, PerspectiveStatus
<1>6. versions' = WithVersion(Argument, p)
  BY DEF UpdatePerspective, NewVersion
<1>. HIDE DEF p
<1>. QED BY <1>5, <1>6, NewInListKeeps DEF UpdatePerspective

\* Gate, freeze and acknowledgment check each add one answer to the log.
LEMMA AnswerKeeps ==
  ASSUME IInv, NEW op, op \notin {"analyze", "exit"}, Proceed(op),
         NEW t \in {"gate", "allowed", "acknowledged"}, NEW b \in BOOLEAN,
         op = "gate" => t = "gate",
         log' = Append(log, <<t, b>>), hearing' \in BOOLEAN, out' = out,
         UNCHANGED <<heard, registerVars, held, synthesis, decision>>
  PROVE  IInv'
<1>1. TypeOK
  BY DEF IInv
<1>2. log' \in Seq({"gate", "allowed", "acknowledged"} \X BOOLEAN)
  BY <1>1 DEF TypeOK
<1>3. TypeOK'
  BY <1>1, <1>2, InstructionFits DEF TypeOK, registerVars
<1>. QED BY <1>1, <1>3, AnalyzedKept, GateAnswersKept, PassedGrows, ExitKept DEF IInv

LEMMA EvaluateGateKeeps ==
  ASSUME IInv, EvaluateGate
  PROVE  IInv'
<1>1. PICK b \in BOOLEAN : log' = Append(log, <<"gate", b>>)
  BY DEF EvaluateGate, GatePasses
<1>. QED BY <1>1, AnswerKeeps DEF EvaluateGate, Publishing

LEMMA CheckDecisionKeeps ==
  ASSUME IInv, CheckDecision
  PROVE  IInv'
<1>1. PICK b \in BOOLEAN : log' = Append(log, <<"allowed", b>>) /\ hearing' = ~b
  BY DEF CheckDecision
<1>2. hearing' \in BOOLEAN /\ out' = out /\ Proceed("freeze")
  BY <1>1 DEF CheckDecision
<1>3. UNCHANGED <<heard, registerVars, held, synthesis, decision>>
  BY DEF CheckDecision
<1>. QED BY <1>1, <1>2, <1>3, AnswerKeeps

LEMMA CheckAcknowledgmentsKeeps ==
  ASSUME IInv, CheckAcknowledgments
  PROVE  IInv'
<1>1. PICK b \in BOOLEAN : log' = Append(log, <<"acknowledged", b>>)
  BY DEF CheckAcknowledgments
<1>2. hearing' \in BOOLEAN /\ out' = out /\ Proceed("check acknowledgments")
  BY DEF CheckAcknowledgments, Quietly
<1>3. UNCHANGED <<heard, registerVars, held, synthesis, decision>>
  BY DEF CheckAcknowledgments
<1>4. "check acknowledgments" \notin {"analyze", "exit", "gate"}
  OBVIOUS
<1>. QED BY <1>1, <1>2, <1>3, <1>4, AnswerKeeps

LEMMA StopKeeps ==
  ASSUME IInv, StopUnlessPassed
  PROVE  IInv'
<1>1. /\ Proceed("exit") /\ hearing' = FALSE /\ held' = held /\ log' = log
      /\ out' = IF ~LastAnswer THEN "gate failed" ELSE out
  BY DEF StopUnlessPassed, EndsIf, resultVars
<1>2. TypeOK'
  BY <1>1, InstructionFits
  DEF IInv, TypeOK, Outcomes, StopUnlessPassed, registerVars, resultVars
<1>3. out = "running" /\ (out' = "running" => LastAnswer)
  BY <1>1, InstructionFits DEF IInv
<1>. QED BY <1>1, <1>2, <1>3, AnalyzedKept, GateAnswersKept, PassedGrows, ExitKept DEF IInv

\* Between instructions the script does not move.
LEMMA BetweenInstructionsKeeps ==
  ASSUME IInv, TypeOK', UNCHANGED <<script, pc, held, log>>, out' = "running" => out = "running"
  PROVE  IInv'
  BY DEF IInv, AnalyzedIsHeld, GateAnswers, ExitMeansPassed, GatePassed

LEMMA ReturnKeeps ==
  ASSUME IInv, Return
  PROVE  IInv' /\ log' = log
<1>1. TypeOK' /\ UNCHANGED <<script, pc, held, log>> /\ out' = "returned"
  BY DEF IInv, TypeOK, Return, Outcomes, busVars, registerVars, resultVars
<1>. QED BY <1>1, BetweenInstructionsKeeps

LEMMA StutterKeeps ==
  ASSUME IInv, UNCHANGED vars
  PROVE  IInv' /\ log' = log
<1>1. TypeOK' /\ UNCHANGED <<script, pc, held, log, out>>
  BY DEF IInv, TypeOK, vars, busVars, callVars, registerVars, resultVars
<1>. QED BY <1>1, BetweenInstructionsKeeps

-----------------------------------------------------------------------------
(* Subscribers.                                                             *)

LEMMA ReplyFits ==
  ASSUME IInv, Reply, versions' \in [Gears -> Seq(Perspective)], disputes' \in Nat,
         \A g \in Gears : Len(versions'[g]) >= Len(versions[g])
  PROVE  IInv' /\ log' = log
<1>1. UNCHANGED <<script, pc, held, log, out>>
  BY DEF Reply, callVars, resultVars
<1>2. replies' \in 0 .. MaxReplies
  BY InputAssumption DEF Reply, IInv, TypeOK
<1>3. \A g \in Gears : held'[g] <= Len(versions'[g])
  <2>. TAKE g \in Gears
  <2>1. Len(versions[g]) \in Nat /\ Len(versions'[g]) \in Nat /\ held[g] \in Nat
    BY DEF IInv, TypeOK
  <2>. QED BY <1>1, <2>1 DEF IInv, TypeOK
<1>4. TypeOK'
  BY <1>1, <1>2, <1>3 DEF IInv, TypeOK, Reply, callVars, resultVars
<1>. QED BY <1>1, <1>4, BetweenInstructionsKeeps

LEMMA SubscribersKeep ==
  ASSUME IInv, Subscribers
  PROVE  IInv' /\ log' = log
<1>1. /\ versions \in [Gears -> Seq(Perspective)] /\ disputes \in Nat /\ Repliers \subseteq Gears
      /\ \A g \in Gears : Len(versions[g]) \in Nat
  BY InputAssumption DEF IInv, TypeOK
<1>2. CASE HandlerRaises
  <2>1. TypeOK' /\ UNCHANGED <<script, pc, held, log>> /\ out' = "raised"
    BY <1>2 DEF IInv, TypeOK, HandlerRaises, Outcomes, registerVars, resultVars
  <2>. QED BY <2>1, BetweenInstructionsKeeps
<1>3. ASSUME NEW g \in Repliers, Contradict(g)
      PROVE  IInv' /\ log' = log
  BY <1>1, <1>3, ReplyFits DEF Contradict
<1>4. ASSUME NEW g \in Repliers, NEW v \in 1 .. Len(versions[g]),
             \/ Resubmit(g, v) \/ Approve(g, v) \/ SendBack(g, v) \/ Reject(g, v)
             \/ Escalate(g, v) \/ MarkTimedOut(g, v)
      PROVE  IInv' /\ log' = log
  <2>1. PICK s \in PerspectiveStatus : versions' = WithStatus(g, v, s)
    BY <1>4 DEF Resubmit, Approve, SendBack, Reject, Escalate, MarkTimedOut, PerspectiveStatus
  <2>2. Reply /\ disputes' = disputes
    BY <1>4 DEF Resubmit, Approve, SendBack, Reject, Escalate, MarkTimedOut, ReplyAbout
  <2>3. g \in Gears /\ v \in Nat
    BY <1>1
  <2>4. /\ versions' \in [Gears -> Seq(Perspective)]
        /\ \A h \in Gears : Len(versions'[h]) >= Len(versions[h])
    BY <1>1, <2>1, <2>3, StatusKeepsVersions
  <2>. QED BY <1>1, <2>2, <2>4, ReplyFits
<1>5. ASSUME NEW g \in Repliers, NEW v \in 1 .. Len(versions[g]), Supersede(g, v)
      PROVE  IInv' /\ log' = log
  <2>1. PICK words \in {versions[g][v].words, {}} : versions' = NewVersion(g, words)
    BY <1>5 DEF Supersede
  <2>2. Reply /\ disputes' = disputes
    BY <1>5 DEF Supersede, ReplyAbout
  <2>3. versions[g][v] \in Perspective
    BY <1>1
  <2>4. [status |-> "CREATED", words |-> words] \in Perspective
    BY <2>3 DEF Perspective, PerspectiveStatus
  <2>5. /\ versions' \in [Gears -> Seq(Perspective)]
        /\ \A h \in Gears : Len(versions'[h]) >= Len(versions[h])
    BY <1>1, <2>1, <2>4, VersionKeepsVersions DEF NewVersion
  <2>. QED BY <1>1, <2>2, <2>5, ReplyFits
<1>. QED BY <1>2, <1>3, <1>4, <1>5 DEF Subscribers

-----------------------------------------------------------------------------
(* The invariant.                                                           *)

LEMMA StepKeeps ==
  ASSUME IInv, [Next]_vars
  PROVE  IInv' /\ (EvaluateGate \/ CheckDecision \/ CheckAcknowledgments \/ log' = log)
<1>1. CASE Coordinator
  <2>1. StopUnlessPassed => log' = log
    BY DEF StopUnlessPassed, resultVars
  <2>. QED BY <1>1, <2>1, BookkeepingKeeps, ReviewKeeps, AnalyzeKeeps, UpdateKeeps,
              EvaluateGateKeeps, CheckDecisionKeeps, CheckAcknowledgmentsKeeps, StopKeeps,
              ReturnKeeps
           DEF Coordinator
<1>2. CASE Subscribers
  BY <1>2, SubscribersKeep
<1>3. CASE UNCHANGED vars
  BY <1>3, StutterKeeps
<1>. QED BY <1>1, <1>2, <1>3 DEF Next

LEMMA Invariance == Spec => []IInv
<1>1. IInv /\ [Next]_vars => IInv'
  BY StepKeeps
<1>. QED BY InitHolds, <1>1, PTL DEF Spec

\* The register, the caller's list, the log and the results keep their types,
\* and the caller's list refers to versions that exist.
THEOREM DiscoveryTypeOK == Spec => []TypeOK
<1>1. IInv => TypeOK
  BY DEF IInv
<1>. QED BY Invariance, <1>1, PTL

-----------------------------------------------------------------------------
(* Refinement.                                                              *)

Reviewing == ReviewedDecision!Next \/ UNCHANGED ReviewedDecision!vars

\* Only Decide writes the decision, and nothing changes the script.
LEMMA DecisionIsDecides ==
  ASSUME [Next]_vars
  PROVE  script' = script /\ (Decide \/ decision' = decision)
<1>. USE DEF Proceed, Publishing, Quietly, EndsIf, resultVars, callVars
<1>1. CASE Coordinator
  <2>1. CASE Validate \/ RegisterDiscovery \/ BroadcastDiscovery \/ RetryGear \/ ReceiveDiscovery
               \/ AcknowledgeReceipt \/ RecordAcknowledgment \/ CheckAcknowledgments
    BY <2>1 DEF Validate, RegisterDiscovery, BroadcastDiscovery, RetryGear, ReceiveDiscovery,
                AcknowledgeReceipt, RecordAcknowledgment, CheckAcknowledgments
  <2>2. CASE UpdateStatus \/ Analyze \/ SubmitToManager \/ ReviewPass \/ ReviewRework
               \/ UpdatePerspective \/ PublishApproved \/ OpenContradiction
    BY <2>2 DEF UpdateStatus, Analyze, SubmitToManager, ReviewPass, ReviewRework, SetInList,
                UpdatePerspective, PublishApproved, OpenContradiction
  <2>3. CASE EvaluateGate \/ StopUnlessPassed \/ CheckDecision
               \/ StartSynthesis \/ Synthesize \/ StartDecision \/ Decide \/ File \/ Return
    BY <2>3 DEF EvaluateGate, StopUnlessPassed, CheckDecision,
                StartSynthesis, Synthesize, StartDecision, Decide, File, Return
  <2>. QED BY <1>1, <2>1, <2>2, <2>3 DEF Coordinator
<1>2. CASE Subscribers
  BY <1>2 DEF Subscribers, Contradict, Resubmit, Approve, SendBack, Reject, Escalate,
              MarkTimedOut, Supersede, ReplyAbout, Reply, HandlerRaises
<1>3. CASE UNCHANGED vars
  BY <1>3 DEF vars
<1>. QED BY <1>1, <1>2, <1>3 DEF Next

\* What is not a gate's answer does not pass, nor does a gate's refusal.
LEMMA OtherAnswersPassNothing ==
  ASSUME TypeOK, NEW t \in {"gate", "allowed", "acknowledged"}, NEW b \in BOOLEAN,
         log' = Append(log, <<t, b>>), t = "gate" => b = FALSE
  PROVE  GatePassed' = GatePassed
<1>1. log \in Seq({"gate", "allowed", "acknowledged"} \X BOOLEAN)
  BY DEF TypeOK
<1>2. Len(log') = Len(log) + 1 /\ log'[Len(log) + 1] = <<t, b>>
  BY <1>1
<1>3. \A i \in 1 .. Len(log) : log'[i] = log[i]
  BY <1>1
<1>4. log'[Len(log) + 1] # <<"gate", TRUE>>
  <2>1. CASE t # "gate"
    <3>1. log'[Len(log) + 1][1] = t
      BY <1>2
    <3>2. <<"gate", TRUE>>[1] = "gate"
      OBVIOUS
    <3>. QED BY <2>1, <3>1, <3>2
  <2>2. CASE b = FALSE
    <3>1. log'[Len(log) + 1][2] = FALSE
      BY <1>2, <2>2
    <3>2. <<"gate", TRUE>>[2] = TRUE
      OBVIOUS
    <3>. QED BY <3>1, <3>2
  <2>. QED BY <2>1, <2>2
<1>5. \A i \in 1 .. Len(log') : i \in 1 .. Len(log) \/ i = Len(log) + 1
  BY <1>1, <1>2
<1>6. Len(log) \in Nat /\ \A i \in 1 .. Len(log) : i \in 1 .. Len(log')
  BY <1>1, <1>2
<1>. QED BY <1>3, <1>4, <1>5, <1>6 DEF GatePassed

LEMMA GateRefines ==
  ASSUME IInv, EvaluateGate
  PROVE  Reviewing
<1>1. /\ ApprovedInList' = ApprovedInList /\ decision' = decision /\ script' = script
      /\ log \in Seq({"gate", "allowed", "acknowledged"} \X BOOLEAN) /\ TypeOK
  BY DEF IInv, TypeOK, EvaluateGate, Publishing, Proceed, registerVars,
         ApprovedInList, Listed, InList
<1>2. PICK b \in BOOLEAN : log' = Append(log, <<"gate", b>>) /\ (b => GatePasses)
  BY DEF EvaluateGate, GatePasses
<1>3. CASE b = TRUE
  <2>1. ApprovedInList = Gears
    BY <1>2, <1>3 DEF GatePasses, ApprovedInList, Listed
  <2>2. log' = Append(log, <<"gate", TRUE>>)
    BY <1>2, <1>3
  <2>. DEFINE e == <<"gate", TRUE>>
  <2>3. log' = Append(log, e) /\ e \in {"gate", "allowed", "acknowledged"} \X BOOLEAN
    BY <2>2
  <2>. HIDE DEF e
  <2>4. Len(log') = Len(log) + 1 /\ log'[Len(log) + 1] = e /\ Len(log) \in Nat
    BY <1>1, <2>3
  <2>5. Len(log) + 1 \in 1 .. Len(log')
    BY <2>4
  <2>6. GatePassed'
    BY <2>4, <2>5, Zenon DEF GatePassed, e
  <2>. QED BY <1>1, <2>1, <2>6
           DEF Reviewing, ReviewedDecision!Next, ReviewedDecision!Pass
<1>4. CASE b = FALSE
  <2>1. GatePassed' = GatePassed
    BY <1>1, <1>2, <1>4, OtherAnswersPassNothing
  <2>. QED BY <1>1, <2>1 DEF Reviewing, ReviewedDecision!vars
<1>. QED BY <1>3, <1>4

LEMMA OtherAnswerRefines ==
  ASSUME IInv, CheckDecision \/ CheckAcknowledgments
  PROVE  Reviewing
<1>1. PICK t \in {"allowed", "acknowledged"}, b \in BOOLEAN : log' = Append(log, <<t, b>>)
  BY DEF CheckDecision, CheckAcknowledgments
<1>2. GatePassed' = GatePassed
  BY <1>1, OtherAnswersPassNothing DEF IInv
<1>3. ApprovedInList' = ApprovedInList /\ decision' = decision /\ script' = script
  BY DEF CheckDecision, CheckAcknowledgments, Quietly, Proceed, registerVars,
         ApprovedInList, Listed, InList
<1>. QED BY <1>2, <1>3 DEF Reviewing, ReviewedDecision!vars

\* A guarded script has left an exit behind before it decides.
LEMMA DecideRefines ==
  ASSUME IInv, Decide
  PROVE  Reviewing
<1>1. /\ ApprovedInList' = ApprovedInList /\ GatePassed' = GatePassed /\ script' = script
      /\ decision' = DirectorChooses(synthesis)
  BY DEF Decide, Publishing, Proceed, registerVars, ApprovedInList, Listed, InList, GatePassed
<1>2. decision' # "NONE"
  BY <1>1 DEF DirectorChooses
<1>3. CASE script \in Guarded
  <2>1. /\ pc \in 1 .. Len(Script[script]) /\ Script[script][pc][1] = "decide"
        /\ out = "running" /\ script \in Scripts
    BY InstructionFits DEF IInv, TypeOK, Decide, Publishing
  <2>2. \E j \in 1 .. pc - 1 : Script[script][j][1] = "exit"
    BY <1>3, <2>1, ScriptAssumption
  <2>3. GatePassed
    BY <2>1, <2>2 DEF IInv, ExitMeansPassed
  <2>. QED BY <1>1, <1>2, <1>3, <2>3
           DEF Reviewing, ReviewedDecision!Next, ReviewedDecision!Decide
<1>4. CASE script \notin Guarded
  BY <1>1, <1>4 DEF Reviewing, ReviewedDecision!vars
<1>. QED BY <1>3, <1>4

\* A method that stops at a failed gate decides only after a gate that found
\* the four perspectives approved, whatever subscribers do.
THEOREM DiscoveryImplementsReviewedDecision == Spec => ImplementsReviewedDecision
<1>1. Init => ReviewedDecision!Init
  BY DEF Init, ReviewedDecision!Init, ApprovedInList, Listed, GatePassed
<1>2. IInv /\ [Next]_vars => [ReviewedDecision!Next]_(ReviewedDecision!vars)
  <2>. SUFFICES ASSUME IInv, [Next]_vars
                PROVE  Reviewing
    BY DEF Reviewing
  <2>1. CASE log' = log /\ decision' = decision /\ script' = script
    <3>1. GatePassed' = GatePassed
      BY <2>1 DEF GatePassed
    <3>2. ApprovedInList' \in SUBSET Gears
      BY DEF ApprovedInList, Listed
    <3>. QED BY <2>1, <3>1, <3>2
             DEF Reviewing, ReviewedDecision!Next, ReviewedDecision!Review
  <2>2. CASE EvaluateGate
    BY <2>2, GateRefines
  <2>3. CASE CheckDecision \/ CheckAcknowledgments
    BY <2>3, OtherAnswerRefines
  <2>4. CASE Decide
    BY <2>4, DecideRefines
  <2>. QED BY <2>1, <2>2, <2>3, <2>4, StepKeeps, DecisionIsDecides
<1>. QED BY <1>1, <1>2, Invariance, PTL
         DEF Spec, ImplementsReviewedDecision, ReviewedDecision!Spec


-----------------------------------------------------------------------------
(* What has been done of the script, and what it leaves behind.             *)

Done == Before(script, pc)

Bookkept == <<acked, heard, filed, status, synthesis, decision>>

\* What the instruction op does to the register, the bus and the results.
Effect(op) ==
  /\ acked' = IF op = "record acknowledgment" THEN acked \cup {Argument} ELSE acked
  /\ heard' = IF op = "acknowledge" THEN heard \cup {Argument} ELSE heard
  /\ filed' = IF op = "file" THEN filed \cup {Argument} ELSE filed
  /\ status' = CASE op = "register" -> "REGISTERED"
                 [] op = "status" -> Argument
                 [] OTHER -> status
  /\ synthesis' = IF op = "synthesize" THEN SynthesisOf(List, 1 .. disputes) ELSE synthesis
  /\ decision' = IF op = "decide" THEN DirectorChooses(synthesis) ELSE decision
  /\ op \in Asking \/ log' = log

\* A step executes one instruction with its effect, or leaves all that alone.
LEMMA StepEffect ==
  ASSUME TypeOK, [Next]_vars
  PROVE  \/ \E op : Proceed(op) /\ Effect(op)
         \/ UNCHANGED <<script, input, pc, log, Bookkept>>
<1>. USE DEF Effect, Asking, Quietly, Publishing, EndsIf, registerVars, resultVars
<1>1. CASE Coordinator
  <2>1. CASE Validate \/ RegisterDiscovery \/ BroadcastDiscovery \/ RetryGear \/ ReceiveDiscovery
    <3>1. CASE Validate
      BY <3>1 DEF Validate
    <3>2. CASE RegisterDiscovery
      BY <3>2 DEF RegisterDiscovery
    <3>3. CASE BroadcastDiscovery
      BY <3>3 DEF BroadcastDiscovery
    <3>4. CASE RetryGear
      BY <3>4 DEF RetryGear
    <3>5. CASE ReceiveDiscovery
      BY <3>5 DEF ReceiveDiscovery
    <3>. QED BY <2>1, <3>1, <3>2, <3>3, <3>4, <3>5
  <2>2. CASE AcknowledgeReceipt \/ RecordAcknowledgment \/ CheckAcknowledgments \/ UpdateStatus
    <3>1. CASE AcknowledgeReceipt
      BY <3>1 DEF AcknowledgeReceipt
    <3>2. CASE RecordAcknowledgment
      BY <3>2 DEF RecordAcknowledgment
    <3>3. CASE CheckAcknowledgments
      BY <3>3 DEF CheckAcknowledgments
    <3>4. CASE UpdateStatus
      BY <3>4 DEF UpdateStatus
    <3>. QED BY <2>2, <3>1, <3>2, <3>3, <3>4
  <2>3. CASE Analyze \/ SubmitToManager \/ ReviewPass \/ ReviewRework \/ UpdatePerspective
    <3>1. CASE Analyze
      BY <3>1 DEF Analyze
    <3>2. CASE SubmitToManager
      BY <3>2 DEF SubmitToManager, SetInList
    <3>3. CASE ReviewPass
      BY <3>3 DEF ReviewPass, SetInList
    <3>4. CASE ReviewRework
      BY <3>4 DEF ReviewRework, SetInList
    <3>5. CASE UpdatePerspective
      BY <3>5 DEF UpdatePerspective
    <3>. QED BY <2>3, <3>1, <3>2, <3>3, <3>4, <3>5
  <2>4. CASE PublishApproved \/ OpenContradiction \/ EvaluateGate \/ StopUnlessPassed
             \/ CheckDecision
    <3>1. CASE PublishApproved
      BY <3>1 DEF PublishApproved
    <3>2. CASE OpenContradiction
      BY <3>2 DEF OpenContradiction
    <3>3. CASE EvaluateGate
      BY <3>3 DEF EvaluateGate
    <3>4. CASE StopUnlessPassed
      BY <3>4 DEF StopUnlessPassed
    <3>5. CASE CheckDecision
      BY <3>5 DEF CheckDecision
    <3>. QED BY <2>4, <3>1, <3>2, <3>3, <3>4, <3>5
  <2>5. CASE StartSynthesis \/ Synthesize \/ StartDecision \/ Decide \/ File \/ Return
    <3>1. CASE StartSynthesis
      BY <3>1 DEF StartSynthesis
    <3>2. CASE Synthesize
      BY <3>2 DEF Synthesize
    <3>3. CASE StartDecision
      BY <3>3 DEF StartDecision
    <3>4. CASE Decide
      BY <3>4 DEF Decide
    <3>5. CASE File
      BY <3>5 DEF File
    <3>6. CASE Return
      BY <3>6 DEF Return, Bookkept, busVars
    <3>. QED BY <2>5, <3>1, <3>2, <3>3, <3>4, <3>5, <3>6
  <2>. QED BY <1>1, <2>1, <2>2, <2>3, <2>4, <2>5 DEF Coordinator
<1>2. CASE Subscribers
  <2>1. Reply \/ HandlerRaises
    BY <1>2 DEF Subscribers, Contradict, Resubmit, Approve, SendBack, Reject, Escalate,
                MarkTimedOut, Supersede, ReplyAbout
  <2>2. UNCHANGED <<script, input, pc, log, Bookkept>>
    BY <2>1 DEF Reply, HandlerRaises, callVars, Bookkept
  <2>. QED BY <2>2
<1>3. CASE UNCHANGED vars
  BY <1>3 DEF vars, callVars, busVars, Bookkept
<1>. QED BY <1>1, <1>2, <1>3 DEF Next

\* An instruction joins what is done; what it relies on was done before.
LEMMA DoneGrows ==
  ASSUME TypeOK, NEW op, Proceed(op)
  PROVE  /\ script' = script /\ input' = input
         /\ <<op, Argument>> \in Done' /\ Done \subseteq Done'
         /\ \A x \in Done' : x \in Done \/ x = <<op, Argument>>
         /\ op = "record acknowledgment" => <<"acknowledge", Argument>> \in Done
         /\ op = "gate" => \A g \in Gears : <<"record acknowledgment", g>> \in Done
         /\ op = "status" => /\ \A g \in Gears : <<"record acknowledgment", g>> \in Done
                            /\ Argument # "NONE"
         /\ op = "status" /\ Argument \in {"IN_REVIEW", "SYNTHESIZED", "DECIDED"}
              => \A g \in Gears : <<"analyze", g>> \in Done
         /\ op = "status" /\ Argument \in {"SYNTHESIZED", "DECIDED"}
              => <<"file", "synthesis">> \in Done
         /\ op = "status" /\ Argument = "DECIDED" => <<"file", "decision">> \in Done
         /\ op = "synthesize" => \A g \in Gears : <<"analyze", g>> \in Done
         /\ op = "decide" => <<"synthesize", "">> \in Done
<1>1. /\ script \in Scripts /\ pc \in 1 .. Len(Script[script]) /\ pc' = pc + 1
      /\ script' = script /\ input' = input /\ Script[script][pc][1] = op
  BY InstructionFits DEF TypeOK
<1>2. Script[script][pc] = <<op, Argument>>
  <2>1. Script[script] \in Seq(STRING \X STRING)
    BY <1>1, ScriptAssumption
  <2>2. Script[script][pc] \in STRING \X STRING
    BY <1>1, <2>1
  <2>. QED BY <1>1, <2>2 DEF Argument
<1>3. Done' = {Script[script][j] : j \in 1 .. pc}
  BY <1>1 DEF Done, Before
<1>4. /\ <<op, Argument>> \in Done' /\ Done \subseteq Done'
      /\ \A x \in Done' : x \in Done \/ x = <<op, Argument>>
  <2>1. <<op, Argument>> \in Done'
    BY <1>1, <1>2, <1>3
  <2>2. Done \subseteq Done'
    BY <1>1, <1>3 DEF Done, Before
  <2>3. ASSUME NEW x \in Done'
        PROVE  x \in Done \/ x = <<op, Argument>>
    <3>1. PICK j \in 1 .. pc : x = Script[script][j]
      BY <1>3
    <3>2. CASE j = pc
      BY <1>2, <3>1, <3>2
    <3>3. CASE j # pc
      BY <1>1, <3>1, <3>3 DEF Done, Before
    <3>. QED BY <3>2, <3>3
  <2>. QED BY <2>1, <2>2, <2>3
<1>5. /\ op = "record acknowledgment" => <<"acknowledge", Argument>> \in Done
      /\ op = "gate" => \A g \in Gears : <<"record acknowledgment", g>> \in Done
      /\ op = "status" => /\ \A g \in Gears : <<"record acknowledgment", g>> \in Done
                         /\ Argument # "NONE"
      /\ op = "status" /\ Argument \in {"IN_REVIEW", "SYNTHESIZED", "DECIDED"}
           => \A g \in Gears : <<"analyze", g>> \in Done
      /\ op = "status" /\ Argument \in {"SYNTHESIZED", "DECIDED"}
           => <<"file", "synthesis">> \in Done
      /\ op = "status" /\ Argument = "DECIDED" => <<"file", "decision">> \in Done
      /\ op = "synthesize" => \A g \in Gears : <<"analyze", g>> \in Done
      /\ op = "decide" => <<"synthesize", "">> \in Done
  BY <1>1, OrderAssumption DEF Argument, Done
<1>. QED BY <1>1, <1>4, <1>5

-----------------------------------------------------------------------------
(* The register follows the script.                                         *)

\* What the bus and the register hold, by what has been done.
RegisterFollows ==
  /\ \A g \in Gears : <<"acknowledge", g>> \in Done => g \in heard
  /\ \A g \in Gears : g \in acked <=> <<"record acknowledgment", g>> \in Done
  /\ acked \subseteq heard
  /\ \A f \in {"synthesis", "decision"} : <<"file", f>> \in Done => f \in filed

\* What the status announces has been done.
StatusFollows ==
  /\ status \in {"BROADCAST", "IN_REVIEW", "SYNTHESIZED", "DECIDED"}
       => \A g \in Gears : <<"record acknowledgment", g>> \in Done
  /\ status \in {"IN_REVIEW", "SYNTHESIZED", "DECIDED"}
       => \A g \in Gears : <<"analyze", g>> \in Done
  /\ status \in {"SYNTHESIZED", "DECIDED"} => <<"file", "synthesis">> \in Done
  /\ status = "DECIDED" => <<"file", "decision">> \in Done

\* A gate has passed only after all four acknowledgments.
PassFollows ==
  GatePassed => \A g \in Gears : <<"record acknowledgment", g>> \in Done

RInv == RegisterFollows /\ StatusFollows /\ PassFollows

LEMMA InitRegister == Init => RInv
<1>. SUFFICES ASSUME Init PROVE RInv
  OBVIOUS
<1>1. Done = {}
  BY DEF Init, Done, Before
<1>2. ~GatePassed
  BY DEF Init, GatePassed
<1>. QED BY <1>1, <1>2 DEF Init, RInv, RegisterFollows, StatusFollows, PassFollows

LEMMA RegisterKept ==
  ASSUME IInv, RegisterFollows, NEW op, Proceed(op), Effect(op)
  PROVE  RegisterFollows'
<1>1. /\ <<op, Argument>> \in Done' /\ Done \subseteq Done'
      /\ \A x \in Done' : x \in Done \/ x = <<op, Argument>>
      /\ op = "record acknowledgment" => <<"acknowledge", Argument>> \in Done
  BY DoneGrows DEF IInv
<1>2. \A k, a : <<k, a>> \in Done' => <<k, a>> \in Done \/ (k = op /\ a = Argument)
  BY <1>1
<1>3. op = "record acknowledgment" => Argument \in Gears
  BY InstructionFits DEF IInv, GearOperations
<1>4. \A g \in Gears : (<<"acknowledge", g>> \in Done)' => g \in heard'
  BY <1>2 DEF RegisterFollows, Effect
<1>5. \A g \in Gears : g \in acked' <=> (<<"record acknowledgment", g>> \in Done)'
  BY <1>1, <1>2 DEF RegisterFollows, Effect
<1>6. acked' \subseteq heard'
  BY <1>1, <1>3 DEF RegisterFollows, Effect
<1>7. \A f \in {"synthesis", "decision"} : (<<"file", f>> \in Done)' => f \in filed'
  BY <1>2 DEF RegisterFollows, Effect
<1>. QED BY <1>4, <1>5, <1>6, <1>7 DEF RegisterFollows

LEMMA StatusKept ==
  ASSUME IInv, StatusFollows, NEW op, Proceed(op), Effect(op)
  PROVE  StatusFollows'
<1>1. Done \subseteq Done'
  BY DoneGrows DEF IInv
<1>2. CASE op = "status"
  BY <1>1, <1>2, DoneGrows DEF IInv, StatusFollows, Effect
<1>3. CASE op # "status"
  <2>1. status' \in {"REGISTERED", status}
    BY <1>3 DEF Effect
  <2>. QED BY <1>1, <2>1 DEF StatusFollows
<1>. QED BY <1>2, <1>3

LEMMA PassKept ==
  ASSUME IInv, PassFollows, [Next]_vars, NEW op, Proceed(op), Effect(op)
  PROVE  PassFollows'
<1>1. Done \subseteq Done'
  BY DoneGrows DEF IInv
<1>2. CASE op = "gate"
  BY <1>1, <1>2, DoneGrows DEF IInv, PassFollows
<1>3. CASE op # "gate"
  <2>1. ~EvaluateGate
    BY <1>3 DEF EvaluateGate, Publishing, Proceed
  <2>2. GatePassed' = GatePassed
    <3>1. CASE log' = log
      BY <3>1 DEF GatePassed
    <3>2. CASE CheckDecision \/ CheckAcknowledgments
      <4>1. PICK t \in {"allowed", "acknowledged"}, b \in BOOLEAN : log' = Append(log, <<t, b>>)
        BY <3>2 DEF CheckDecision, CheckAcknowledgments
      <4>. QED BY <4>1, OtherAnswersPassNothing DEF IInv
    <3>. QED BY <2>1, <3>1, <3>2, StepKeeps
  <2>. QED BY <1>1, <2>2 DEF PassFollows
<1>. QED BY <1>2, <1>3

LEMMA NextRegister ==
  ASSUME IInv, RInv, [Next]_vars
  PROVE  RInv'
<1>1. ASSUME NEW op, Proceed(op), Effect(op)
      PROVE  RInv'
  BY <1>1, RegisterKept, StatusKept, PassKept DEF RInv
<1>2. CASE UNCHANGED <<script, input, pc, log, Bookkept>>
  <2>1. Done' = Done /\ GatePassed' = GatePassed
    BY <1>2 DEF Done, Before, GatePassed
  <2>. QED BY <1>2, <2>1 DEF RInv, RegisterFollows, StatusFollows, PassFollows, Bookkept
<1>. QED BY <1>1, <1>2, StepEffect DEF IInv

LEMMA RegisterInvariance == Spec => [](IInv /\ RInv)
<1>1. IInv /\ RInv /\ [Next]_vars => (IInv /\ RInv)'
  BY StepKeeps, NextRegister
<1>. QED BY InitHolds, InitRegister, <1>1, PTL DEF Spec

\* What has been analyzed has a version in the register.
LEMMA AnalyzedHasVersion ==
  ASSUME IInv, NEW g \in Gears, <<"analyze", g>> \in Done
  PROVE  held[g] # 0 /\ versions[g] # <<>>
<1>1. PICK j \in 1 .. pc - 1 : Script[script][j] = <<"analyze", g>>
  BY DEF Done, Before
<1>2. held[g] # 0
  BY <1>1 DEF IInv, AnalyzedIsHeld
<1>3. held[g] <= Len(versions[g]) /\ held[g] \in Nat
  BY DEF IInv, TypeOK
<1>. QED BY <1>2, <1>3

\* The lifecycle status stands on the records it announces, whatever
\* subscribers do and wherever one of their exceptions ends the call.
THEOREM DiscoveryStatusBacked == Spec => []StatusBacked
<1>1. IInv /\ RInv => StatusBacked
  <2>. SUFFICES ASSUME IInv, RInv PROVE StatusBacked
    OBVIOUS
  <2>1. /\ \A g \in Gears : <<"record acknowledgment", g>> \in Done => g \in acked
        /\ acked \subseteq Gears
    BY DEF RInv, RegisterFollows, IInv, TypeOK
  <2>2. /\ <<"file", "synthesis">> \in Done => "synthesis" \in filed
        /\ <<"file", "decision">> \in Done => "decision" \in filed
    BY DEF RInv, RegisterFollows
  <2>. QED BY <2>1, <2>2, AnalyzedHasVersion
           DEF RInv, StatusFollows, StatusBacked, SynthesisNotFound
<1>. QED BY RegisterInvariance, <1>1, PTL

\* The literal handed to the gate is true whenever a gate passes: all four
\* acknowledgments are recorded, and each of them was heard on the bus.
THEOREM PassedIsAcknowledged == Spec => []PassedWasAcknowledged
<1>1. IInv /\ RInv => PassedWasAcknowledged
  BY DEF IInv, TypeOK, RInv, RegisterFollows, PassFollows, PassedWasAcknowledged
<1>. QED BY RegisterInvariance, <1>1, PTL

-----------------------------------------------------------------------------
(* What the synthesis reads.                                                *)

\* The version in the caller's list says what the engine wrote: subscribers
\* change its status, or add versions that are not in the list.
ListSaysAnalysis ==
  \A g \in Listed : InList(g).words = Analysis(g, input).words

LEMMA StatusKeepsWords ==
  ASSUME versions \in [Gears -> Seq(Perspective)], NEW g \in Gears, NEW v \in Nat,
         NEW s \in PerspectiveStatus, NEW h \in Gears, NEW w \in 1 .. Len(versions[h])
  PROVE  WithStatus(g, v, s)[h][w].words = versions[h][w].words
<1>1. versions[h][w] \in Perspective
  OBVIOUS
<1>2. CASE g = h /\ v = w
  <2>1. WithStatus(g, v, s)[h][w] = [versions[h][w] EXCEPT !.status = s]
    BY <1>2 DEF WithStatus
  <2>. QED BY <1>1, <2>1 DEF Perspective
<1>3. CASE ~(g = h /\ v = w)
  <2>1. WithStatus(g, v, s)[h][w] = versions[h][w]
    BY <1>3 DEF WithStatus
  <2>. QED BY <2>1
<1>. QED BY <1>2, <1>3

LEMMA VersionKeepsWords ==
  ASSUME versions \in [Gears -> Seq(Perspective)], NEW g \in Gears,
         NEW p \in Perspective, NEW h \in Gears, NEW w \in 1 .. Len(versions[h])
  PROVE  WithVersion(g, p)[h][w] = versions[h][w]
  BY DEF WithVersion

\* A step leaves perspectives alone, changes a status, adds a version, or puts
\* a version with the same words into the caller's list.
Amended(g) ==
  /\ held' = held
  /\ \/ \E v \in Nat, s \in PerspectiveStatus : versions' = WithStatus(g, v, s)
     \/ \E p \in Perspective : versions' = WithVersion(g, p)

Listing(g) ==
  /\ held' = [held EXCEPT ![g] = Len(versions[g]) + 1]
  /\ \E p \in Perspective : /\ versions' = WithVersion(g, p)
                            /\ p.words = Analysis(g, input).words

LEMMA ReviewStep ==
  ASSUME IInv, ListSaysAnalysis, [Next]_vars
  PROVE  /\ input' = input
         /\ \/ UNCHANGED <<versions, held>>
            \/ \E g \in Gears : Amended(g) \/ Listing(g)
<1>1. /\ input \in Discoveries /\ versions \in [Gears -> Seq(Perspective)]
      /\ held \in [Gears -> Nat] /\ Repliers \subseteq Gears
      /\ \A g \in Gears : Len(versions[g]) \in Nat
  BY InputAssumption DEF IInv, TypeOK
<1>2. input' = input
  BY StepEffect, DoneGrows DEF IInv
<1>3. CASE Coordinator
  <2>1. CASE Validate \/ RegisterDiscovery \/ BroadcastDiscovery \/ RetryGear \/ ReceiveDiscovery
               \/ AcknowledgeReceipt \/ RecordAcknowledgment \/ CheckAcknowledgments
               \/ UpdateStatus \/ PublishApproved \/ OpenContradiction
    BY <1>2, <2>1 DEF Validate, RegisterDiscovery, BroadcastDiscovery, RetryGear, ReceiveDiscovery,
                AcknowledgeReceipt, RecordAcknowledgment, CheckAcknowledgments,
                UpdateStatus, PublishApproved, OpenContradiction, registerVars
  <2>2. CASE EvaluateGate \/ StopUnlessPassed \/ CheckDecision
               \/ StartSynthesis \/ Synthesize \/ StartDecision \/ Decide \/ File \/ Return
    BY <1>2, <2>2 DEF EvaluateGate, StopUnlessPassed, CheckDecision,
                StartSynthesis, Synthesize, StartDecision, Decide, File, Return, registerVars
  <2>3. CASE SubmitToManager \/ ReviewPass \/ ReviewRework
    <3>1. PICK op \in {"submit", "pass", "rework"}, s \in PerspectiveStatus : SetInList(op, s)
      BY <2>3 DEF SubmitToManager, ReviewPass, ReviewRework, PerspectiveStatus
    <3>2. Argument \in Gears
      BY <3>1, InstructionFits DEF IInv, SetInList, Publishing, GearOperations
    <3>3. Amended(Argument)
      BY <1>1, <3>1, <3>2 DEF SetInList, Amended
    <3>. QED BY <1>2, <3>2, <3>3
  <2>4. CASE Analyze
    <3>. DEFINE p == [status |-> "UNDER_ANALYSIS", words |-> Analysis(Argument, input).words]
    <3>1. Argument \in Gears
      BY <2>4, InstructionFits DEF IInv, Analyze, Quietly, GearOperations
    <3>2. p \in Perspective /\ p.words = Analysis(Argument, input).words
      BY <1>1, <3>1, WordsFit DEF Perspective, PerspectiveStatus
    <3>3. versions' = WithVersion(Argument, p)
          /\ held' = [held EXCEPT ![Argument] = Len(versions[Argument]) + 1]
      BY <2>4 DEF Analyze
    <3>. HIDE DEF p
    <3>4. Listing(Argument)
      BY <3>2, <3>3 DEF Listing
    <3>. QED BY <1>2, <3>1, <3>4
  <2>5. CASE UpdatePerspective
    <3>. DEFINE p == [status |-> "CREATED", words |-> InList(Argument).words]
    <3>1. /\ Argument \in Gears /\ script \in Scripts
          /\ pc \in 1 .. Len(Script[script]) /\ Script[script][pc][1] = "update"
      BY <2>5, InstructionFits DEF IInv, TypeOK, UpdatePerspective, Quietly, GearOperations
    <3>2. PICK j \in 1 .. pc - 1 : Script[script][j] = <<"analyze", Argument>>
      BY <3>1, ScriptAssumption DEF Argument
    <3>3. held[Argument] \in 1 .. Len(versions[Argument])
      BY <1>1, <3>1, <3>2 DEF IInv, AnalyzedIsHeld, TypeOK
    <3>4. InList(Argument) \in Perspective
      BY <1>1, <3>1, <3>3 DEF InList
    <3>5. p \in Perspective
      BY <3>4 DEF Perspective, PerspectiveStatus
    <3>6. Argument \in Listed
      BY <3>1, <3>3 DEF Listed
    <3>7. p.words = Analysis(Argument, input).words
      BY <3>6 DEF ListSaysAnalysis
    <3>8. versions' = WithVersion(Argument, p)
          /\ held' = [held EXCEPT ![Argument] = Len(versions[Argument]) + 1]
      BY <2>5 DEF UpdatePerspective, NewVersion
    <3>. HIDE DEF p
    <3>9. Listing(Argument)
      BY <3>5, <3>7, <3>8 DEF Listing
    <3>. QED BY <1>2, <3>1, <3>9
  <2>. QED BY <1>3, <2>1, <2>2, <2>3, <2>4, <2>5 DEF Coordinator
<1>4. CASE HandlerRaises
  BY <1>2, <1>4 DEF HandlerRaises, registerVars
<1>5. ASSUME NEW g \in Repliers, Contradict(g)
      PROVE  UNCHANGED <<versions, held>>
  BY <1>5 DEF Contradict, Reply
<1>6. ASSUME NEW g \in Repliers, NEW v \in 1 .. Len(versions[g]),
             \/ Resubmit(g, v) \/ Approve(g, v) \/ SendBack(g, v) \/ Reject(g, v)
             \/ Escalate(g, v) \/ MarkTimedOut(g, v)
      PROVE  g \in Gears /\ Amended(g)
  <2>1. PICK s \in PerspectiveStatus : versions' = WithStatus(g, v, s)
    BY <1>6 DEF Resubmit, Approve, SendBack, Reject, Escalate, MarkTimedOut, PerspectiveStatus
  <2>2. held' = held
    BY <1>6 DEF Resubmit, Approve, SendBack, Reject, Escalate, MarkTimedOut, ReplyAbout, Reply
  <2>. QED BY <1>1, <2>1, <2>2 DEF Amended
<1>7. ASSUME NEW g \in Repliers, NEW v \in 1 .. Len(versions[g]), Supersede(g, v)
      PROVE  g \in Gears /\ Amended(g)
  <2>1. PICK words \in {versions[g][v].words, {}} : versions' = NewVersion(g, words)
    BY <1>7 DEF Supersede
  <2>2. held' = held
    BY <1>7 DEF Supersede, ReplyAbout, Reply
  <2>3. versions[g][v] \in Perspective
    BY <1>1
  <2>4. [status |-> "CREATED", words |-> words] \in Perspective
    BY <2>3 DEF Perspective, PerspectiveStatus
  <2>. QED BY <1>1, <2>1, <2>2, <2>4 DEF Amended, NewVersion
<1>8. CASE Subscribers
  BY <1>1, <1>2, <1>4, <1>5, <1>6, <1>7, <1>8 DEF Subscribers
<1>9. CASE UNCHANGED vars
  BY <1>2, <1>9 DEF vars, registerVars
<1>. QED BY <1>3, <1>8, <1>9 DEF Next

LEMMA ListKept ==
  ASSUME IInv, ListSaysAnalysis, [Next]_vars
  PROVE  ListSaysAnalysis'
<1>1. /\ versions \in [Gears -> Seq(Perspective)] /\ held \in [Gears -> Nat]
      /\ \A g \in Listed : g \in Gears /\ held[g] \in 1 .. Len(versions[g])
      /\ \A g \in Gears : Len(versions[g]) \in Nat
  BY DEF IInv, TypeOK, Listed
<1>2. input' = input
  BY ReviewStep
<1>3. CASE UNCHANGED <<versions, held>>
  BY <1>2, <1>3 DEF ListSaysAnalysis, Listed, InList
<1>4. ASSUME NEW g \in Gears, Amended(g)
      PROVE  ListSaysAnalysis'
  <2>1. \A h \in Listed : versions'[h][held[h]].words = versions[h][held[h]].words
    BY <1>1, <1>4, StatusKeepsWords, VersionKeepsWords DEF Amended
  <2>. QED BY <1>2, <1>4, <2>1 DEF Amended, ListSaysAnalysis, Listed, InList
<1>5. ASSUME NEW g \in Gears, Listing(g)
      PROVE  ListSaysAnalysis'
  <2>1. PICK p \in Perspective : /\ versions' = WithVersion(g, p)
                                 /\ p.words = Analysis(g, input).words
    BY <1>5 DEF Listing
  <2>2. held'[g] = Len(versions[g]) + 1 /\ \A h \in Gears : h # g => held'[h] = held[h]
    BY <1>1, <1>5 DEF Listing
  <2>3. versions'[g][held'[g]] = p
    BY <1>1, <2>1, <2>2 DEF WithVersion
  <2>4. \A h \in Listed : h # g => versions'[h][held'[h]] = versions[h][held[h]]
    BY <1>1, <2>1, <2>2, VersionKeepsWords
  <2>5. ASSUME NEW h \in Gears, held'[h] # 0
        PROVE  versions'[h][held'[h]].words = Analysis(h, input).words
    <3>1. CASE h = g
      BY <2>1, <2>3, <3>1
    <3>2. CASE h # g
      <4>1. h \in Listed
        BY <2>2, <2>5, <3>2 DEF Listed
      <4>. QED BY <2>4, <3>2, <4>1 DEF ListSaysAnalysis, InList
    <3>. QED BY <3>1, <3>2
  <2>. QED BY <1>2, <2>5 DEF ListSaysAnalysis, Listed, InList
<1>. QED BY <1>3, <1>4, <1>5, ReviewStep

-----------------------------------------------------------------------------
(* What the synthesis finds and the director chooses, for every discovery.  *)

\* The engines' perspectives of all four gears, as the synthesis reads them.
LEMMA ListReadsAnalysis ==
  ASSUME IInv, ListSaysAnalysis, NEW g \in Listed
  PROVE  /\ List[g].words = Analysis(g, input).words
         /\ List[g].confidence = Analysis(g, input).confidence
         /\ List[g].actions = Analysis(g, input).actions
         /\ List[g].expands = Analysis(g, input).expands
<1>1. g \in Gears
  BY DEF Listed
<1>2. List[g] = [Analysis(g, input) EXCEPT !.words = InList(g).words]
  BY DEF List
<1>3. InList(g).words = Analysis(g, input).words
  BY DEF ListSaysAnalysis
<1>4. \E c, w, a, o, z, x : Analysis(g, input) = [confidence |-> c, words |-> w, actions |-> a,
                                                open |-> o, authorization |-> z, expands |-> x]
  <2>1. CASE g = "scraping"
    <3>1. PICK c, w, a, o, z, x :
            ScrapingAnalysis(input) =
              [confidence |-> c, words |-> w, actions |-> a,
               open |-> o, authorization |-> z, expands |-> x]
      BY Zenon DEF ScrapingAnalysis
    <3>. QED BY <2>1, <3>1 DEF Analysis
  <2>2. CASE g = "mining"
    <3>1. PICK c, w, a, o, z, x :
            MiningAnalysis(input) =
              [confidence |-> c, words |-> w, actions |-> a,
               open |-> o, authorization |-> z, expands |-> x]
      BY Zenon DEF MiningAnalysis
    <3>. QED BY <2>2, <3>1 DEF Analysis
  <2>3. CASE g = "security"
    <3>1. PICK c, w, a, o, z, x :
            SecurityAnalysis(input) =
              [confidence |-> c, words |-> w, actions |-> a,
               open |-> o, authorization |-> z, expands |-> x]
      BY Zenon DEF SecurityAnalysis
    <3>. QED BY <2>3, <3>1 DEF Analysis
  <2>4. CASE g = "evidence"
    <3>1. PICK c, w, a, o, z, x :
            EvidenceAnalysis(input) =
              [confidence |-> c, words |-> w, actions |-> a,
               open |-> o, authorization |-> z, expands |-> x]
      BY Zenon DEF EvidenceAnalysis
    <3>. QED BY <2>4, <3>1 DEF Analysis
  <2>. QED BY <1>1, <2>1, <2>2, <2>3, <2>4 DEF Gears
<1>. QED BY <1>2, <1>3, <1>4

\* Two of the engines write the same whatever the discovery is, and the
\* evidence engine is unsure exactly when it has no reference.
LEMMA EnginesAlways ==
  ASSUME NEW d \in Discoveries
  PROVE  /\ "catalog" \in Analysis("security", d).words
         /\ "prohibited" \in Analysis("security", d).words
         /\ Analysis("scraping", d).actions > 0
         /\ Analysis("scraping", d).expands
         /\ Analysis("mining", d).confidence > 60
         /\ Analysis("evidence", d).confidence < 50 <=> d.references = 0
<1>1. d.references \in Nat
  BY DEF Discoveries
<1>2. /\ "catalog" \in Analysis("security", d).words
      /\ "prohibited" \in Analysis("security", d).words
  BY DEF Analysis, SecurityAnalysis
<1>3. Analysis("scraping", d).actions > 0
  <2>1. Analysis("scraping", d).actions = 2 + IfThen(IsApi(d), 1) + IfThen(d.high, 1)
    BY DEF Analysis, ScrapingAnalysis
  <2>2. \A c : IfThen(c, 1) \in {0, 1}
    BY DEF IfThen
  <2>. HIDE DEF IfThen
  <2>. QED BY <2>1, <2>2
<1>4. Analysis("scraping", d).expands
  <2>1. Analysis("scraping", d).expands = TRUE
    BY DEF Analysis, ScrapingAnalysis
  <2>. QED BY <2>1
<1>5. Analysis("mining", d).confidence > 60
  BY DEF Analysis, MiningAnalysis
<1>6. Analysis("evidence", d).confidence < 50 <=> d.references = 0
  BY <1>1 DEF Analysis, EvidenceAnalysis
<1>. QED BY <1>2, <1>3, <1>4, <1>5, <1>6

Sound(s) ==
  /\ "STRUCTURED_CATALOG_INTELLIGENCE_QUALIFICATION" \in s.next
  /\ s.authorization /\ s.expansion

\* The synthesis of the four perspectives.
LEMMA SynthesisReads ==
  ASSUME IInv, ListSaysAnalysis, Listed = Gears, NEW registered
  PROVE  LET s == SynthesisOf(List, registered)
         IN /\ Sound(s)
            /\ \A c \in registered : <<"REGISTERED", c>> \in s.contradictions
            /\ <<"TENSION", 0>> \in s.contradictions
            /\ <<"DIVERGENCE", 0>> \in s.contradictions <=> input.references = 0
<1>. DEFINE s == SynthesisOf(List, registered)
<1>1. input \in Discoveries
  BY InputAssumption DEF IInv, TypeOK
<1>2. DOMAIN List = Gears /\ Gears = {"scraping", "mining", "security", "evidence"}
  BY DEF List, Gears
<1>3. /\ "catalog" \in List["security"].words /\ "prohibited" \in List["security"].words
      /\ List["scraping"].actions > 0 /\ List["scraping"].expands
      /\ List["mining"].confidence > 60
      /\ List["evidence"].confidence < 50 <=> input.references = 0
  BY <1>1, <1>2, EnginesAlways, ListReadsAnalysis
<1>. DEFINE p == List
<1>4. /\ s.next = NextPhases(p) /\ s.contradictions = Contradictions(p, registered)
      /\ s.expansion = ScopeExpands(p) /\ s.authorization = AuthorizationAssessed(p)
  BY DEF SynthesisOf
<1>. HIDE DEF p, s
<1>5. /\ DOMAIN p = {"scraping", "mining", "security", "evidence"}
      /\ "catalog" \in p["security"].words /\ "prohibited" \in p["security"].words
      /\ p["scraping"].actions > 0 /\ p["scraping"].expands
      /\ p["mining"].confidence > 60
      /\ p["evidence"].confidence < 50 <=> input.references = 0
  BY <1>2, <1>3 DEF p
<1>6. "STRUCTURED_CATALOG_INTELLIGENCE_QUALIFICATION" \in s.next
  BY <1>4, <1>5 DEF NextPhases
<1>7. s.authorization /\ s.expansion
  <2>1. AuthorizationAssessed(p) /\ ScopeExpands(p)
    BY <1>5 DEF AuthorizationAssessed, ScopeExpands
  <2>. QED BY <1>4, <2>1
<1>8. \A c \in registered : <<"REGISTERED", c>> \in s.contradictions
  BY <1>4 DEF Contradictions
<1>9. <<"TENSION", 0>> \in s.contradictions
  BY <1>4, <1>5 DEF Contradictions, Has
<1>10. <<"DIVERGENCE", 0>> \in s.contradictions <=> input.references = 0
  <2>1. <<"DIVERGENCE", 0>> # <<"TENSION", 0>>
    OBVIOUS
  <2>2. \A c : <<"DIVERGENCE", 0>> # <<"REGISTERED", c>>
    OBVIOUS
  <2>3. Has(p, {"evidence", "mining"})
    BY <1>5 DEF Has
  <2>. QED BY <1>4, <1>5, <2>1, <2>2, <2>3 DEF Contradictions
<1>. QED BY <1>6, <1>7, <1>8, <1>9, <1>10 DEF s, Sound

\* A synthesis that recommends something is approved.
LEMMA DirectorApproves ==
  ASSUME NEW s, Sound(s)
  PROVE  DirectorChooses(s) = "APPROVE_NEW_INTERNAL_PHASE"
<1>1. s.next # {}
  BY DEF Sound
<1>. QED BY <1>1 DEF DirectorChooses

\* What has been synthesized is sound, and so is what was decided on.
SynthesisFollows == <<"synthesize", "">> \in Done => Sound(synthesis)

CInv == ListSaysAnalysis /\ SynthesisFollows /\ OneChoiceOnly

LEMMA InitChoice == Init => CInv
<1>. SUFFICES ASSUME Init PROVE CInv
  OBVIOUS
<1>1. Done = {} /\ Listed = {}
  BY DEF Init, Done, Before, Listed
<1>. QED BY <1>1 DEF Init, CInv, ListSaysAnalysis, SynthesisFollows, OneChoiceOnly

\* When the script comes to the synthesis, all four gears are listed.
LEMMA AllListed ==
  ASSUME IInv, Proceed("synthesize")
  PROVE  Listed = Gears
<1>1. \A g \in Gears : <<"analyze", g>> \in Done
  BY DoneGrows DEF IInv
<1>. QED BY <1>1, AnalyzedHasVersion DEF Listed

LEMMA ChoiceKept ==
  ASSUME IInv, CInv, NEW op, Proceed(op), Effect(op)
  PROVE  SynthesisFollows' /\ OneChoiceOnly'
<1>1. \A k, a : <<k, a>> \in Done' => <<k, a>> \in Done \/ (k = op /\ a = Argument)
  BY DoneGrows DEF IInv
<1>2. CASE op = "synthesize"
  <2>1. synthesis' = SynthesisOf(List, 1 .. disputes) /\ decision' = decision
    BY <1>2 DEF Effect
  <2>2. Sound(synthesis')
    BY <1>2, <2>1, AllListed, SynthesisReads DEF CInv
  <2>. QED BY <2>1, <2>2 DEF CInv, SynthesisFollows, OneChoiceOnly, Sound
<1>3. CASE op = "decide"
  <2>1. synthesis' = synthesis /\ decision' = DirectorChooses(synthesis)
    BY <1>3 DEF Effect
  <2>2. Sound(synthesis)
    BY <1>3, DoneGrows DEF IInv, CInv, SynthesisFollows
  <2>3. decision' = "APPROVE_NEW_INTERNAL_PHASE"
    BY <2>1, <2>2, DirectorApproves
  <2>. QED BY <2>1, <2>2, <2>3 DEF SynthesisFollows, OneChoiceOnly, Sound
<1>4. CASE op \notin {"synthesize", "decide"}
  <2>1. synthesis' = synthesis /\ decision' = decision
    BY <1>4 DEF Effect
  <2>2. (<<"synthesize", "">> \in Done)' => <<"synthesize", "">> \in Done
    BY <1>1, <1>4
  <2>. QED BY <2>1, <2>2 DEF CInv, SynthesisFollows, OneChoiceOnly
<1>. QED BY <1>2, <1>3, <1>4

LEMMA NextChoice ==
  ASSUME IInv, CInv, [Next]_vars
  PROVE  CInv'
<1>1. ListSaysAnalysis'
  BY ListKept DEF CInv
<1>2. CASE UNCHANGED <<script, input, pc, log, Bookkept>>
  <2>1. Done' = Done
    BY <1>2 DEF Done, Before
  <2>. QED BY <1>1, <1>2, <2>1 DEF CInv, SynthesisFollows, OneChoiceOnly, Bookkept
<1>. QED BY <1>1, <1>2, ChoiceKept, StepEffect DEF IInv, CInv

LEMMA ChoiceInvariance == Spec => [](IInv /\ CInv)
<1>1. IInv /\ CInv /\ [Next]_vars => (IInv /\ CInv)'
  BY StepKeeps, NextChoice
<1>. QED BY InitHolds, InitChoice, <1>1, PTL DEF Spec

\* Whatever the discovery is and whatever subscribers do, the director approves
\* a new phase: every synthesis recommends one.
THEOREM DirectorHasOneChoice == Spec => []OneChoiceOnly
<1>. QED BY ChoiceInvariance, PTL DEF CInv

\* The synthesis holds every contradiction the register holds when it is made,
\* its own tension, and its divergence exactly when the evidence gear had no
\* reference, however often subscribers review in between.
THEOREM DisputesReachSynthesis == Spec => DisputesSurvive
<1>. DEFINE Kept ==
       synthesis' # synthesis =>
         /\ \A c \in 1 .. disputes : <<"REGISTERED", c>> \in synthesis'.contradictions
         /\ <<"TENSION", 0>> \in synthesis'.contradictions
         /\ <<"DIVERGENCE", 0>> \in synthesis'.contradictions <=> input.references = 0
<1>1. IInv /\ CInv /\ [Next]_vars => [Kept]_vars
  <2>. SUFFICES ASSUME IInv, CInv, [Next]_vars, synthesis' # synthesis
                PROVE  Kept
    OBVIOUS
  <2>1. PICK op : Proceed(op) /\ Effect(op)
    BY StepEffect DEF IInv, Bookkept
  <2>2. op = "synthesize" /\ synthesis' = SynthesisOf(List, 1 .. disputes)
    BY <2>1 DEF Effect
  <2>3. Listed = Gears
    BY <2>1, <2>2, AllListed
  <2>. QED BY <2>2, <2>3, SynthesisReads DEF CInv
<1>. QED BY ChoiceInvariance, <1>1, PTL DEF Spec, DisputesSurvive

-----------------------------------------------------------------------------
(* A call that nobody disturbs.                                             *)

Touching == {"analyze", "submit", "pass", "rework", "update"}

\* What the instruction op does to the perspectives.
Moved(op) ==
  /\ op \in {"analyze", "update"} =>
       /\ held' = [held EXCEPT ![Argument] = Len(versions[Argument]) + 1]
       /\ \E p : versions' = WithVersion(Argument, p)
  /\ op \in {"submit", "pass", "rework"} =>
       /\ held' = held
       /\ \E s : /\ versions' = WithStatus(Argument, held[Argument], s)
                 /\ op = "pass" => s = "MANAGER_APPROVED"
  /\ op \notin Touching => UNCHANGED <<versions, held>>

\* What it answers.
Answers(op) ==
  /\ op = "gate" => log' = Append(log, <<"gate", GatePasses>>)
  /\ op = "freeze" =>
       \E allowed \in BOOLEAN : /\ log' = Append(log, <<"allowed", allowed>>)
                                /\ Gears \subseteq ApprovedInList => allowed
  /\ op = "check acknowledgments" => log' = Append(log, <<"acknowledged", Gears \subseteq heard>>)

Undisturbed == <<script, input, pc, replies, log, held, versions, Bookkept>>

LEMMA StepMoves ==
  ASSUME IInv, [Next]_vars, replies' = 0
  PROVE  \/ \E op : Proceed(op) /\ Moved(op) /\ Answers(op)
         \/ UNCHANGED Undisturbed
<1>. USE DEF Quietly, Publishing, EndsIf, registerVars, resultVars
<1>. DEFINE Acts(op) == Proceed(op) /\ Moved(op) /\ Answers(op)
            Plain(op) == /\ Proceed(op) /\ op \notin Touching \cup Asking
                         /\ UNCHANGED <<versions, held>>
<1>1. \A op : Plain(op) => Acts(op)
  BY DEF Moved, Answers, Touching, Asking
<1>2. CASE Validate \/ RegisterDiscovery \/ BroadcastDiscovery \/ RetryGear \/ ReceiveDiscovery
           \/ AcknowledgeReceipt \/ RecordAcknowledgment \/ UpdateStatus
  <2>1. \/ Plain("validate") \/ Plain("register") \/ Plain("broadcast") \/ Plain("retry")
        \/ Plain("receive") \/ Plain("acknowledge") \/ Plain("record acknowledgment")
        \/ Plain("status")
    BY <1>2 DEF Validate, RegisterDiscovery, BroadcastDiscovery, RetryGear, ReceiveDiscovery,
                AcknowledgeReceipt, RecordAcknowledgment, UpdateStatus, Touching, Asking
  <2>. HIDE DEF Plain
  <2>. QED BY <1>1, <2>1
<1>3. CASE PublishApproved \/ OpenContradiction \/ StopUnlessPassed \/ StartSynthesis
           \/ Synthesize \/ StartDecision \/ Decide \/ File
  <2>1. \/ Plain("share") \/ Plain("contradict") \/ Plain("exit") \/ Plain("start synthesis")
        \/ Plain("synthesize") \/ Plain("start decision") \/ Plain("decide") \/ Plain("file")
    BY <1>3 DEF PublishApproved, OpenContradiction, StopUnlessPassed, StartSynthesis,
                Synthesize, StartDecision, Decide, File, Touching, Asking
  <2>. HIDE DEF Plain
  <2>. QED BY <1>1, <2>1
<1>4. CASE CheckAcknowledgments
  BY <1>4 DEF CheckAcknowledgments, Moved, Answers, Touching
<1>5. CASE EvaluateGate
  <2>1. Acts("gate")
    BY <1>5 DEF EvaluateGate, Moved, Answers, Touching
  <2>. QED BY <2>1
<1>6. CASE CheckDecision
  <2>. DEFINE allowed == Argument \notin ProhibitedDecisions \/ Gears \subseteq ApprovedInList
  <2>1. Proceed("freeze") /\ log' = Append(log, <<"allowed", allowed>>) /\ UNCHANGED <<versions, held>>
    BY <1>6 DEF CheckDecision
  <2>2. allowed \in BOOLEAN /\ (Gears \subseteq ApprovedInList => allowed)
    OBVIOUS
  <2>. HIDE DEF allowed
  <2>3. Acts("freeze")
    BY <2>1, <2>2 DEF Moved, Answers, Touching
  <2>. QED BY <2>3
<1>7. CASE Analyze
  <2>1. Acts("analyze")
    BY <1>7 DEF Analyze, Moved, Answers, Touching
  <2>. QED BY <2>1
<1>8. CASE UpdatePerspective
  <2>1. Acts("update")
    BY <1>8 DEF UpdatePerspective, NewVersion, Moved, Answers, Touching
  <2>. QED BY <2>1
<1>9. CASE SubmitToManager \/ ReviewPass \/ ReviewRework
  <2>1. CASE SubmitToManager
    <3>1. Acts("submit")
      BY <2>1 DEF SubmitToManager, SetInList, Moved, Answers, Touching
    <3>. QED BY <3>1
  <2>2. CASE ReviewPass
    <3>1. Acts("pass")
      BY <2>2 DEF ReviewPass, SetInList, Moved, Answers, Touching
    <3>. QED BY <3>1
  <2>3. CASE ReviewRework
    <3>1. Acts("rework")
      BY <2>3 DEF ReviewRework, SetInList, Moved, Answers, Touching
    <3>. QED BY <3>1
  <2>. QED BY <1>9, <2>1, <2>2, <2>3
<1>10. CASE Return \/ HandlerRaises
  BY <1>10 DEF Return, HandlerRaises, Undisturbed, Bookkept, busVars
<1>11. ~Reply
  BY DEF Reply, IInv, TypeOK
<1>12. CASE Subscribers
  BY <1>10, <1>11, <1>12 DEF Subscribers, Contradict, Resubmit, Approve, SendBack, Reject,
                             Escalate, MarkTimedOut, Supersede, ReplyAbout
<1>13. CASE UNCHANGED vars
  BY <1>13 DEF vars, callVars, busVars, Undisturbed, Bookkept
<1>. HIDE DEF Acts
<1>. QED BY <1>2, <1>3, <1>4, <1>5, <1>6, <1>7, <1>8, <1>9, <1>10, <1>12, <1>13
         DEF Next, Coordinator

\* A call returns where its script ends, and that is the end of it.
LEMMA StepReturns ==
  ASSUME [Next]_vars, out' = "returned"
  PROVE  \/ UNCHANGED <<out, pc, script>>
         \/ pc > Len(Script[script]) /\ UNCHANGED <<pc, script>>
<1>. USE DEF Proceed, Running, Quietly, Publishing, EndsIf
<1>1. CASE Coordinator
  <2>1. ~(Validate \/ StopUnlessPassed \/ PublishApproved \/ CheckDecision)
    BY DEF Validate, StopUnlessPassed, PublishApproved, CheckDecision
  <2>2. ~(RegisterDiscovery \/ BroadcastDiscovery \/ RetryGear \/ ReceiveDiscovery
            \/ AcknowledgeReceipt \/ RecordAcknowledgment \/ CheckAcknowledgments \/ UpdateStatus)
    BY DEF RegisterDiscovery, BroadcastDiscovery, RetryGear, ReceiveDiscovery,
           AcknowledgeReceipt, RecordAcknowledgment, CheckAcknowledgments, UpdateStatus
  <2>3. ~(Analyze \/ SubmitToManager \/ ReviewPass \/ ReviewRework \/ UpdatePerspective
            \/ OpenContradiction \/ EvaluateGate)
    BY DEF Analyze, SubmitToManager, ReviewPass, ReviewRework, SetInList, UpdatePerspective,
           OpenContradiction, EvaluateGate
  <2>4. ~(StartSynthesis \/ Synthesize \/ StartDecision \/ Decide \/ File)
    BY DEF StartSynthesis, Synthesize, StartDecision, Decide, File
  <2>5. Return
    BY <1>1, <2>1, <2>2, <2>3, <2>4 DEF Coordinator
  <2>. QED BY <2>5 DEF Return
<1>2. CASE Subscribers
  <2>1. Reply \/ HandlerRaises
    BY <1>2 DEF Subscribers, Contradict, Resubmit, Approve, SendBack, Reject, Escalate,
                MarkTimedOut, Supersede, ReplyAbout
  <2>. QED BY <2>1 DEF Reply, HandlerRaises, callVars
<1>3. CASE UNCHANGED vars
  BY <1>3 DEF vars, callVars
<1>. QED BY <1>1, <1>2, <1>3 DEF Next

\* The caller's list names the latest version of each gear, and one of each
\* gear that has been analyzed.
Newest ==
  \A g \in Gears : /\ held[g] = Len(versions[g])
                   /\ <<"analyze", g>> \notin Done => held[g] = 0

\* A gear whose last review passed is approved.
Standing ==
  \A g \in Gears : ReviewedBefore(script, pc, g) =>
    held[g] # 0 /\ InList(g).status = "MANAGER_APPROVED"

\* The j-th instruction asks what the ones before have prepared for.
Prepared(j) ==
  IF Script[script][j][1] = "check acknowledgments"
  THEN \A g \in Gears : <<"acknowledge", g>> \in Before(script, j)
  ELSE \A g \in Gears : ReviewedBefore(script, j, g)

\* The last such question has been answered with yes.
Answered ==
  \A j \in 1 .. pc - 1 :
    LastBefore(script, pc, Asking, j) /\ Prepared(j) => log # <<>> /\ LastAnswer

GateAsked == \E i \in 1 .. Len(log) : log[i][1] = "gate"

\* The log and the status tell what has been done.
Reported ==
  /\ GateAsked <=> \E j \in 1 .. pc - 1 : Script[script][j][1] = "gate"
  /\ (\E j \in 1 .. pc - 1 : Script[script][j][1] = "register") => status # "NONE"
  /\ \A j \in 1 .. pc - 1 :
       /\ LastBefore(script, pc, {"register", "status"}, j)
       /\ Script[script][j][1] = "status"
       => status = Script[script][j][2]

AtEnd == out = "returned" => pc = Len(Script[script]) + 1

UInv == replies = 0 => Newest /\ Standing /\ Answered /\ Reported /\ AtEnd

LEMMA InitUndisturbed == Init => UInv
<1>. SUFFICES ASSUME Init PROVE UInv
  OBVIOUS
<1>1. pc = 1 /\ log = <<>> /\ out = "running" /\ 1 .. pc - 1 = {}
  BY DEF Init
<1>2. \A g \in Gears : held[g] = 0 /\ versions[g] = <<>>
  BY DEF Init
<1>3. Newest
  BY <1>2 DEF Newest
<1>4. Standing
  BY <1>1 DEF Standing, ReviewedBefore
<1>5. Answered /\ AtEnd
  BY <1>1 DEF Answered, AtEnd
<1>6. Reported
  BY <1>1 DEF Reported, GateAsked
<1>. QED BY <1>3, <1>4, <1>5, <1>6 DEF UInv

\* What a review is of has been analyzed.
LEMMA TouchedIsListed ==
  ASSUME IInv, NEW op \in {"submit", "pass", "rework", "update"}, Proceed(op)
  PROVE  /\ Argument \in Gears /\ <<"analyze", Argument>> \in Done
         /\ held[Argument] \in 1 .. Len(versions[Argument])
<1>1. /\ script \in Scripts /\ pc \in 1 .. Len(Script[script]) /\ Script[script][pc][1] = op
  BY InstructionFits DEF IInv, TypeOK
<1>2. /\ Argument \in Gears
      /\ \E j \in 1 .. pc - 1 : Script[script][j] = <<"analyze", Argument>>
  BY <1>1, ScriptAssumption DEF Argument, GearOperations
<1>3. <<"analyze", Argument>> \in Done
  BY <1>2 DEF Done, Before
<1>. QED BY <1>2, <1>3, AnalyzedHasVersion DEF IInv, TypeOK, AnalyzedIsHeld

LEMMA NewestKept ==
  ASSUME IInv, Newest, NEW op, Proceed(op), Moved(op)
  PROVE  Newest'
<1>1. /\ versions \in [Gears -> Seq(Perspective)] /\ held \in [Gears -> Nat]
      /\ Done \subseteq Done' /\ <<op, Argument>> \in Done'
  BY DoneGrows DEF IInv, TypeOK
<1>2. CASE op \in {"analyze", "update"}
  <2>1. Argument \in Gears
    BY <1>2, InstructionFits DEF IInv, GearOperations
  <2>2. PICK p : versions' = WithVersion(Argument, p)
    BY <1>2 DEF Moved
  <2>3. held' = [held EXCEPT ![Argument] = Len(versions[Argument]) + 1]
    BY <1>2 DEF Moved
  <2>4. \A g \in Gears : held'[g] = Len(versions'[g])
    <3>1. Len(versions'[Argument]) = Len(versions[Argument]) + 1
      <4>1. versions[Argument] \in Seq(Perspective \cup {p})
        BY <1>1, <2>1
      <4>2. versions'[Argument] = Append(versions[Argument], p)
        BY <1>1, <2>1, <2>2 DEF WithVersion
      <4>. QED BY <4>1, <4>2
    <3>2. \A g \in Gears : g # Argument => versions'[g] = versions[g]
      BY <1>1, <2>2 DEF WithVersion
    <3>. QED BY <1>1, <2>1, <2>3, <3>1, <3>2 DEF Newest
  <2>5. <<"analyze", Argument>> \in Done'
    BY <1>1, <1>2, TouchedIsListed
  <2>6. \A g \in Gears : <<"analyze", g>> \notin Done' => held'[g] = 0
    BY <1>1, <2>1, <2>3, <2>5 DEF Newest
  <2>. QED BY <2>4, <2>6 DEF Newest
<1>3. CASE op \in {"submit", "pass", "rework"}
  <2>1. PICK t : versions' = WithStatus(Argument, held[Argument], t)
    BY <1>3 DEF Moved
  <2>2. held' = held
    BY <1>3 DEF Moved
  <2>3. \A g \in Gears : Len(versions'[g]) = Len(versions[g])
    BY <1>1, <2>1 DEF WithStatus
  <2>. QED BY <1>1, <2>2, <2>3 DEF Newest
<1>4. CASE op \notin Touching
  BY <1>1, <1>4 DEF Moved, Newest
<1>. QED BY <1>2, <1>3, <1>4 DEF Touching

\* A pass counts until the next thing that touches the perspective.
LEMMA ReviewedLater ==
  ASSUME IInv, NEW op, Proceed(op), NEW g \in Gears, ReviewedBefore(script, pc + 1, g)
  PROVE  \/ op = "pass" /\ Argument = g
         \/ /\ ReviewedBefore(script, pc, g)
            /\ op \in Touching => Argument # g
<1>1. script \in Scripts /\ pc \in 1 .. Len(Script[script]) /\ Script[script][pc][1] = op
  BY InstructionFits DEF IInv, TypeOK
<1>2. Script[script][pc] = <<op, Argument>>
  <2>1. Script[script] \in Seq(STRING \X STRING)
    BY <1>1, ScriptAssumption
  <2>2. Script[script][pc] \in STRING \X STRING
    BY <1>1, <2>1
  <2>. QED BY <1>1, <2>2 DEF Argument
<1>3. PICK j \in 1 .. pc :
        /\ Script[script][j] = <<"pass", g>>
        /\ \A k \in j + 1 .. pc : Script[script][k] \notin Touching \X {g}
  BY <1>1 DEF ReviewedBefore, Touching
<1>4. CASE j = pc
  BY <1>2, <1>3, <1>4
<1>5. CASE j # pc
  <2>1. j \in 1 .. pc - 1 /\ pc \in j + 1 .. pc /\ j + 1 .. pc - 1 \subseteq j + 1 .. pc
    BY <1>1, <1>5
  <2>2. ReviewedBefore(script, pc, g)
    BY <1>3, <2>1 DEF ReviewedBefore, Touching
  <2>3. <<op, Argument>> \notin Touching \X {g}
    BY <1>2, <1>3, <2>1
  <2>. QED BY <2>2, <2>3
<1>. QED BY <1>4, <1>5

LEMMA StandingKept ==
  ASSUME IInv, Standing, NEW op, Proceed(op), Moved(op)
  PROVE  Standing'
<1>1. versions \in [Gears -> Seq(Perspective)] /\ held \in [Gears -> Nat]
  BY DEF IInv, TypeOK
<1>2. script' = script /\ pc' = pc + 1
  BY DEF Proceed
<1>3. SUFFICES ASSUME NEW g \in Gears, ReviewedBefore(script, pc + 1, g)
               PROVE  held'[g] # 0 /\ versions'[g][held'[g]].status = "MANAGER_APPROVED"
  BY <1>2 DEF Standing, ReviewedBefore, InList
<1>4. CASE op = "pass" /\ Argument = g
  <2>1. versions' = WithStatus(g, held[g], "MANAGER_APPROVED") /\ held' = held
    BY <1>4 DEF Moved
  <2>2. held[g] \in 1 .. Len(versions[g])
    BY <1>4, TouchedIsListed
  <2>3. versions[g][held[g]] \in Perspective
    BY <1>1, <2>2
  <2>4. versions'[g][held[g]] = [versions[g][held[g]] EXCEPT !.status = "MANAGER_APPROVED"]
    BY <1>1, <2>1, <2>2 DEF WithStatus
  <2>. QED BY <2>1, <2>2, <2>3, <2>4 DEF Perspective
<1>5. CASE ReviewedBefore(script, pc, g) /\ (op \in Touching => Argument # g)
  <2>1. held'[g] = held[g]
    BY <1>1, <1>5 DEF Moved, Touching
  <2>2. versions'[g] = versions[g]
    <3>1. CASE op \in {"analyze", "update"}
      <4>1. PICK p : versions' = WithVersion(Argument, p)
        BY <3>1 DEF Moved
      <4>. QED BY <1>1, <1>5, <3>1, <4>1 DEF WithVersion, Touching
    <3>2. CASE op \in {"submit", "pass", "rework"}
      <4>1. PICK t : versions' = WithStatus(Argument, held[Argument], t)
        BY <3>2 DEF Moved
      <4>. QED BY <1>1, <1>5, <3>2, <4>1 DEF WithStatus, Touching
    <3>3. CASE op \notin Touching
      BY <3>3 DEF Moved
    <3>. QED BY <3>1, <3>2, <3>3 DEF Touching
  <2>. QED BY <1>5, <2>1, <2>2 DEF Standing, InList
<1>. QED BY <1>3, <1>4, <1>5, ReviewedLater

\* Whoever has been reviewed last is in the list as approved.
LEMMA ReviewedIsApproved ==
  ASSUME Standing, \A g \in Gears : ReviewedBefore(script, pc, g)
  PROVE  Gears \subseteq ApprovedInList
  BY DEF Standing, ApprovedInList, Listed

LEMMA GateOpens ==
  ASSUME Gears \subseteq ApprovedInList
  PROVE  GatePasses = TRUE
<1>1. "security" \in Gears /\ "security" \in Listed
  BY DEF Gears, ApprovedInList
<1>2. List["security"] = [Analysis("security", input) EXCEPT !.words = InList("security").words]
  BY <1>1 DEF List
<1>3. List["security"].authorization
  BY <1>2 DEF Analysis, SecurityAnalysis
<1>. QED BY <1>3 DEF GatePasses

LEMMA AnsweredKept ==
  ASSUME IInv, RegisterFollows, Standing, Answered, NEW op, Proceed(op), Effect(op), Answers(op)
  PROVE  Answered'
<1>1. /\ script' = script /\ pc' = pc + 1 /\ pc \in Nat
      /\ Script[script][pc][1] = op
  BY InstructionFits DEF IInv, TypeOK, Proceed
<1>2. SUFFICES ASSUME NEW j \in 1 .. pc, LastBefore(script, pc + 1, Asking, j), Prepared(j)
               PROVE  log' # <<>> /\ log'[Len(log')][2]
  <2>1. ASSUME NEW j, Prepared(j)' PROVE Prepared(j)
    BY <1>1, <2>1 DEF Prepared, ReviewedBefore, Before
  <2>2. pc' - 1 = pc
    BY <1>1
  <2>. QED BY <1>1, <2>1, <2>2 DEF Answered, LastAnswer, LastBefore
<1>3. log \in Seq({"gate", "allowed", "acknowledged"} \X BOOLEAN)
  BY DEF IInv, TypeOK
<1>4. CASE op \in Asking
  <2>1. j = pc
    BY <1>1, <1>2, <1>4 DEF LastBefore
  <2>2. op # "check acknowledgments" => Gears \subseteq ApprovedInList
    BY <1>1, <1>2, <2>1, ReviewedIsApproved DEF Prepared
  <2>3. op = "check acknowledgments" => Gears \subseteq heard
    BY <1>1, <1>2, <2>1 DEF Prepared, RegisterFollows, Done
  <2>4. PICK t \in {"gate", "allowed", "acknowledged"}, b \in BOOLEAN :
          log' = Append(log, <<t, b>>) /\ b
    <3>1. CASE op = "gate"
      BY <2>2, <3>1, GateOpens DEF Answers
    <3>2. CASE op = "freeze"
      BY <2>2, <3>2 DEF Answers
    <3>3. CASE op = "check acknowledgments"
      <4>1. (Gears \subseteq heard) = TRUE
        BY <2>3, <3>3
      <4>. QED BY <3>3, <4>1 DEF Answers
    <3>. QED BY <1>4, <3>1, <3>2, <3>3 DEF Asking
  <2>5. log' # <<>> /\ log'[Len(log')] = <<t, b>>
    <3>. DEFINE answer == <<t, b>>
    <3>1. log' = Append(log, answer)
      BY <2>4
    <3>2. answer \in {"gate", "allowed", "acknowledged"} \X BOOLEAN
      OBVIOUS
    <3>. HIDE DEF answer
    <3>3. Len(log') = Len(log) + 1 /\ log'[Len(log) + 1] = answer /\ Len(log) \in Nat
      BY <1>3, <3>1, <3>2
    <3>4. log' # <<>> /\ log'[Len(log')] = answer
      BY <3>3
    <3>. QED BY <3>4 DEF answer
  <2>6. <<t, b>>[2] = b
    OBVIOUS
  <2>7. log'[Len(log')][2] = TRUE
    <3>1. b = TRUE
      BY <2>4
    <3>. QED BY <2>5, <2>6, <3>1
  <2>. QED BY <2>5, <2>7
<1>5. CASE op \notin Asking
  <2>1. j \in 1 .. pc - 1 /\ LastBefore(script, pc, Asking, j)
    BY <1>1, <1>2, <1>5 DEF LastBefore
  <2>2. log' = log
    BY <1>5 DEF Effect
  <2>. QED BY <1>2, <2>1, <2>2 DEF Answered, LastAnswer
<1>. QED BY <1>4, <1>5

LEMMA ReportedKept ==
  ASSUME IInv, Reported, NEW op, Proceed(op), Effect(op), Answers(op)
  PROVE  Reported'
<1>1. /\ script' = script /\ pc' = pc + 1 /\ pc \in Nat \ {0}
      /\ Script[script][pc][1] = op /\ Argument = Script[script][pc][2]
  BY InstructionFits DEF IInv, TypeOK, Proceed, Argument
<1>2. GateAsked' <=> \E j \in 1 .. pc : Script[script][j][1] = "gate"
  <2>1. log \in Seq({"gate", "allowed", "acknowledged"} \X BOOLEAN)
    BY DEF IInv, TypeOK
  <2>2. GateAsked' <=> GateAsked \/ op = "gate"
    <3>1. CASE op \in Asking
      <4>1. PICK t \in {"gate", "allowed", "acknowledged"}, b \in BOOLEAN :
              log' = Append(log, <<t, b>>) /\ (t = "gate" <=> op = "gate")
        BY <3>1 DEF Answers, Asking, GatePasses
      <4>2. /\ Len(log') = Len(log) + 1 /\ log'[Len(log) + 1] = <<t, b>>
            /\ \A i \in 1 .. Len(log) : log'[i] = log[i]
        BY <2>1, <4>1
      <4>3. Len(log) \in Nat
        BY <2>1
      <4>. QED BY <4>1, <4>2, <4>3 DEF GateAsked
    <3>2. CASE op \notin Asking
      BY <3>2 DEF Effect, GateAsked, Asking
    <3>. QED BY <3>1, <3>2
  <2>. QED BY <1>1, <2>2 DEF Reported
<1>3. (\E j \in 1 .. pc : Script[script][j][1] = "register") => status' # "NONE"
  <2>1. op = "status" => Argument # "NONE"
    BY DoneGrows DEF IInv
  <2>2. status' # "NONE" \/ status' = status
    BY <2>1 DEF Effect
  <2>3. op = "register" => status' # "NONE"
    BY DEF Effect
  <2>. QED BY <1>1, <2>2, <2>3 DEF Reported
<1>4. ASSUME NEW j \in 1 .. pc, LastBefore(script, pc + 1, {"register", "status"}, j),
             Script[script][j][1] = "status"
      PROVE  status' = Script[script][j][2]
  <2>1. CASE op \in {"register", "status"}
    <3>1. j = pc
      BY <1>1, <1>4, <2>1 DEF LastBefore
    <3>. QED BY <1>1, <1>4, <3>1 DEF Effect
  <2>2. CASE op \notin {"register", "status"}
    <3>1. j \in 1 .. pc - 1 /\ LastBefore(script, pc, {"register", "status"}, j)
      BY <1>1, <1>4, <2>2 DEF LastBefore
    <3>2. status' = status
      BY <2>2 DEF Effect
    <3>. QED BY <1>4, <3>1, <3>2 DEF Reported
  <2>. QED BY <2>1, <2>2
<1>. QED BY <1>1, <1>2, <1>3, <1>4 DEF Reported, LastBefore

LEMMA NextUndisturbed ==
  ASSUME IInv, RInv, UInv, [Next]_vars
  PROVE  UInv'
<1>. SUFFICES ASSUME replies' = 0
              PROVE  Newest' /\ Standing' /\ Answered' /\ Reported' /\ AtEnd'
  BY DEF UInv
<1>1. Newest /\ Standing /\ Answered /\ Reported /\ AtEnd
  <2>1. replies = 0
    BY StepMoves DEF Proceed, Undisturbed
  <2>. QED BY <2>1 DEF UInv
<1>2. AtEnd'
  <2>. SUFFICES ASSUME out' = "returned"
                PROVE  pc' = Len(Script[script']) + 1
    BY DEF AtEnd
  <2>1. script \in Scripts /\ pc \in 1 .. Len(Script[script]) + 1 /\ Len(Script[script]) \in Nat
    BY ScriptAssumption DEF IInv, TypeOK
  <2>. QED BY <1>1, <2>1, StepReturns DEF AtEnd
<1>3. ASSUME NEW op, Proceed(op), Moved(op), Answers(op)
      PROVE  Newest' /\ Standing' /\ Answered' /\ Reported'
  <2>1. Effect(op)
    <3>1. PICK o : Proceed(o) /\ Effect(o)
      BY <1>3, StepEffect DEF IInv, Proceed, TypeOK
    <3>2. o = op
      BY <1>3, <3>1 DEF Proceed
    <3>. QED BY <3>1, <3>2
  <2>. QED BY <1>1, <1>3, <2>1, NewestKept, StandingKept, AnsweredKept, ReportedKept DEF RInv
<1>4. CASE UNCHANGED Undisturbed
  <2>1. Done' = Done
    BY <1>4 DEF Undisturbed, Done, Before
  <2>2. Newest' /\ Standing'
    BY <1>1, <1>4, <2>1 DEF Undisturbed, Newest, Standing, ReviewedBefore, InList
  <2>3. Reported'
    BY <1>1, <1>4 DEF Undisturbed, Bookkept, Reported, GateAsked, LastBefore
  <2>4. ASSUME NEW j, Prepared(j)' PROVE Prepared(j)
    BY <1>4, <2>4 DEF Undisturbed, Prepared, ReviewedBefore, Before
  <2>5. script' = script /\ pc' = pc /\ log' = log
    BY <1>4 DEF Undisturbed
  <2>6. Answered'
    <3>. SUFFICES ASSUME NEW j \in 1 .. pc - 1, LastBefore(script, pc, Asking, j), Prepared(j)'
                  PROVE  log' # <<>> /\ LastAnswer'
      BY <2>5 DEF Answered, LastBefore
    <3>1. log # <<>> /\ LastAnswer
      BY <1>1, <2>4 DEF Answered
    <3>. QED BY <2>5, <3>1 DEF LastAnswer
  <2>. QED BY <1>2, <2>2, <2>3, <2>6
<1>. QED BY <1>2, <1>3, <1>4, StepMoves

LEMMA UndisturbedInvariance == Spec => [](IInv /\ RInv /\ UInv)
<1>1. IInv /\ RInv /\ UInv /\ [Next]_vars => (IInv /\ RInv /\ UInv)'
  BY StepKeeps, NextRegister, NextUndisturbed
<1>. QED BY InitHolds, InitRegister, InitUndisturbed, <1>1, PTL DEF Spec

\* A call that ends undisturbed, of a method that satisfies PurposeAssumption.
LEMMA EndCertified ==
  ASSUME IInv, RInv, UInv, out = "returned", replies = 0
  PROVE  /\ Certified <=> GateAsked
         /\ MissingAcknowledgments = {}
         /\ log # <<>> /\ LastAnswer
         /\ script \in Guarded => status = "DECIDED"
<1>. DEFINE end == Len(Script[script]) + 1
            n == Len(Script[script])
<1>1. /\ script \in Scripts /\ pc = end /\ n \in Nat
      /\ Newest /\ Standing /\ Answered /\ Reported
  <2>1. Script[script] \in Seq(STRING \X STRING)
    BY ScriptAssumption DEF IInv, TypeOK
  <2>. QED BY <2>1 DEF IInv, TypeOK, UInv, AtEnd
<1>2. Done = Before(script, end) /\ 1 .. pc - 1 = 1 .. n
  BY <1>1 DEF Done
<1>3. status # "NONE"
  <2>1. \E i \in 1 .. n : Script[script][i][1] = "register"
    BY <1>1, PurposeAssumption
  <2>. QED BY <1>1, <1>2, <2>1 DEF Reported
<1>4. MissingAcknowledgments = {}
  <2>1. \A g \in Gears : <<"record acknowledgment", g>> \in Before(script, end)
    BY <1>1, PurposeAssumption
  <2>. QED BY <1>2, <2>1 DEF RInv, RegisterFollows, MissingAcknowledgments
<1>5. log # <<>> /\ LastAnswer
  <2>1. PICK j \in 1 .. n :
          /\ LastBefore(script, end, Asking, j)
          /\ IF Script[script][j][1] = "check acknowledgments"
               THEN \A g \in Gears : <<"acknowledge", g>> \in Before(script, j)
               ELSE \A g \in Gears : ReviewedBefore(script, j, g)
    BY <1>1, PurposeAssumption
  <2>. QED BY <1>1, <1>2, <2>1 DEF Answered, Prepared
<1>6. script \in Guarded => status = "DECIDED"
  <2>. SUFFICES ASSUME script \in Guarded PROVE status = "DECIDED"
    OBVIOUS
  <2>1. PICK j \in 1 .. n : /\ Script[script][j] = <<"status", "DECIDED">>
                            /\ LastBefore(script, end, {"register", "status"}, j)
    BY <1>1, PurposeAssumption
  <2>. QED BY <1>1, <1>2, <2>1 DEF Reported
<1>7. GateAsked <=> \E i \in 1 .. n : Script[script][i][1] = "gate"
  BY <1>1, <1>2 DEF Reported
<1>8. CASE \E i \in 1 .. n : Script[script][i][1] = "gate"
  <2>1. \A g \in Gears : ReviewedBefore(script, end, g)
    BY <1>1, <1>8, PurposeAssumption
  <2>2. \A g \in Gears : /\ held[g] # 0 /\ held[g] = Len(versions[g])
                         /\ versions[g][held[g]].status = "MANAGER_APPROVED"
    BY <1>1, <2>1 DEF Standing, Newest, InList
  <2>3. \A g \in Gears : versions[g] # <<>>
    BY <2>2
  <2>4. Gears \subseteq ApprovedLatest
    BY <2>2, <2>3 DEF ApprovedLatest, Latest
  <2>5. status = "DECIDED" => "decision" \in filed
    BY DEF RInv, RegisterFollows, StatusFollows
  <2>6. Certified
    BY <2>4, <2>5 DEF Certified
  <2>. QED BY <1>4, <1>5, <1>6, <1>7, <1>8, <2>6
<1>9. CASE ~\E i \in 1 .. n : Script[script][i][1] = "gate"
  <2>1. PICK g \in Gears : <<"analyze", g>> \notin Before(script, end)
    BY <1>1, <1>9, PurposeAssumption
  <2>2. versions[g] = <<>>
    <3>1. Len(versions[g]) = 0
      BY <1>1, <1>2, <2>1 DEF Newest
    <3>. QED BY <3>1 DEF IInv, TypeOK
  <2>3. ~Certified
    BY <1>3, <2>1, <2>2 DEF Certified, ApprovedLatest
  <2>. QED BY <1>4, <1>5, <1>6, <1>7, <1>9, <2>3
<1>. QED BY <1>8, <1>9

\* A call that no subscriber disturbs ends as its method intends, for every
\* discovery: reviewed by all four gears it is certified, and its last question
\* was answered with yes.
THEOREM UndisturbedEndsCertified == Spec => []UndisturbedIsCertified
<1>1. IInv /\ RInv /\ UInv => UndisturbedIsCertified
  BY EndCertified DEF UndisturbedIsCertified, GateAsked
<1>. QED BY UndisturbedInvariance, <1>1, PTL
=============================================================================
