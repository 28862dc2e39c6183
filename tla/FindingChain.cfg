SPECIFICATION Spec
CONSTANTS
  f1 = f1
  f2 = f2
  plan1 = plan1
  joint = joint
  follow = follow
  Findings = {f1, f2}
  Hypotheses = {plan1, joint, follow}
  Managers = {m1}
  Gear <- GearOf3
  Parents <- ParentsOf
  Planned = {plan1, follow}
  Asset <- SpelledAs
  Normal <- NormalForm
  Linkable <- Edges
  Preferences = {"none", "security"}
  DataFaults <- FaultSets
  ChainBudget = 2
  MaxRequests = 2
INVARIANTS
  TypeOK
  OneDispatchPerWork
  OverrunBounded
  ObservationIsLinked
PROPERTIES
  DispatchIsAuthorized
