SPECIFICATION Spec
CONSTANTS
  Script <- ScriptOf
  Inputs <- InputsOf
  Repliers = {"scraping", "security"}
  MaxReplies = 3
INVARIANTS
  TypeOK
  StatusBacked
  PassedWasAcknowledged
  OneChoiceOnly
  UndisturbedIsCertified
PROPERTIES
  DisputesSurvive
  ImplementsReviewedDecision
CHECK_DEADLOCK FALSE
