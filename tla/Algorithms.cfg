\* Every input is drawn once, from small sets that reach each branch.
SPECIFICATION Spec
CONSTANTS
  VKWords = 1
  ValueWords = 1
  HashFamily <- MCHashFamily
  MaxBytes = 36
  Modulus = 256
INVARIANTS
  TimelineSound
  AnswersFaithful
  InspectionFaithful
  ConfigAgrees
\* One input ends a behaviour.
CHECK_DEADLOCK FALSE
