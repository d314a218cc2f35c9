SPECIFICATION Spec
CONSTANTS
  Skills = {s1, s2}
  None = none
  Threshold = 1
INVARIANTS OneReview EvictedAreForgotten NoTurnIsDropped
PROPERTIES ManualChoiceStays
