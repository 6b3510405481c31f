SPECIFICATION Spec
INVARIANTS
  TypeOK ControlNeedsNoSecret SealedIsDiagnosed ReasonSurvivesSeal
CHECK_DEADLOCK FALSE
