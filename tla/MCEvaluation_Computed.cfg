CONSTANTS
  Templates <- ComputedTemplates
  asks <- Asks
INIT Init
NEXT Next
INVARIANTS
  EvaluatesToItsMeaning
CHECK_DEADLOCK FALSE
