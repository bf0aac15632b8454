CONSTANTS
  Templates <- SameNameTemplates
  asks <- Asks
INIT Init
NEXT Next
INVARIANTS
  OutputOfNoOtherStack
CHECK_DEADLOCK FALSE
