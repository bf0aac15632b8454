CONSTANTS
  Templates <- AnyTemplate
  asks <- Asks
INIT Init
NEXT Next
INVARIANTS
  EvaluationInv
  AgreesWithCloudFormation
  ResolvesWhatHasAMeaning
  OrderDoesNotMatter
  OutputOfItsStack
CHECK_DEADLOCK FALSE
