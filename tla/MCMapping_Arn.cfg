CONSTANTS
  Programs <- ShortArns
  Numerals <- FirstNumerals
  normalized <- normalize
  processed <- processValues
  inputs <- Inputs
  types <- Types
  parameterType <- SsmTypes
  remapCloudControlResource <- Remap
  MaxHumanLen = 8
INIT Init
NEXT Next
INVARIANT CompleteArn
CHECK_DEADLOCK FALSE
