CONSTANTS
  Programs <- AnyProgram
  Numerals <- FirstNumerals
  normalized <- normalize
  processed <- processValues
  inputs <- Inputs
  types <- Types
  parameterType <- SsmTypes
  remapCloudControlResource <- Remap
  MaxHumanLen = 8
INIT Init
NEXT Next
INVARIANTS
  MappingInv
  NamesDiffer
  IdIgnoresDefault
  ArgumentsConverted
  ReferencesResolved
  SecretsStaySecret
CHECK_DEADLOCK FALSE
