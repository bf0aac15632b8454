CONSTANTS
  N = 6
  Templates <- Stacks
SPECIFICATION FairSpec
INVARIANTS
  TypeOK
  NothingMissing
  AllResourcesConverted
  DependsOnHonoured
PROPERTIES
  RegisteredAfterDependencies
  ConversionEnds
