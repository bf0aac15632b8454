CONSTANTS
  M = 4
  Other = Other
  Assemblies <- AnyAssembly
SPECIFICATION FairSpec
INVARIANTS
  OnceInv
  OncePerDependent
  NothingOverFailure
PROPERTIES
  DependsOnLatest
  ConversionEnds
