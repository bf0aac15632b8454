CONSTANTS
  M = 3
  Other = Other
  Assemblies <- Dependent
SPECIFICATION Spec
INVARIANTS
  ConvertedOnce
