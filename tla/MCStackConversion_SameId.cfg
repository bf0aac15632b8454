CONSTANTS
  N = 6
  Templates <- SameIdStacks
SPECIFICATION Spec
INVARIANTS
  EverythingConverted
