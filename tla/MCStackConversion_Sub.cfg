CONSTANTS
  N = 6
  Templates <- SubStacks
SPECIFICATION Spec
INVARIANTS
  EverythingConverted
