CONSTANTS
  N = 6
  Templates <- VpcStack
SPECIFICATION Spec
INVARIANTS
  EverythingConverted
