CONSTANTS
  Units = 4
  Trees <- AnyTree
SPECIFICATION Spec
INVARIANTS
  ParseInv
  AddressesRight
  EnteredInOrder
  EverythingMapped
  ScopedInStack
