CONSTANTS
  Units = 2
  Trees <- TreesOf
SPECIFICATION Spec
INVARIANTS
  NamedByAccident
