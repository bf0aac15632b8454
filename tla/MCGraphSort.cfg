CONSTANTS
  N = 4
  Graphs <- AllGraphs
SPECIFICATION FairSpec
INVARIANTS
  SortInv
  TopologicallySorted
  AllEmitted
PROPERTIES
  SortEnds
  ImplementsOrder
