CONSTANTS
  Stack = {s1}
  Hash = {h1}
  img = img
  Img = Img
  other = other
  AssetName <- AllNames
  RepoName <- Repos
  Original = Original
SPECIFICATION Spec
SYMMETRY Symmetric
INVARIANTS
  PolicyPerRepository
