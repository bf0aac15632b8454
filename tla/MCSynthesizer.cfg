CONSTANTS
  Stack = {s1, s2}
  Hash = {h1, h2}
  img = img
  Img = Img
  other = other
  AssetName <- Names
  RepoName <- Repos
  Original = Original
SPECIFICATION Spec
SYMMETRY Symmetric
INVARIANTS
  TypeOK
  CreatedOnce
  StoredWhenReady
