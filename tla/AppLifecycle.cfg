CONSTANTS
  Request = {r1, r2}
  MaxLookups = 2
  Lookups = {TRUE, FALSE}
SPECIFICATION FairSpec
INVARIANTS
  TypeOK
  OutputsMerged
  AnsweredOverConversion
PROPERTIES
  Answered
