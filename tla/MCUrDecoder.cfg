SPECIFICATION FairSpec
CONSTANTS
  h1 = h1
  h2 = h2
  d1 = d1
  d2 = d2
  Hash <- MCHash
  Data <- MCData
  MaxTotal = 4
  NoHash = NoHash
  NoPart = NoPart
INVARIANTS
  UrTypeOK
PROPERTIES
  PromiseSpec
  PartsComplete
