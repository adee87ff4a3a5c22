CONSTANTS
  h1 = h1
  h2 = h2
  s1 = s1
  s2 = s2
  x = x
  y = y
  kx = kx
  ky = ky
  ks = ks
  o1 = o1
  o2 = o2
  NoKey = NoKey
  NoOp = NoOp
  Topics <- MCTopics
  Texts <- MCTexts
  Keys <- MCKeys
  KeyOf <- MCKeyOf
  Stable <- MCStable
  GroupOf <- MCGroupOf
  WebOps <- MCWebOps
  MaxRows = 3
  MaxWrites = 5
  MaxNow = 1
  MaxDreams = 2
SPECIFICATION Spec
SYMMETRY Symmetry
CHECK_DEADLOCK FALSE
INVARIANTS
  TypeOK
  PointerOwnsKey
  NewestTextIsShown
PROPERTIES
  MergeSawWhatItReplaces
  RestoreReturnsTheArchived
  ReviewLeavesOne
