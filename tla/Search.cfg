SPECIFICATION Spec
CONSTANTS
  Ids = {1, 2}
  MaxChunks = 2
  Terms = {"w", "v"}
  Names <- SpelledNames
  Values <- SpelledValues
  Blank = Blank
  Canonical <- InLowerCase
  Trimmed <- WithoutSpace
  Nodes = {1, 2, 3, 4, 5}
  EdgeIds = {1, 2, 3, 4, 5, 6, 7, 8}
  NewEdgeIds = {1, 2, 3}
  Labels = {"a", "b"}
  NoLabel = NoLabel
  NoEnds = NoEnds
  Entries <- SomeEntries
  Texts <- SomeTexts
  Collections = {"l1", "l2"}
  None = None
  Beneath <- OneBeneath
  Drawn <- SomeEdges
  Databases <- SomeDatabases
  NearOrder <- SomeOrder
  Requests <- SomeRequests
  Depths = {0, 1, 2}
  Scale = 495593280
  MaxUsed = 3
INVARIANTS TypeOK TextCounted GraphMirrors DistancesExact SubtreeExact ListsOwnEdges SearchSound SearchComplete FusionAgrees SuggestionsNew
CHECK_DEADLOCK FALSE
