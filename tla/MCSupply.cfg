SPECIFICATION FairSpec
CONSTANTS
  NULL = NULL
  n1 = n1  n2 = n2
  Resource = {"cpu"}
  MaxI64 = 100
  Node = {n1, n2}
  Controller = {c1}
  Shapes <- MCShapes
  InitialNodes <- MCInitialNodes
  SelectorLists <- MCSelectorLists
  MaxChanges = 2
INVARIANTS TypeOK StatusExplained FilterStandard
PROPERTIES SelectorsOwned SupplyConverges
