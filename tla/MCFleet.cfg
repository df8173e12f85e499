SPECIFICATION FairSpec
CONSTANTS
  NULL = NULL
  east = east  west = west
  Resource = {"cpu"}
  MaxI64 = 1000000
  MaxI32 = 1000000
  Cluster = {east, west}
  Supply <- MCSupply
  Loads <- MCLoads
  Specs <- MCSpecs
  Configs <- MCConfigs
  Others <- MCOthers
  Targets <- MCTargets
INVARIANTS TypeOK FleetMeetsTarget
PROPERTIES LostClusterKeepsBudget 
