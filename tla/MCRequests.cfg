CONSTANTS
  Sessions <- MCSessions
  Configs <- MCConfigs
  Documents <- MCDocuments
  Data <- MCData
  Fetched <- MCFetched
  Module <- MCModule
  DenyAll <- MCDenyAll
  Nodes <- MCNodes
  StoreArgs <- MCStoreArgs
  MaxClock = 2
SPECIFICATION Spec
INVARIANTS
  RequestReadAsBuilt
  DecisionFollowsRules
  ReplyTellsAll
