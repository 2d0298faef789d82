\* What the comments of nacm.c say of three operations and of default-deny-all
\* (refuted).
CONSTANTS
  Sessions <- MCSessions
  Configs <- MCConfigs
  Documents <- MCDocuments
  Data <- MCData
  Fetched <- MCFetched
  Module <- MCModule
  DenyAll <- MCDenyAll
  Nodes <- MCNodes
  StoreArgs <- MCStoreArgs
  MaxClock = 2
SPECIFICATION Spec
INVARIANT
  CommentsFollowed
