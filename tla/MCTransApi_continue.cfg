CONSTANTS
  Nodes <- UsedNodes
  Diffs <- AllTrees
  Orders = {"LEAF_TO_ROOT", "ROOT_TO_LEAF"}
  Erropts = {"stop", "continue", "rollback"}
  MaxFails = 1
SPECIFICATION Spec
INVARIANT FailureRemembered
