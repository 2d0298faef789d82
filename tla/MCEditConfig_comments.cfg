\* What comments of the code say of edits of defaults and of the differences
\* told to transAPI; both are refuted (tlc -continue shows both).
CONSTANTS
  Kind <- MCKind
  Children <- MCChildren
  KeyOf <- MCKeyOf
  Default <- MCDefault
  CaseOf <- MCCaseOf
  DefaultCase <- MCDefaultCase
  UserOrdered = {"l", "m"}
  Configs <- MCConfigs
  Requests <- MCRequests
  QualifiedDefaults = {}
SPECIFICATION Spec
INVARIANTS
  DefaultEditsSucceed
  RemovedMeansGone
