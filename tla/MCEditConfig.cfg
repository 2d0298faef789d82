\* One edit of a small configuration with every operation.
CONSTANTS
  Kind <- MCKind
  Children <- MCChildren
  KeyOf <- MCKeyOf
  Default <- MCDefault
  CaseOf <- MCCaseOf
  DefaultCase <- MCDefaultCase
  UserOrdered = {"l", "m"}
  Configs <- MCConfigs
  Requests <- MCRequests
  QualifiedDefaults = {}
SPECIFICATION Spec
INVARIANTS
  EditIsAsAsked
  InsertedWhereAsked
  DiffTellsChanges
PROPERTIES
  DefaultsAreNeutral
