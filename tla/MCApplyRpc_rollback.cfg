CONSTANTS
  s1 = s1
  s2 = s2
  nobody = nobody
  a = a
  Sessions = {s1, s2}
  NoSession = nobody
  Targets = {"running", "candidate"}
  Nodes = {a}
  List <- UsedList
  internal_ds_count = 2
  Files = {1, 2, 3}
  Tapi = {2, 3}
  Validators = {1, 3}
  Implementing = {3}
  Validate = TRUE
  DeviceUndoes = FALSE
  Rpcs <- UsedRpcs
  MaxRpcs = 2
SPECIFICATION Spec
INVARIANT OnlyChangedRolledBack
