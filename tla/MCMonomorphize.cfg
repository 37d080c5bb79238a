SPECIFICATION Spec
CONSTANTS
    Programs <- MCPrograms
    Builtin <- MCBuiltin
    MaxInstances = 14
INVARIANTS
  UsesKeepTheirMeaning
  ImplsFoundByType
  InstancesAreFinite
