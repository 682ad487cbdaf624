SPECIFICATION Spec
CONSTANTS
  Profiles <- MCProfiles
  Foreign <- MCForeign
  Configs <- MCConfigs
  Results <- MCAdapter
  Requested <- MCRequested
INVARIANTS
  UnsafeEvidenceDecides
CHECK_DEADLOCK FALSE
