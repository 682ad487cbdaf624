SPECIFICATION Spec
CONSTANTS
  Profiles <- MCProfiles
  Foreign <- MCForeign
  Configs <- MCConfigs
  Results <- MCBundled
  Requested <- MCRequested
INVARIANTS
  MissingInterpreterIsRetried
CHECK_DEADLOCK FALSE
