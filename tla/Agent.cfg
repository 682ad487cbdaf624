SPECIFICATION Spec
CONSTANTS
  Profiles <- MCProfiles
  Foreign <- MCForeign
  Configs <- MCConfigs
  Results <- MCResults
  Requested <- MCRequested
INVARIANTS
  TypeOK
  AuthorityNeverWidens
  NothingWithoutConsent
  RetriesAreSound
  ReportIsComplete
  LogIsWeighed
CHECK_DEADLOCK FALSE
