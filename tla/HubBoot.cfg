SPECIFICATION Spec
CONSTANTS
  MaxRetry = 2
  FailLimit = 2
  ReinitPolls = 2
  MaxAborts = 1
INVARIANTS
  LinkIsKnown
  RestartIsEarned
PROPERTY HubTries
