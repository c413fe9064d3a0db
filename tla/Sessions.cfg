SPECIFICATION FairSpec
CONSTANTS
  r1 = r1
  r2 = r2
  Requests <- TwoRequests
  MaxKeys = 2
  MaxSessionsPerUser = 1
  MaxFailedAttempts = 1
  Lifetime = 4
  MaxTime = 4
  MaxTokens = 2
  MaxChanges = 1
INVARIANTS CredentialChangeEndsSessions RefreshTokenSingleUse WithinSessionLimit
PROPERTIES NeverRevived RequestsAnswered
CHECK_DEADLOCK FALSE
