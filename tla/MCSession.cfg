SPECIFICATION Spec
CONSTANTS
  Users = {alice, bob}
  Admins = {alice}
  None = None
  Deployments = {TRUE, FALSE}
  MaxAttempts = 2
  MaxRedirects = 1
  MaxFaults = 1
INVARIANTS
  TypeOK
  SessionSurvivesReload
  EligibilityOfToken
PROPERTIES
  SessionIsNotDropped
  FlowsEnd
CHECK_DEADLOCK FALSE
