SPECIFICATION Spec
CONSTANTS
  Voters = {voter}
  Pages = {page}
  user = user
  Users = {user}
  UserOf <- MCUserOf
  Workers = {w1}
  Api = api
  Modes = {TRUE, FALSE}
  Quota = 2
  MaxPolls = 1
  MaxJobs = 3
  MaxDay = 2
  MaxFaults = 1
INVARIANTS
  TypeOK
  JobsWithinQuota
  SucceededIsAudited
PROPERTIES
  AnswerStands
  JobsAreAnswered
  VotersAreReleased
CHECK_DEADLOCK FALSE
