SPECIFICATION Spec
CONSTANTS
  Forms = {form}
  AdminForms = {admin}
  Editors = {e1, e2}
  Metas = {m1, m2}
  None = None
  Encodings = {TRUE, FALSE}
  Getters = {2, 3}
  Statuses = {"pending", "open"}
  Tallies = {t1}
  MaxRequests = 2
  MaxTallies = 1
  MaxUpdates = 2
  MaxFaults = 1
INVARIANTS
  TypeOK
  RowsMatchChain
  CreatorFindsElection
  OneElectionPerRequest
PROPERTIES
  UpdatesKeepOtherColumns
  SubmitterReleased
CHECK_DEADLOCK FALSE
