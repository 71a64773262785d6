SPECIFICATION Spec
CONSTANTS
  Forms = {form}
  AdminForms = {}
  Editors = {}
  Metas = {m1, m2}
  None = None
  Encodings = {TRUE}
  Getters = {2}
  Statuses = {"pending", "open"}
  Tallies = {t1}
  MaxRequests = 3
  MaxTallies = 1
  MaxUpdates = 0
  MaxFaults = 0
INVARIANT CreationIsAnswered
CHECK_DEADLOCK FALSE
