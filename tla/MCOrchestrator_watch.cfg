SPECIFICATION OrchSpec
CONSTANTS
  Accounts = {orch, other}
  NoAccount = noAccount
  Receivers = {other}
  InitialOwner = orch
  Orch = orch
  Implementations = {v2}
  InitialImpl = v2
  Strategies = {quadratic}
  NoStrategy = noStrategy
  Tallies = {zero, yes}
  ZeroTally = zero
  Accepted <- MCAccepted
  Duration = 1
  FirstBlock = 1
  MaxBlock = 4
  MaxElections = 1
  MaxMessages = 0
  PublicSignals = 7
  MaxFaults = 1
PROPERTY WatchEnds
CHECK_DEADLOCK FALSE
