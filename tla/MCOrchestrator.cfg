SPECIFICATION OrchSpec
CONSTANTS
  Accounts = {orch, other}
  NoAccount = noAccount
  Receivers = {other}
  InitialOwner = orch
  Orch = orch
  Implementations = {v2}
  InitialImpl = v2
  Strategies = {quadratic}
  NoStrategy = noStrategy
  Tallies = {zero, yes}
  ZeroTally = zero
  Accepted <- MCAccepted
  Duration = 1
  FirstBlock = 1
  MaxBlock = 5
  MaxElections = 2
  MaxMessages = 0
  PublicSignals = 7
  MaxFaults = 1
INVARIANTS
  OrchTypeOK
  NothingMissed
  SuccessMeansTallied
PROPERTY TalliesInTheEnd
\* The process ends, and the chain stops at MaxBlock.
CHECK_DEADLOCK FALSE
