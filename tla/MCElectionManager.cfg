SPECIFICATION Spec
CONSTANTS
  Accounts = {alice, wallet, vault}
  NoAccount = noAccount
  Receivers = {alice, wallet}
  InitialOwner = alice
  Implementations = {v2, v2b}
  InitialImpl = v2
  Strategies = {quadratic}
  NoStrategy = noStrategy
  Tallies = {zero, yes, no}
  ZeroTally = zero
  Unprovable = no
  Accepted <- MCAccepted
  Duration = 1
  FirstBlock = 1
  MaxBlock = 4
  MaxElections = 2
  MaxMessages = 2
INVARIANTS
  TypeOK
  OneTallyPerElection
  BallotsPrecedeTally
  TalliedWithProof
  GlobalResultIsLatest
PROPERTY LifecycleSpec
\* The chain stops at MaxBlock.
CHECK_DEADLOCK FALSE
