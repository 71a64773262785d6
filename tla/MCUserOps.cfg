SPECIFICATION Spec
CONSTANTS
  owner = owner
  mint = mint
  vote = vote
  Owners = {owner}
  MintPages = {mint}
  VotePages = {vote}
  OwnerOf <- OneOwner
  Salts = {0, 1}
  Index = 0
  None = none
  Prefund = 3
  Cost = 2
  MaxClicks = 2
  MaxFaults = 2
INVARIANTS
  TypeOK
  WalletsAreRegistered
  OneBallotPerClick
PROPERTY PagesAreReleased
\* The clicks are bounded.
CHECK_DEADLOCK FALSE
