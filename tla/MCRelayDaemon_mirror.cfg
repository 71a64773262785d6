SPECIFICATION FairSpec
CONSTANTS
  Elections = {e1}
  Pairs = {yes}
  Values = {yes}
  NoValue = noValue
  MaxHead = 3
  MaxForks = 0
  MaxReorg = 0
  MaxPerBlock = 1
  Confirmations = 0
  MaxAttempts = 5
  MaxFaults = 0
  Keys = {}
  Signers = {relayer, other}
  NoSigner = noSigner
  Relayer = relayer
  Premade <- NoPdas
PROPERTY EventuallyMirrored
CHECK_DEADLOCK FALSE
