SPECIFICATION FairSpec
CONSTANTS
  Elections = {e1, e2}
  Pairs = {yes, huge}
  Values = {yes}
  NoValue = noValue
  MaxHead = 3
  MaxForks = 1
  MaxReorg = 1
  MaxPerBlock = 2
  Confirmations = 1
  MaxAttempts = 2
  MaxFaults = 1
  Keys = {key}
  Signers = {relayer, other}
  NoSigner = noSigner
  Relayer = relayer
  Premade <- OddHeights
PROPERTY EventuallySettled
CHECK_DEADLOCK FALSE
