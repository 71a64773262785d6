SPECIFICATION Spec
CONSTANTS
  Elections = {e1, e2}
  Pairs = {yes, no, huge}
  Values = {yes, no}
  NoValue = noValue
  MaxHead = 4
  MaxForks = 1
  MaxReorg = 1
  MaxPerBlock = 2
  Confirmations = 1
  MaxAttempts = 2
  MaxFaults = 2
  Keys = {}
  Signers = {relayer, other}
  NoSigner = noSigner
  Relayer = relayer
  Premade <- BlockHashes
INVARIANTS
  TypeOK
  MirrorIsCanonical
  NoTallySkipped
PROPERTIES
  CursorAdvances
  BridgeSpec
SYMMETRY Symmetry
CHECK_DEADLOCK FALSE
