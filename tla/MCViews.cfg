SPECIFICATION Spec
CONSTANTS
  e1 = e1
  e2 = e2
  meta1 = meta1
  meta2 = meta2
  block1 = block1
  block2 = block2
  Elections = {e1, e2}
  Charts = {chart}
  Tabs = {tab}
  None = None
  Keys = {key}
  Pdas = {meta1, meta2, block1, block2}
  Signers = {relayer, other}
  NoSigner = noSigner
  Relayer = relayer
  Premade = {meta1, block1}
  Values = {yes}
  NoValue = noValue
  MetaPda <- MetaOf
  BlockPda <- BlockOf
  MaxVisits = 2
  MaxSockets = 3
  MaxFaults = 2
INVARIANTS
  TypeOK
  PagesHoldOneConnection
PROPERTY ViewsSettle
CHECK_DEADLOCK FALSE
