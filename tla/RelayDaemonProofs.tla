-------------------------- MODULE RelayDaemonProofs --------------------------
(***************************************************************************)
(* Theorems about RelayDaemon for any tallies, accounts and bounds: the    *)
(* type invariant, the cursor that never goes back, the mirror that holds  *)
(* canonical tallies only, the tallies that are not skipped, and the       *)
(* refinement of TallyBridge.                                              *)
(*                                                                         *)
(* What relates to reorganisations is proved for SafeDepth, which          *)
(* MirrorIsCanonical and NoTallySkipped have as a hypothesis of their own. *)
(***************************************************************************)
EXTENDS RelayDaemon, TLAPS

(***************************************************************************)
(* Types                                                                   *)
(***************************************************************************)

\* The catch clause parks a log as soon as its attempts are used up.
AttemptsLeft == pc = "bridge" => attempt < MaxAttempts

Typed == TypeOK /\ AttemptsLeft

\* A block hash is a pair of the bounds.
LEMMA HashType ==
  ASSUME NEW l \in Log
  PROVE  BlockHash(l) \in BlockHashes /\ l.pair \in Pairs
  BY DEF Log, BlockHash, BlockHashes

\* The chain keeps its types.
LEMMA ChainKeepsTypes ==
  ASSUME Typed, Chain
  PROVE  Typed'
<1> USE ChainAssumption
<1>1. ChainTypeOK'
  <2>1. ASSUME MineBlock
        PROVE  ChainTypeOK'
    <3>1. PICK B \in NextBlocks : logs' = logs \union B
      BY <2>1 DEF MineBlock
    <3>2. B \subseteq Log
      BY <2>1, <3>1 DEF NextBlocks, MineBlock, Log, Typed, TypeOK, ChainTypeOK
    <3>3. logs' \subseteq Log
      BY <3>1, <3>2 DEF Typed, TypeOK, ChainTypeOK
    <3> QED
      BY <2>1, <3>3 DEF MineBlock, Typed, TypeOK, ChainTypeOK
  <2>2. ASSUME NEW n \in 0 .. MaxHead, Reorganise(n)
        PROVE  ChainTypeOK'
    BY <2>2 DEF Reorganise, Typed, TypeOK, ChainTypeOK
  <2> QED
    BY <2>1, <2>2 DEF Chain, ChainNext
<1> QED
  BY <1>1 DEF Chain, Typed, TypeOK, AttemptsLeft, MirrorTypeOK, solanaVars, tableVars, memoryVars

\* A wallet's instruction leaves accounts of the program.
LEMMA SetTallyType ==
  ASSUME MirrorTypeOK, NEW s \in Signers, NEW a \in Addresses, NEW v \in Values, SetTally(s, a, v)
  PROVE  MirrorTypeOK'
  BY DEF MirrorTypeOK, SetTally, Account

\* An account that is created has its type.
LEMMA InitialiseType ==
  ASSUME MirrorTypeOK, NEW s \in Signers, NEW a \in Keys, Initialise(s, a)
  PROVE  MirrorTypeOK'
  BY DEF MirrorTypeOK, Initialise, Account, Fresh, Addresses

\* So has every account after an instruction of any wallet.
LEMMA MirrorUseType ==
  ASSUME MirrorTypeOK, MirrorUse
  PROVE  MirrorTypeOK'
  BY SetTallyType, InitialiseType DEF MirrorUse, Others

\* Going on with the rest of a batch, or saving the cursor after it.
LEMMA ContinueType ==
  ASSUME Typed, NEW rest \in SUBSET Log, Continue(rest)
  PROVE  /\ batch' \subseteq Log /\ attempt' \in 0 .. MaxAttempts /\ last' \in 0 .. MaxHead
         /\ pc' \in {"bridge", "save"}
         /\ pc' = "bridge" => batch' # {} /\ attempt' < MaxAttempts
  BY RelayAssumption DEF Continue, Typed, TypeOK

\* A failed attempt is retried or parked; the count stays in its bound.
LEMMA AttemptFailedType ==
  ASSUME Typed, AttemptFailed, pc = "bridge"
  PROVE  /\ attempt' \in 0 .. MaxAttempts
         /\ pc' \in {"bridge", "park"}
         /\ pc' = "bridge" => attempt' < MaxAttempts
  BY RelayAssumption DEF AttemptFailed, Typed, TypeOK, AttemptsLeft

\* The daemon's steps keep the types.
LEMMA DaemonKeepsTypes ==
  ASSUME Typed, Daemon
  PROVE  Typed'
<1> USE ChainAssumption, RelayAssumption
<1> USE DEF Typed, TypeOK, AttemptsLeft
<1>1. CASE Start \/ CountAtStart \/ LoadCursor \/ InsertCursor \/ Poll \/ SaveCursor
  BY <1>1 DEF Start, CountAtStart, LoadCursor, InsertCursor, Poll, SaveCursor, chainVars,
              solanaVars, tableVars, memoryVars, ChainTypeOK, MirrorTypeOK, Running, Booting
<1>2. CASE Fetch
  <2>1. GetLogs(last + 1, upTo) \in SUBSET Log
    BY DEF GetLogs, ChainTypeOK
  <2> HIDE DEF Typed
  <2>2. Typed
    BY DEF Typed
  <2>3. /\ batch' \subseteq Log /\ attempt' \in 0 .. MaxAttempts /\ last' \in 0 .. MaxHead
        /\ pc' \in {"bridge", "save"}
        /\ pc' = "bridge" => batch' # {} /\ attempt' < MaxAttempts
    BY <1>2, <2>1, <2>2, ContinueType DEF Fetch
  <2> QED
    BY <1>2, <2>3 DEF Typed, Fetch, chainVars, solanaVars, tableVars, ChainTypeOK, MirrorTypeOK, Running
<1>3. ASSUME NEW log \in batch, Confirmed(log)
      PROVE  Typed'
  <2>1. log \in Log /\ batch \ {log} \in SUBSET Log
    OBVIOUS
  <2>2. MirrorTypeOK'
    BY <1>3, <2>1, SetTallyType, HashType DEF Confirmed, Addresses
  <2> HIDE DEF Typed
  <2>3. Typed
    BY DEF Typed
  <2>4. /\ batch' \subseteq Log /\ attempt' \in 0 .. MaxAttempts /\ last' \in 0 .. MaxHead
        /\ pc' \in {"bridge", "save"}
        /\ pc' = "bridge" => batch' # {} /\ attempt' < MaxAttempts
    BY <1>3, <2>1, <2>3, ContinueType DEF Confirmed
  <2>5. shown' \in BlockHashes
    BY <1>3, <2>1, HashType DEF Confirmed
  <2> QED
    BY <1>3, <2>2, <2>4, <2>5 DEF Typed, Confirmed, chainVars, tableVars, ChainTypeOK, Running
<1>4. ASSUME NEW log \in batch, pc = "bridge", Rejected(log)
      PROVE  Typed'
  <2> HIDE DEF Typed
  <2>1. Typed
    BY DEF Typed
  <2>2. /\ attempt' \in 0 .. MaxAttempts
        /\ pc' \in {"bridge", "park"}
        /\ pc' = "bridge" => attempt' < MaxAttempts
    BY <1>4, <2>1, AttemptFailedType DEF Rejected
  <2> QED
    BY <1>4, <2>2 DEF Typed, Rejected, AttemptFailed, chainVars, tableVars, ChainTypeOK, MirrorTypeOK, Running
<1>5. CASE Park
  <2>1. dlq' \subseteq Log
    BY <1>5 DEF Park
  <2> QED
    BY <1>5, <2>1 DEF Park, chainVars, solanaVars, memoryVars, ChainTypeOK, MirrorTypeOK, Running
<1>6. CASE Recount
  <2>1. PICK log \in batch : Continue(batch \ {log})
    BY <1>6 DEF Recount
  <2>2. batch \ {log} \in SUBSET Log
    OBVIOUS
  <2> HIDE DEF Typed
  <2>3. Typed
    BY DEF Typed
  <2>4. /\ batch' \subseteq Log /\ attempt' \in 0 .. MaxAttempts /\ last' \in 0 .. MaxHead
        /\ pc' \in {"bridge", "save"}
        /\ pc' = "bridge" => batch' # {} /\ attempt' < MaxAttempts
    BY <2>1, <2>2, <2>3, ContinueType
  <2> QED
    BY <1>6, <2>4 DEF Typed, Recount, chainVars, solanaVars, tableVars, ChainTypeOK, MirrorTypeOK, Running
<1> QED
  BY <1>1, <1>2, <1>3, <1>4, <1>5, <1>6 DEF Daemon, BridgeTally

\* A write whose answer was lost.
LEMMA WriteLostType ==
  ASSUME Typed, WriteLost
  PROVE  /\ cursor' \in {NoRow} \union (0 .. MaxHead)
         /\ start' \in {NoRow} \union (0 .. MaxHead)
         /\ dlq' \subseteq Log
  BY DEF Typed, TypeOK, WriteLost

\* A transaction that was sent without a confirmation.
LEMMA SentType ==
  ASSUME Typed, NEW log \in batch, Sent(log)
  PROVE  inflight' \subseteq Transaction
  BY HashType DEF Typed, TypeOK, Sent, Transaction

\* So do failures.
LEMMA FaultsKeepTypes ==
  ASSUME Typed, Faults
  PROVE  Typed'
<1> USE ChainAssumption, RelayAssumption
<1>1. CASE BridgeUnconfirmed
  <2>1. PICK log \in batch : Unconfirmed(log) /\ pc = "bridge"
    BY <1>1 DEF BridgeUnconfirmed
  <2>2. inflight' \subseteq Transaction
    BY <2>1, SentType DEF Unconfirmed, Typed, TypeOK
  <2>3. /\ attempt' \in 0 .. MaxAttempts
        /\ pc' \in {"bridge", "park"}
        /\ pc' = "bridge" => attempt' < MaxAttempts
    BY <2>1, AttemptFailedType DEF Unconfirmed
  <2>4. faults' \in 0 .. MaxFaults
    BY <2>1 DEF Unconfirmed, Typed, TypeOK
  <2> QED
    BY <2>1, <2>2, <2>3, <2>4
    DEF Typed, TypeOK, AttemptsLeft, Unconfirmed, AttemptFailed, chainVars, tableVars,
        ChainTypeOK, MirrorTypeOK, Running
<1>2. CASE CallFails
  BY <1>2, WriteLostType
  DEF Typed, TypeOK, AttemptsLeft, CallFails, chainVars, solanaVars, ChainTypeOK, MirrorTypeOK, Running
<1>3. CASE Crash
  <2>1. inflight' \subseteq Transaction
    BY <1>3, SentType DEF Crash, Typed, TypeOK
  <2> QED
    BY <1>3, <2>1, WriteLostType
    DEF Typed, TypeOK, AttemptsLeft, Crash, chainVars, ChainTypeOK, MirrorTypeOK
<1> QED
  BY <1>1, <1>2, <1>3 DEF Faults

\* And the rest of the system.
LEMMA EnvironmentKeepsTypes ==
  ASSUME Typed, Environment
  PROVE  Typed'
<1> USE ChainAssumption, RelayAssumption
<1>1. ASSUME NEW t \in inflight, Settle(t) \/ Expire(t)
      PROVE  Typed'
  <2>1. t.pda \in Addresses /\ t.value \in Values
    BY DEF Typed, TypeOK, Transaction, Addresses
  <2>2. MirrorTypeOK'
    BY <1>1, <2>1, SetTallyType DEF Settle, Expire, Typed, TypeOK, MirrorTypeOK
  <2> QED
    BY <1>1, <2>2
    DEF Typed, TypeOK, AttemptsLeft, Settle, Expire, chainVars, tableVars, memoryVars, ChainTypeOK
<1>2. CASE OtherWallets
  <2>1. MirrorTypeOK'
    BY <1>2, MirrorUseType DEF OtherWallets, Typed, TypeOK
  <2> QED
    BY <1>2, <2>1
    DEF Typed, TypeOK, AttemptsLeft, OtherWallets, chainVars, tableVars, memoryVars, ChainTypeOK
<1>3. CASE CreateTables
  BY <1>3
  DEF Typed, TypeOK, AttemptsLeft, CreateTables, chainVars, solanaVars, memoryVars, ChainTypeOK, MirrorTypeOK
<1> QED
  BY <1>1, <1>2, <1>3, ChainKeepsTypes DEF Environment

\* A daemon that starts is typed.
LEMMA InitTyped == Init => Typed
<1> USE ChainAssumption, RelayAssumption
<1> SUFFICES ASSUME Init PROVE Typed
  OBVIOUS
<1>1. MirrorTypeOK
  BY DEF Init, MirrorInit, MirrorTypeOK, Account, Fresh, Absent
<1>2. ChainTypeOK
  BY DEF Init, ChainInit, ChainTypeOK
<1>3. /\ last \in 0 .. MaxHead /\ upTo \in 0 .. MaxHead
      /\ attempt \in 0 .. MaxAttempts /\ faults \in 0 .. MaxFaults
  BY DEF Init
<1>4. inflight \subseteq Transaction /\ dlq \subseteq Log /\ batch \subseteq Log
  BY DEF Init
<1>5. /\ pc = "down" /\ tables \in BOOLEAN /\ shown \in {NoPda}
      /\ cursor \in {NoRow} /\ start \in {NoRow}
  BY DEF Init
<1> QED
  BY <1>1, <1>2, <1>3, <1>4, <1>5 DEF Typed, TypeOK, AttemptsLeft

\* Every step keeps the types.
LEMMA NextTyped == Typed /\ [Next]_vars => Typed'
<1> SUFFICES ASSUME Typed, [Next]_vars PROVE Typed'
  OBVIOUS
<1>1. CASE Next
  BY <1>1, DaemonKeepsTypes, FaultsKeepTypes, EnvironmentKeepsTypes DEF Next
<1>2. CASE UNCHANGED vars
  BY <1>2 DEF vars, chainVars, solanaVars, tableVars, memoryVars, Typed, TypeOK, AttemptsLeft,
              ChainTypeOK, MirrorTypeOK
<1> QED
  BY <1>1, <1>2

\* Every reachable state has the types TypeOK gives it; a log is tried while
\* attempts are left and parked when they are not.
THEOREM TypeCorrect == Spec => []TypeOK
<1>1. Typed => TypeOK
  BY DEF Typed
<1> QED
  BY <1>1, InitTyped, NextTyped, PTL DEF Spec

(***************************************************************************)
(* The cursor                                                              *)
(***************************************************************************)

Scanning == {"fetch", "bridge", "park", "recount"}

\* The row of the cursor is written with its first value, memory runs ahead of it,
\* and a range that is being scanned is not empty.
CursorBehind ==
  /\ cursor = NoRow <=> start = NoRow
  /\ pc = "insert" => cursor = NoRow
  /\ pc \in Running => cursor # NoRow /\ cursor <= last
  /\ start <= cursor
  /\ pc \in Scanning => last < upTo
  /\ pc \notin {"bridge", "park", "recount"} => batch = {}

\* Going on with the rest of a batch.
LEMMA ContinueBehind ==
  ASSUME Typed, CursorBehind, pc \in Scanning, NEW rest, Continue(rest),
         UNCHANGED <<cursor, start, upTo>>
  PROVE  CursorBehind'
  BY DEF Typed, TypeOK, CursorBehind, Continue, Scanning, Running, NoRow

\* Every step keeps the cursor behind the chain, and moves it forward only.
LEMMA NextBehind ==
  ASSUME Typed, CursorBehind, [Next]_vars
  PROVE  CursorBehind' /\ cursor' >= cursor
<1> USE DEF Scanning, Running, NoRow
<1>1. /\ cursor \in Int /\ start \in Int /\ last \in Nat /\ upTo \in Nat
  BY DEF Typed, TypeOK
<1>2. ASSUME UNCHANGED <<cursor, start, pc, last, upTo, batch>>
      PROVE  CursorBehind' /\ cursor' >= cursor
  BY <1>1, <1>2 DEF CursorBehind
<1>3. CASE Start \/ CountAtStart \/ LoadCursor \/ InsertCursor \/ Poll \/ SaveCursor
  <2>1. CASE Start \/ CountAtStart
    BY <1>1, <2>1 DEF Start, CountAtStart, tableVars, memoryVars, CursorBehind
  <2>2. CASE LoadCursor
    BY <1>1, <2>2 DEF LoadCursor, tableVars, CursorBehind
  <2>3. CASE InsertCursor
    BY <1>1, <2>3 DEF InsertCursor, memoryVars, CursorBehind
  <2>4. CASE Poll
    <3>1. head - Confirmations \in Int
      BY ChainAssumption, RelayAssumption DEF Typed, TypeOK, ChainTypeOK
    <3> QED
      BY <1>1, <2>4, <3>1 DEF Poll, tableVars, CursorBehind
  <2>5. CASE SaveCursor
    BY <1>1, <2>5 DEF SaveCursor, memoryVars, CursorBehind
  <2> QED
    BY <1>3, <2>1, <2>2, <2>3, <2>4, <2>5
<1>4. CASE Fetch
  BY <1>1, <1>4, ContinueBehind DEF Fetch, tableVars
<1>5. CASE BridgeTally \/ BridgeUnconfirmed
  <2>1. ASSUME NEW log \in batch, pc = "bridge", Confirmed(log)
        PROVE  CursorBehind' /\ cursor' >= cursor
    BY <1>1, <2>1, ContinueBehind DEF Confirmed, tableVars
  <2>2. ASSUME pc = "bridge", AttemptFailed
        PROVE  CursorBehind' /\ cursor' >= cursor
    BY <1>1, <2>2 DEF AttemptFailed, tableVars, CursorBehind
  <2> QED
    BY <1>5, <2>1, <2>2 DEF BridgeTally, BridgeUnconfirmed, Rejected, Unconfirmed
<1>6. CASE Park
  BY <1>1, <1>6 DEF Park, memoryVars, CursorBehind
<1>7. CASE Recount
  BY <1>1, <1>7, ContinueBehind DEF Recount, tableVars
<1>8. CASE CallFails \/ Crash
  BY <1>1, <1>8 DEF CallFails, Crash, WriteLost, CursorBehind
<1>9. CASE Environment
  BY <1>2, <1>9
  DEF Environment, Chain, OtherWallets, CreateTables, Settle, Expire, tableVars, memoryVars
<1>10. CASE UNCHANGED vars
  BY <1>2, <1>10 DEF vars, tableVars, memoryVars
<1> QED
  BY <1>3, <1>4, <1>5, <1>6, <1>7, <1>8, <1>9, <1>10 DEF Next, Daemon, Faults

\* A daemon that starts is behind the chain.
LEMMA InitBehind == Init => CursorBehind
  BY DEF Init, CursorBehind, Scanning, Running, NoRow

\* The cursor in the table never goes back, whatever the head does and wherever a
\* process ends: what is written is what was loaded or the end of a range beyond it.
THEOREM CursorNeverBack == Spec => CursorAdvances
<1>1. Init => Typed /\ CursorBehind
  BY InitTyped, InitBehind
<1>2. Typed /\ CursorBehind /\ [Next]_vars => (Typed /\ CursorBehind)'
  BY NextTyped, NextBehind
<1>3. Typed /\ CursorBehind /\ [Next]_vars => [cursor' >= cursor]_cursor
  BY NextBehind
<1> QED
  BY <1>1, <1>2, <1>3, PTL DEF Spec, CursorAdvances

(***************************************************************************)
(* What holds of reorganisations no deeper than the confirmations          *)
(***************************************************************************)

\* A height no reorganisation reaches any more.
Deep(n) == n <= top - Confirmations

\* The canonical blocks: what is deep is there, and a place in a block has one log.
CanonicalBlocks ==
  /\ head >= top - Confirmations
  /\ \A l \in logs : l.height <= head
  /\ \A l, m \in logs : l.height = m.height => l.fork = m.fork
  /\ \A l, m \in logs : l.height = m.height /\ l.index = m.index => l = m

\* The account of block h may carry v for good.
Canonical(h, v) == \E l \in logs : BlockHash(l) = h /\ l.pair = v /\ Deep(l.height)

\* No other wallet signs for the account of a block.
OwnAccounts ==
  \A h \in BlockHashes : mirror[h].authority = Relayer \/ mirror[h] = Absent

\* What was written, and what transactions on their way may write.
WrittenCanonical ==
  /\ \A h \in BlockHashes : mirror[h].finalised =>
       mirror[h].authority = Relayer /\ Canonical(h, mirror[h].votes)
  /\ \A t \in inflight : Canonical(t.pda, t.value)

\* The batch is what GetLogs would return again.
BatchCanonical ==
  /\ pc \in Scanning => Deep(upTo)
  /\ \A l \in batch : l \in logs /\ last < l.height /\ l.height <= upTo

\* Beyond the block it started at, the relay passes deep blocks only.
PassedDeep ==
  /\ cursor # NoRow => cursor = start \/ Deep(cursor)
  /\ pc \in Running => last = start \/ Deep(last)

\* Before the first start nothing was written.
Untouched ==
  start = NoRow =>
    inflight = {} /\ dlq = {} /\ \A h \in BlockHashes : ~ mirror[h].finalised

\* A log of the range is in the rest of the batch or settled, and the one that is
\* dropped from the batch after parking is in the table.
RangeAccounted ==
  /\ pc \in {"bridge", "park", "recount"} =>
       \A l \in logs : last < l.height /\ l.height <= upTo => l \in batch \/ Settled(l)
  /\ pc = "recount" => \A l \in batch : Current(l) => l \in dlq

Safe == /\ CanonicalBlocks /\ OwnAccounts /\ WrittenCanonical /\ BatchCanonical
        /\ PassedDeep /\ Untouched /\ RangeAccounted /\ NoTallySkipped

\* The inductive invariant, for SafeDepth.
IInv == Typed /\ CursorBehind /\ Safe

\* Arithmetic needs the types of the numbers.
LEMMA Numbers ==
  ASSUME Typed
  PROVE  /\ head \in Nat /\ top \in Nat /\ head <= top /\ Confirmations \in Nat
         /\ last \in Nat /\ upTo \in Nat /\ cursor \in Int /\ start \in Int
         /\ logs \subseteq Log /\ batch \subseteq Log
         /\ \A l \in Log : l.height \in Nat
  BY ChainAssumption, RelayAssumption DEF Typed, TypeOK, ChainTypeOK, NoRow, Log

\* New logs are above the head, and what is deep survives a reorganisation.
LEMMA DeepStays ==
  ASSUME SafeDepth, IInv, Chain
  PROVE  /\ CanonicalBlocks'
         /\ \A n \in Int : Deep(n) => Deep(n)'
         /\ \A l \in logs : Deep(l.height) => l \in logs'
         /\ \A l \in logs' : l \in Log /\ (l \in logs \/ l.height > head)
<1> USE Numbers DEF IInv, Safe, Deep
<1>0. head' \in Nat /\ top' \in Nat /\ MaxReorg \in Nat /\ logs' \subseteq Log
  BY ChainKeepsTypes, ChainAssumption DEF Typed, TypeOK, ChainTypeOK
<1>1. CASE MineBlock
  <2>1. PICK B \in NextBlocks : logs' = logs \union B
    BY <1>1 DEF MineBlock
  <2>2. \A l \in B : l.height = head + 1 /\ l.fork = forks
    BY DEF NextBlocks
  <2>3. \A l, m \in B : l.index = m.index => l = m
    BY DEF NextBlocks
  <2>4. head' = head + 1 /\ top' >= top /\ head' >= top' - Confirmations
    BY <1>1 DEF MineBlock, CanonicalBlocks
  <2>5. \A l \in logs : l.height <= head
    BY DEF CanonicalBlocks
  <2>6. CanonicalBlocks'
    BY <1>0, <2>1, <2>2, <2>3, <2>4, <2>5 DEF CanonicalBlocks
  <2> QED
    BY <1>0, <2>1, <2>2, <2>4, <2>6
<1>2. ASSUME NEW n \in 0 .. MaxHead, Reorganise(n)
      PROVE  /\ CanonicalBlocks'
             /\ \A i \in Int : Deep(i) => Deep(i)'
             /\ \A l \in logs : Deep(l.height) => l \in logs'
             /\ \A l \in logs' : l \in Log /\ (l \in logs \/ l.height > head)
  <2>1. n \in Nat /\ n >= top - Confirmations /\ head' = n /\ top' = top
    BY <1>0, <1>2 DEF Reorganise, SafeDepth
  <2>2. logs' = {l \in logs : l.height <= n}
    BY <1>2 DEF Reorganise
  <2>3. CanonicalBlocks'
    BY <2>1, <2>2 DEF CanonicalBlocks
  <2> QED
    BY <2>1, <2>2, <2>3
<1> QED
  BY <1>1, <1>2 DEF Chain, ChainNext

\* Blocks and reorganisations keep the invariant: SafeDepth puts them above the cursor.
LEMMA ChainSafe ==
  ASSUME SafeDepth, IInv, Chain
  PROVE  Safe'
<1> USE Numbers
<1>1. UNCHANGED <<mirror, inflight, cursor, dlq, start, pc, last, upTo, batch>>
  BY DEF Chain, solanaVars, tableVars, memoryVars
<1>2. /\ CanonicalBlocks'
      /\ \A n \in Int : Deep(n) => Deep(n)'
      /\ \A l \in logs : Deep(l.height) => l \in logs'
      /\ \A l \in logs' : l \in Log /\ (l \in logs \/ l.height > head)
  BY DeepStays
<1>3. /\ Typed /\ CursorBehind /\ CanonicalBlocks /\ OwnAccounts /\ WrittenCanonical /\ BatchCanonical
      /\ PassedDeep /\ Untouched /\ RangeAccounted /\ NoTallySkipped
  BY DEF IInv, Safe
<1>4. ASSUME NEW h, NEW v, Canonical(h, v)
      PROVE  Canonical(h, v)'
  BY <1>2, <1>4, <1>3 DEF Canonical
<1>5. OwnAccounts' /\ Untouched'
  BY <1>1, <1>3 DEF OwnAccounts, Untouched
<1>6. WrittenCanonical'
  BY <1>1, <1>3, <1>4 DEF WrittenCanonical
<1>7. PassedDeep'
  BY <1>1, <1>2, <1>3 DEF PassedDeep
<1>8. BatchCanonical'
  <2>1. pc \in Scanning => Deep(upTo)'
    BY <1>1, <1>2, <1>3 DEF BatchCanonical
  <2>2. ASSUME NEW l \in batch
        PROVE  l \in logs' /\ last < l.height /\ l.height <= upTo
    <3>1. pc \in Scanning
      BY <1>3 DEF CursorBehind, Scanning
    <3>2. l \in logs /\ last < l.height /\ l.height <= upTo /\ Deep(upTo)
      BY <1>3, <3>1 DEF BatchCanonical
    <3>3. Deep(l.height)
      BY <1>3, <3>2 DEF Deep
    <3> QED
      BY <1>2, <3>2, <3>3
  <2> QED
    BY <1>1, <2>1, <2>2 DEF BatchCanonical
\* A log that is new is above everything that was passed or is scanned.
<1>9. ASSUME NEW l \in logs', l \notin logs
      PROVE  \A n \in Int : Deep(n) => n < l.height
  BY <1>2, <1>3, <1>9 DEF CanonicalBlocks, Deep
<1>10. RangeAccounted'
  <2>1. ASSUME pc \in {"bridge", "park", "recount"},
               NEW l \in logs', last < l.height, l.height <= upTo
        PROVE  l \in batch \/ Settled(l)
    <3>1. Deep(upTo)
      BY <1>3, <2>1 DEF BatchCanonical, Scanning
    <3>2. l \in logs
      BY <1>2, <1>3, <1>9, <2>1, <3>1
    <3> QED
      BY <1>3, <2>1, <3>2 DEF RangeAccounted
  <2>2. \A l : Settled(l)' <=> Settled(l)
    BY <1>1 DEF Settled, Mirrored
  <2>3. \A l : Current(l)' <=> Current(l)
    BY <1>1 DEF Current
  <2> QED
    BY <1>1, <1>3, <2>1, <2>2, <2>3 DEF RangeAccounted
<1>11. NoTallySkipped'
  <2>1. ASSUME NEW l \in logs', l.height > start, start # NoRow,
               l.height <= cursor \/ (pc \in Running /\ l.height <= last)
        PROVE  Settled(l)
    <3>1. l \in logs
      <4>1. l.height \in Int
        BY <1>2, <1>3
      <4>2. CASE l.height <= cursor
        BY <1>3, <1>9, <2>1, <4>1, <4>2 DEF PassedDeep, CursorBehind
      <4>3. CASE pc \in Running /\ l.height <= last
        BY <1>3, <1>9, <2>1, <4>1, <4>3 DEF PassedDeep
      <4> QED
        BY <2>1, <4>2, <4>3
    <3> QED
      BY <1>3, <2>1, <3>1 DEF NoTallySkipped
  <2>2. \A l : Settled(l)' <=> Settled(l)
    BY <1>1 DEF Settled, Mirrored
  <2> QED
    BY <1>1, <2>1, <2>2 DEF NoTallySkipped
<1> QED
  BY <1>2, <1>5, <1>6, <1>7, <1>8, <1>10, <1>11 DEF Safe

\* The relay's own write: it needs an account nobody wrote, and nothing else changes.
LEMMA WriteSafe ==
  ASSUME IInv, NEW h \in BlockHashes, NEW v \in Values, Canonical(h, v),
         SetTally(Relayer, h, v), UNCHANGED <<logs, top>>
  PROVE  /\ OwnAccounts'
         /\ \A g \in BlockHashes : (mirror[g].finalised =>
              mirror[g].authority = Relayer /\ Canonical(g, mirror[g].votes))'
         /\ \A l : BlockHash(l) \in BlockHashes /\ Mirrored(l) => Mirrored(l)'
         /\ \A l : BlockHash(l) = h /\ l.pair = v => Mirrored(l)'
         /\ \A g \in BlockHashes : g # h => mirror'[g] = mirror[g]
<1> USE DEF IInv, Safe
<1>1. /\ mirror \in [Addresses -> Account] /\ BlockHashes \subseteq Addresses
      /\ mirror' = [mirror EXCEPT ![h].votes = v, ![h].finalised = TRUE]
      /\ mirror[h].authority = Relayer /\ ~ mirror[h].finalised
  BY DEF Typed, TypeOK, MirrorTypeOK, SetTally, CanSetTally, Addresses
<1>2. /\ mirror'[h] = [authority |-> Relayer, votes |-> v, finalised |-> TRUE]
      /\ \A g \in BlockHashes : g # h => mirror'[g] = mirror[g]
  BY <1>1 DEF Account
<1>3. \A g, w : Canonical(g, w) => Canonical(g, w)'
  BY DEF Canonical, Deep
<1> HIDE DEF IInv
<1>4. OwnAccounts /\ WrittenCanonical
  BY DEF IInv
<1>5. OwnAccounts'
  BY <1>2, <1>4 DEF OwnAccounts
<1>6. ASSUME NEW g \in BlockHashes, mirror'[g].finalised
      PROVE  (mirror[g].authority = Relayer /\ Canonical(g, mirror[g].votes))'
  <2>1. CASE g = h
    BY <1>2, <1>3, <2>1
  <2>2. CASE g # h
    <3>1. mirror'[g] = mirror[g]
      BY <1>2, <2>2
    <3>2. mirror[g].authority = Relayer /\ Canonical(g, mirror[g].votes)
      BY <1>4, <1>6, <3>1 DEF WrittenCanonical
    <3> QED
      BY <1>3, <3>1, <3>2
  <2> QED
    BY <2>1, <2>2
<1>7. ASSUME NEW l, BlockHash(l) \in BlockHashes, Mirrored(l)
      PROVE  Mirrored(l)'
  <2>1. BlockHash(l) # h
    BY <1>1, <1>7 DEF Mirrored
  <2> QED
    BY <1>2, <1>7, <2>1 DEF Mirrored
<1>8. \A l : BlockHash(l) = h /\ l.pair = v => Mirrored(l)'
  BY <1>2 DEF Mirrored
<1> QED
  BY <1>2, <1>5, <1>6, <1>7, <1>8

\* Another wallet's instruction does not reach the accounts of blocks.
LEMMA OthersSafe ==
  ASSUME IInv, MirrorUse
  PROVE  \A h \in BlockHashes : mirror'[h] = mirror[h]
<1> USE RelayAssumption
<1>1. mirror \in [Addresses -> Account] /\ OwnAccounts
  BY DEF IInv, Safe, Typed, TypeOK, MirrorTypeOK
<1>2. ASSUME NEW s \in Signers, NEW a \in Keys, Initialise(s, a), NEW h \in BlockHashes
      PROVE  mirror'[h] = mirror[h]
  <2>1. a # h
    BY <1>2
  <2> QED
    BY <1>1, <1>2, <2>1 DEF Initialise, Addresses
<1>3. ASSUME NEW s \in Others, NEW a \in Addresses, NEW v \in Values, SetTally(s, a, v),
             NEW h \in BlockHashes
      PROVE  mirror'[h] = mirror[h]
  <2>1. mirror[a] # Absent /\ mirror[a].authority # Relayer
    BY <1>3 DEF SetTally, CanSetTally, Others
  <2>2. a # h
    BY <1>1, <2>1 DEF OwnAccounts
  <2> QED
    BY <1>1, <1>3, <2>2 DEF SetTally, Addresses
<1> QED
  BY <1>2, <1>3 DEF MirrorUse

\* Settled stays settled.
LEMMA SettledStays ==
  ASSUME IInv, dlq \subseteq dlq',
         \A l : BlockHash(l) \in BlockHashes /\ Mirrored(l) => Mirrored(l)'
  PROVE  \A l \in logs : Settled(l) => Settled(l)'
  BY HashType DEF IInv, Typed, TypeOK, ChainTypeOK, Settled

\* Going on with the rest of a batch: what was dropped from it is settled.
LEMMA ContinueSafe ==
  ASSUME SafeDepth, IInv, pc \in Scanning, NEW rest \in SUBSET batch \union GetLogs(last + 1, upTo), Continue(rest),
         UNCHANGED <<chainVars, cursor, start, upTo>>,
         \A l \in logs : Settled(l) => Settled(l)',
         \A l \in logs : last < l.height /\ l.height <= upTo => l \in rest \/ Settled(l)'
  PROVE  BatchCanonical' /\ PassedDeep' /\ RangeAccounted' /\ NoTallySkipped'
<1>1. /\ Typed /\ CursorBehind /\ BatchCanonical /\ PassedDeep /\ RangeAccounted /\ NoTallySkipped
      /\ head \in Nat /\ top \in Nat /\ Confirmations \in Nat
      /\ last \in Nat /\ upTo \in Nat /\ cursor \in Int /\ start \in Int
      /\ logs \subseteq Log /\ \A l \in Log : l.height \in Nat
  BY Numbers DEF IInv, Safe
<1>2. Deep(upTo) /\ pc \in Running /\ start # NoRow /\ last < upTo
  BY <1>1 DEF BatchCanonical, CursorBehind, Scanning, Running
<1>3. \A l \in rest : l \in logs /\ last < l.height /\ l.height <= upTo
  BY <1>1 DEF BatchCanonical, GetLogs
<1>4. UNCHANGED <<logs, top, cursor, start, upTo>> /\ batch' = rest
  BY DEF chainVars, Continue
<1>5. Deep(upTo)'
  BY <1>2, <1>4 DEF Deep
<1>6. CASE rest = {}
  <2>1. pc' = "save" /\ last' = upTo
    BY <1>6 DEF Continue
  <2>2. BatchCanonical'
    BY <1>4, <1>6, <2>1 DEF BatchCanonical, Scanning
  <2>3. PassedDeep'
    BY <1>1, <1>2, <1>4, <2>1 DEF PassedDeep, Deep
  <2>4. RangeAccounted'
    BY <2>1 DEF RangeAccounted
  <2>5. ASSUME NEW l \in logs, l.height > start,
               l.height <= cursor \/ l.height <= upTo
        PROVE  Settled(l)'
    <3>1. CASE l.height <= cursor \/ l.height <= last
      BY <1>1, <1>2, <2>5, <3>1 DEF NoTallySkipped
    <3>2. CASE ~ (l.height <= last)
      BY <1>1, <1>6, <2>5, <3>1, <3>2
    <3> QED
      BY <3>1, <3>2
  <2>6. NoTallySkipped'
    BY <1>4, <2>1, <2>5 DEF NoTallySkipped
  <2> QED
    BY <2>2, <2>3, <2>4, <2>6
<1>7. CASE rest # {}
  <2>1. pc' = "bridge" /\ last' = last
    BY <1>7 DEF Continue
  <2>2. BatchCanonical'
    BY <1>3, <1>4, <1>5, <2>1 DEF BatchCanonical
  <2>3. PassedDeep'
    BY <1>1, <1>2, <1>4, <2>1 DEF PassedDeep, Deep
  <2>4. RangeAccounted'
    BY <1>4, <2>1 DEF RangeAccounted
  <2>5. NoTallySkipped'
    BY <1>1, <1>2, <1>4, <2>1 DEF NoTallySkipped
  <2> QED
    BY <2>2, <2>3, <2>4, <2>5
<1> QED
  BY <1>6, <1>7

\* A step that writes no account and no transaction and leaves the chain alone.
LEMMA QuietSafe ==
  ASSUME IInv, UNCHANGED <<chainVars, mirror, inflight>>, start' = NoRow => start = NoRow /\ dlq' = dlq
  PROVE  CanonicalBlocks' /\ OwnAccounts' /\ WrittenCanonical' /\ Untouched'
<1>1. \A h, v : Canonical(h, v) => Canonical(h, v)'
  BY DEF Canonical, Deep, chainVars
<1> QED
  BY <1>1 DEF IInv, Safe, CanonicalBlocks, OwnAccounts, WrittenCanonical, Untouched, chainVars

\* One log of a batch at a time: no two are at the same place.
LEMMA OneCurrent ==
  ASSUME IInv, NEW l \in batch, NEW m \in batch, Current(l), Current(m)
  PROVE  l = m
<1>1. l \in logs /\ m \in logs /\ l \in Log /\ m \in Log
  BY Numbers DEF IInv, Safe, BatchCanonical
<1>2. l.height \in Nat /\ m.height \in Nat /\ l.index \in Nat /\ m.index \in Nat
  BY <1>1, ChainAssumption DEF Log
<1>3. l.height = m.height /\ l.index = m.index
  BY <1>2 DEF Current, Before
<1> QED
  BY <1>1, <1>3 DEF IInv, Safe, CanonicalBlocks

\* A log of a batch is deep and its tally belongs to its block.
LEMMA BatchIsCanonical ==
  ASSUME IInv, pc \in Scanning, NEW l \in batch
  PROVE  /\ l \in logs /\ l \in Log /\ start < l.height /\ Deep(l.height)
         /\ Canonical(BlockHash(l), l.pair) /\ BlockHash(l) \in BlockHashes
<1>1. /\ l \in logs /\ l \in Log /\ last < l.height /\ l.height <= upTo
      /\ Deep(upTo) /\ start <= last
  BY Numbers DEF IInv, Safe, BatchCanonical, CursorBehind, Scanning, Running
<1>2. start < l.height /\ Deep(l.height)
  BY <1>1, Numbers DEF IInv, Deep
<1> QED
  BY <1>1, <1>2, HashType DEF Canonical

\* After a write the other parts of the invariant have the same daemon to speak of.
LEMMA WriteKeepsRest ==
  ASSUME IInv, UNCHANGED <<chainVars, cursor, dlq, start, pc, last, upTo, batch>>,
         inflight' \subseteq inflight, start # NoRow,
         \A l : BlockHash(l) \in BlockHashes /\ Mirrored(l) => Mirrored(l)'
  PROVE  /\ CanonicalBlocks' /\ BatchCanonical' /\ PassedDeep' /\ Untouched' /\ RangeAccounted'
         /\ NoTallySkipped'
         /\ \A t \in inflight' : Canonical(t.pda, t.value)'
<1>1. \A l \in logs : Settled(l) => Settled(l)'
  BY SettledStays
<1>2. UNCHANGED <<head, top, logs>>
  BY DEF chainVars
<1>3. CanonicalBlocks' /\ BatchCanonical' /\ PassedDeep' /\ Untouched'
  BY <1>2 DEF IInv, Safe, CanonicalBlocks, BatchCanonical, PassedDeep, Untouched, Deep
<1>4. RangeAccounted'
  BY <1>1, <1>2 DEF IInv, Safe, RangeAccounted, Current
<1>5. NoTallySkipped'
  BY <1>1, <1>2 DEF IInv, Safe, NoTallySkipped
<1>6. \A t \in inflight' : Canonical(t.pda, t.value)'
  BY <1>2 DEF IInv, Safe, WrittenCanonical, Canonical, Deep
<1> QED
  BY <1>3, <1>4, <1>5, <1>6

\* The start of the process, the polls, and what does not concern the tallies.
LEMMA ControlSafe ==
  ASSUME SafeDepth, IInv,
         \/ Start \/ CountAtStart \/ LoadCursor \/ InsertCursor \/ Poll \/ SaveCursor
         \/ CreateTables \/ UNCHANGED vars
  PROVE  Safe'
<1> USE DEF chainVars, solanaVars, tableVars, memoryVars
<1>1. /\ head \in Nat /\ top \in Nat /\ head <= top /\ Confirmations \in Nat
      /\ last \in Nat /\ upTo \in Nat /\ cursor \in Int /\ start \in Int
      /\ logs \subseteq Log /\ \A l \in Log : l.height \in Nat
  BY Numbers DEF IInv
<1>2. /\ CursorBehind /\ CanonicalBlocks /\ BatchCanonical
      /\ PassedDeep /\ Untouched /\ RangeAccounted /\ NoTallySkipped
  BY DEF IInv, Safe
<1>3. UNCHANGED <<chainVars, mirror, inflight, dlq>>
  BY DEF Start, CountAtStart, LoadCursor, InsertCursor, Poll, SaveCursor, CreateTables, vars
<1>4. start' = NoRow => start = NoRow
  BY <1>1 DEF Start, CountAtStart, LoadCursor, InsertCursor, Poll, SaveCursor, CreateTables, vars, NoRow
<1>5. CanonicalBlocks' /\ OwnAccounts' /\ WrittenCanonical' /\ Untouched'
  BY <1>3, <1>4, QuietSafe
<1>6. \A l : Settled(l)' <=> Settled(l)
  BY <1>3 DEF Settled, Mirrored
<1>7. CASE Start \/ CountAtStart
  <2>1. /\ pc' \notin Running /\ pc' \notin Scanning
        /\ UNCHANGED <<cursor, start, last, upTo, batch>> /\ pc' \notin {"bridge", "park", "recount"}
    BY <1>7 DEF Start, CountAtStart, Running, Scanning
  <2>2. BatchCanonical' /\ PassedDeep' /\ RangeAccounted'
    BY <1>2, <1>3, <2>1 DEF BatchCanonical, PassedDeep, RangeAccounted, Deep
  <2>3. NoTallySkipped'
    BY <1>2, <1>3, <1>6, <2>1 DEF NoTallySkipped
  <2> QED
    BY <1>5, <2>2, <2>3 DEF Safe
<1>8. CASE LoadCursor
  <2>1. /\ pc' \notin Scanning /\ batch' = {} /\ UNCHANGED <<cursor, start>>
        /\ pc' \in Running => last' = cursor /\ cursor # NoRow
    BY <1>2, <1>8 DEF LoadCursor, Running, Scanning, CursorBehind
  <2>2. BatchCanonical' /\ PassedDeep' /\ RangeAccounted'
    BY <1>2, <1>3, <2>1 DEF BatchCanonical, PassedDeep, RangeAccounted, Deep, Scanning
  <2>3. NoTallySkipped'
    BY <1>2, <1>3, <1>6, <2>1 DEF NoTallySkipped
  <2> QED
    BY <1>5, <2>2, <2>3 DEF Safe
<1>9. CASE InsertCursor
  <2>1. /\ pc' = "poll" /\ cursor' = last /\ start' = last /\ last' = last /\ batch' = {}
    BY <1>2, <1>9 DEF InsertCursor, CursorBehind
  <2>2. BatchCanonical' /\ PassedDeep' /\ RangeAccounted'
    BY <2>1 DEF BatchCanonical, PassedDeep, RangeAccounted, Scanning
  <2>3. NoTallySkipped'
    BY <1>1, <1>3, <2>1 DEF NoTallySkipped
  <2> QED
    BY <1>5, <2>2, <2>3 DEF Safe
<1>10. CASE Poll
  <2>1. /\ pc = "poll" /\ pc' = "fetch" /\ upTo' = head - Confirmations
        /\ UNCHANGED <<cursor, start, last>> /\ batch' = {}
    BY <1>2, <1>10 DEF Poll, CursorBehind
  <2>2. BatchCanonical' /\ PassedDeep' /\ RangeAccounted'
    BY <1>1, <1>2, <1>3, <2>1 DEF BatchCanonical, PassedDeep, RangeAccounted, Running, Deep
  <2>3. NoTallySkipped'
    BY <1>2, <1>3, <1>6, <2>1 DEF NoTallySkipped, Running
  <2> QED
    BY <1>5, <2>2, <2>3 DEF Safe
<1>11. CASE SaveCursor
  <2>1. /\ pc = "save" /\ pc' = "poll" /\ cursor' = last
        /\ UNCHANGED <<start, last>> /\ batch' = {}
    BY <1>2, <1>11 DEF SaveCursor, CursorBehind
  <2>2. BatchCanonical' /\ PassedDeep' /\ RangeAccounted'
    BY <1>2, <1>3, <2>1 DEF BatchCanonical, PassedDeep, RangeAccounted, Running, Scanning, Deep
  <2>3. NoTallySkipped'
    BY <1>2, <1>3, <1>6, <2>1 DEF NoTallySkipped, Running
  <2> QED
    BY <1>5, <2>2, <2>3 DEF Safe
<1>12. CASE CreateTables \/ UNCHANGED vars
  <2>1. UNCHANGED <<cursor, start, pc, last, upTo, batch>>
    BY <1>12 DEF CreateTables, vars
  <2>2. BatchCanonical' /\ PassedDeep' /\ RangeAccounted' /\ NoTallySkipped'
    BY <1>2, <1>3, <1>6, <2>1
    DEF BatchCanonical, PassedDeep, RangeAccounted, NoTallySkipped, Deep, Current
  <2> QED
    BY <1>5, <2>2 DEF Safe
<1> QED
  BY <1>7, <1>8, <1>9, <1>10, <1>11, <1>12

\* A turn of the loop over the logs.
LEMMA LoopSafe ==
  ASSUME SafeDepth, IInv, Fetch \/ BridgeTally \/ Park \/ Recount
  PROVE  Safe'
<1> USE DEF solanaVars, tableVars
<1>1. /\ Typed /\ CursorBehind /\ CanonicalBlocks /\ BatchCanonical
      /\ PassedDeep /\ Untouched /\ RangeAccounted /\ NoTallySkipped
  BY DEF IInv, Safe
<1>2. pc \in Scanning => start # NoRow
  BY <1>1 DEF CursorBehind, Scanning, Running
<1>3. CASE Fetch
  <2> DEFINE rest == GetLogs(last + 1, upTo)
  <2>1. /\ pc = "fetch" /\ Continue(rest)
        /\ UNCHANGED <<chainVars, mirror, inflight, cursor, dlq, start, upTo>>
    BY <1>3 DEF Fetch
  <2>2. \A l \in logs : Settled(l) => Settled(l)'
    BY <2>1 DEF Settled, Mirrored
  <2>3. \A l \in logs : last < l.height /\ l.height <= upTo => l \in rest
    BY Numbers, <1>1 DEF GetLogs
  <2>4. rest \in SUBSET batch \union rest
    OBVIOUS
  <2>5. BatchCanonical' /\ PassedDeep' /\ RangeAccounted' /\ NoTallySkipped'
    BY <2>1, <2>2, <2>3, ContinueSafe DEF Scanning
  <2> QED
    BY <1>2, <2>1, <2>5, QuietSafe DEF Safe, Scanning
<1>4. ASSUME NEW log \in batch, pc = "bridge", Confirmed(log)
      PROVE  Safe'
  <2> DEFINE h == BlockHash(log)
  <2>1. /\ log \in logs /\ log \in Log /\ Canonical(h, log.pair) /\ h \in BlockHashes
    BY <1>4, BatchIsCanonical DEF Scanning
  <2>2. /\ log.pair \in Values /\ SetTally(Relayer, h, log.pair) /\ Continue(batch \ {log})
        /\ UNCHANGED <<chainVars, inflight, cursor, dlq, start, upTo>>
        /\ UNCHANGED <<head, top, forks, logs>>
    BY <1>4 DEF Confirmed, chainVars
  <2>3. /\ OwnAccounts'
        /\ \A g \in BlockHashes : (mirror[g].finalised =>
             mirror[g].authority = Relayer /\ Canonical(g, mirror[g].votes))'
        /\ \A l : BlockHash(l) \in BlockHashes /\ Mirrored(l) => Mirrored(l)'
        /\ Mirrored(log)'
    BY <2>1, <2>2, WriteSafe
  <2>4. \A l \in logs : Settled(l) => Settled(l)'
    BY <2>2, <2>3, SettledStays
  <2>5. Settled(log)'
    BY <2>3 DEF Settled
  <2>6. \A l \in logs : last < l.height /\ l.height <= upTo => l \in batch \ {log} \/ Settled(l)'
    BY <1>1, <1>4, <2>4, <2>5 DEF RangeAccounted
  <2>7. BatchCanonical' /\ PassedDeep' /\ RangeAccounted' /\ NoTallySkipped'
    BY <1>4, <2>2, <2>4, <2>6, ContinueSafe DEF Scanning
  <2>8. CanonicalBlocks' /\ Untouched'
    BY <1>1, <1>2, <1>4, <2>2 DEF CanonicalBlocks, Untouched, Scanning
  <2>9. WrittenCanonical'
    <3>1. \A t \in inflight : Canonical(t.pda, t.value)'
      BY <2>2 DEF IInv, Safe, WrittenCanonical, Canonical, Deep
    <3> QED
      BY <2>2, <2>3, <3>1 DEF WrittenCanonical
  <2> QED
    BY <2>3, <2>7, <2>8, <2>9 DEF Safe
<1>5. ASSUME pc = "bridge", NEW log \in batch, Rejected(log)
      PROVE  Safe'
  <2>1. /\ pc' \in {"park", "bridge"}
        /\ UNCHANGED <<chainVars, mirror, inflight, cursor, dlq, start, last, upTo, batch>>
    BY <1>5 DEF Rejected, AttemptFailed
  <2>2. \A l : Settled(l)' <=> Settled(l)
    BY <2>1 DEF Settled, Mirrored
  <2>3. BatchCanonical' /\ PassedDeep' /\ RangeAccounted' /\ NoTallySkipped'
    BY <1>1, <1>5, <2>1, <2>2
    DEF BatchCanonical, PassedDeep, RangeAccounted, NoTallySkipped, Deep, Scanning, Running, chainVars
  <2> QED
    BY <2>1, <2>3, QuietSafe DEF Safe
<1>6. CASE Park
  <2>1. PICK log \in batch : Current(log) /\ dlq' = dlq \union {log}
    BY <1>6 DEF Park
  <2>2. /\ pc = "park" /\ pc' = "recount"
        /\ UNCHANGED <<chainVars, mirror, inflight, cursor, start, last, upTo, batch>>
    BY <1>6 DEF Park, memoryVars
  <2>3. \A l \in logs : Settled(l) => Settled(l)'
    BY <2>1, <2>2 DEF Settled, Mirrored
  <2>4. \A l \in batch : Current(l) => l = log
    BY <2>1, OneCurrent
  <2>5. \A l : Current(l)' <=> Current(l)
    BY <2>2 DEF Current
  <2>6. RangeAccounted'
    BY <1>1, <2>1, <2>2, <2>3, <2>4, <2>5 DEF RangeAccounted, chainVars
  <2>7. BatchCanonical' /\ PassedDeep' /\ NoTallySkipped'
    BY <1>1, <2>2, <2>3
    DEF BatchCanonical, PassedDeep, NoTallySkipped, Deep, Scanning, Running, chainVars
  <2> QED
    BY <1>2, <2>2, <2>6, <2>7, QuietSafe DEF Safe, Scanning
<1>7. CASE Recount
  <2>1. PICK log \in batch : Current(log) /\ Continue(batch \ {log})
    BY <1>7 DEF Recount
  <2>2. /\ pc = "recount"
        /\ UNCHANGED <<chainVars, mirror, inflight, cursor, dlq, start, upTo>>
    BY <1>7 DEF Recount
  <2>3. \A l \in logs : Settled(l) => Settled(l)'
    BY <2>2 DEF Settled, Mirrored
  <2>4. Settled(log)'
    BY <1>1, <2>1, <2>2 DEF RangeAccounted, Settled
  <2>5. \A l \in logs : last < l.height /\ l.height <= upTo => l \in batch \ {log} \/ Settled(l)'
    BY <1>1, <2>2, <2>3, <2>4 DEF RangeAccounted
  <2>6. BatchCanonical' /\ PassedDeep' /\ RangeAccounted' /\ NoTallySkipped'
    BY <2>1, <2>2, <2>3, <2>5, ContinueSafe DEF Scanning
  <2> QED
    BY <1>2, <2>2, <2>6, QuietSafe DEF Safe, Scanning
<1> QED
  BY <1>3, <1>4, <1>5, <1>6, <1>7 DEF BridgeTally

\* A transaction sent for a log of the batch may land later.
LEMMA SentSafe ==
  ASSUME IInv, pc = "bridge", NEW log \in batch, Sent(log), UNCHANGED <<chainVars, mirror>>
  PROVE  WrittenCanonical'
<1>1. Canonical(BlockHash(log), log.pair) /\ WrittenCanonical
  BY BatchIsCanonical DEF IInv, Safe, Scanning
<1>2. \A h, v : Canonical(h, v) => Canonical(h, v)'
  BY DEF Canonical, Deep, chainVars
<1> QED
  BY <1>1, <1>2 DEF WrittenCanonical, Sent

\* A step that drops what the daemon was at, whether a write was committed or not.
LEMMA LostSafe ==
  ASSUME SafeDepth, IInv, WriteLost, UNCHANGED <<chainVars, mirror>>,
         WrittenCanonical', start' = NoRow => inflight' = {} /\ dlq' = {},
         pc' \in {"poll", "down"}, batch' = {},
         pc' = "poll" => last' = last /\ pc \in Running
  PROVE  Safe'
<1>1. /\ Typed /\ CursorBehind /\ CanonicalBlocks /\ OwnAccounts /\ BatchCanonical
      /\ PassedDeep /\ Untouched /\ RangeAccounted /\ NoTallySkipped
      /\ last \in Nat /\ cursor \in Int /\ start \in Int
      /\ logs \subseteq Log /\ \A l \in Log : l.height \in Nat
  BY Numbers DEF IInv, Safe
<1>2. UNCHANGED <<head, top, logs>>
  BY DEF chainVars
<1>3. CanonicalBlocks' /\ OwnAccounts'
  BY <1>1, <1>2 DEF CanonicalBlocks, OwnAccounts
<1>4. start' = NoRow => start = NoRow
  BY <1>1 DEF WriteLost, NoRow
<1>5. Untouched'
  BY <1>1, <1>4 DEF Untouched
<1>6. BatchCanonical' /\ RangeAccounted'
  BY DEF BatchCanonical, RangeAccounted, Scanning
\* insert and save write what is in memory.
<1>7. \/ cursor' = cursor /\ start' = start
      \/ cursor' = last /\ start' = last /\ pc = "insert"
      \/ cursor' = last /\ start' = start /\ pc = "save"
  BY DEF WriteLost
<1>8. PassedDeep'
  BY <1>1, <1>2, <1>7 DEF PassedDeep, Deep, CursorBehind, Running
<1>9. \A l \in logs : Settled(l) => Settled(l)'
  BY DEF WriteLost, Settled, Mirrored
<1>10. NoTallySkipped'
  <2>1. CASE pc = "insert" /\ cursor' = last /\ start' = last
    BY <1>1, <1>2, <2>1 DEF NoTallySkipped, Running
  <2>2. CASE start' = start /\ (cursor' = cursor \/ (cursor' = last /\ pc = "save"))
    BY <1>1, <1>2, <1>9, <2>2 DEF NoTallySkipped, Running
  <2> QED
    BY <1>7, <2>1, <2>2
<1> QED
  BY <1>3, <1>5, <1>6, <1>8, <1>10 DEF Safe

\* Failed calls, lost answers and crashes keep the invariant.
LEMMA FaultsSafe ==
  ASSUME SafeDepth, IInv, Faults
  PROVE  Safe'
<1>1. /\ CursorBehind /\ WrittenCanonical /\ Untouched /\ BatchCanonical
      /\ CanonicalBlocks /\ OwnAccounts /\ PassedDeep /\ RangeAccounted /\ NoTallySkipped
      /\ last \in Nat
  BY Numbers DEF IInv, Safe
<1>2. pc \in Running => start # NoRow
  BY <1>1 DEF CursorBehind
<1>3. CASE BridgeUnconfirmed
  <2>1. PICK log \in batch : Unconfirmed(log) /\ pc = "bridge"
    BY <1>3 DEF BridgeUnconfirmed
  <2>2. /\ pc' \in {"park", "bridge"} /\ (UNCHANGED inflight \/ Sent(log))
        /\ UNCHANGED <<chainVars, mirror, cursor, dlq, start, last, upTo, batch>>
        /\ UNCHANGED <<head, top, logs>>
    BY <2>1 DEF Unconfirmed, AttemptFailed, tableVars, chainVars
  <2>3. WrittenCanonical'
    BY <1>1, <2>1, <2>2, SentSafe DEF WrittenCanonical, Canonical, Deep
  <2>4. CanonicalBlocks' /\ OwnAccounts' /\ Untouched'
    BY <1>1, <1>2, <2>1, <2>2 DEF CanonicalBlocks, OwnAccounts, Untouched, Running
  <2>5. \A l : Settled(l)' <=> Settled(l)
    BY <2>2 DEF Settled, Mirrored
  <2>6. BatchCanonical' /\ PassedDeep' /\ RangeAccounted' /\ NoTallySkipped'
    BY <1>1, <2>1, <2>2, <2>5
    DEF BatchCanonical, PassedDeep, RangeAccounted, NoTallySkipped, Deep, Scanning, Running
  <2> QED
    BY <2>3, <2>4, <2>6 DEF Safe
<1>4. CASE CallFails
  <2>1. /\ pc \in Running /\ pc' = "poll" /\ batch' = {} /\ last' = last /\ WriteLost
        /\ UNCHANGED <<chainVars, mirror, inflight>>
    BY <1>4 DEF CallFails, Running, solanaVars
  <2>2. WrittenCanonical'
    BY <1>1, <2>1 DEF WrittenCanonical, Canonical, Deep, chainVars
  <2>3. start' # NoRow
    BY <1>1, <1>2, <2>1 DEF WriteLost, NoRow
  <2> QED
    BY <2>1, <2>2, <2>3, LostSafe
<1>5. CASE Crash
  <2>1. /\ pc' = "down" /\ batch' = {} /\ WriteLost /\ UNCHANGED <<chainVars, mirror>>
        /\ \/ UNCHANGED inflight
           \/ pc = "bridge" /\ \E log \in batch : Sent(log)
    BY <1>5 DEF Crash
  <2>2. WrittenCanonical'
    BY <1>1, <2>1, SentSafe DEF WrittenCanonical, Canonical, Deep, chainVars
  <2>3. start' = NoRow => inflight' = {} /\ dlq' = {}
    BY <1>1, <1>2, <2>1 DEF WriteLost, NoRow, Untouched, Running
  <2> QED
    BY <2>1, <2>2, <2>3, LostSafe
<1> QED
  BY <1>3, <1>4, <1>5 DEF Faults

\* So do blocks, other wallets, and transactions that settle or expire.
LEMMA EnvironmentSafe ==
  ASSUME SafeDepth, IInv, Environment
  PROVE  Safe'
<1>1. ASSUME NEW t \in inflight, Settle(t)
      PROVE  Safe'
  <2>1. /\ t.pda \in BlockHashes /\ t.value \in Values /\ Canonical(t.pda, t.value) /\ start # NoRow
    BY DEF IInv, Safe, Typed, TypeOK, Transaction, WrittenCanonical, Untouched
  <2>2. /\ UNCHANGED <<chainVars, cursor, dlq, start, pc, last, upTo, batch>>
        /\ UNCHANGED <<head, top, logs>>
        /\ inflight' \subseteq inflight
        /\ SetTally(Relayer, t.pda, t.value) \/ UNCHANGED mirror
    BY <1>1 DEF Settle, chainVars, tableVars, memoryVars
  <2>3. /\ OwnAccounts'
        /\ \A g \in BlockHashes : (mirror[g].finalised =>
             mirror[g].authority = Relayer /\ Canonical(g, mirror[g].votes))'
        /\ \A l : BlockHash(l) \in BlockHashes /\ Mirrored(l) => Mirrored(l)'
    <3>1. CASE SetTally(Relayer, t.pda, t.value)
      BY <2>1, <2>2, <3>1, WriteSafe
    <3>2. CASE UNCHANGED mirror
      BY <2>2, <3>2 DEF IInv, Safe, OwnAccounts, WrittenCanonical, Canonical, Deep, Mirrored
    <3> QED
      BY <2>2, <3>1, <3>2
  <2>4. /\ CanonicalBlocks' /\ BatchCanonical' /\ PassedDeep' /\ Untouched' /\ RangeAccounted'
        /\ NoTallySkipped'
        /\ \A u \in inflight' : Canonical(u.pda, u.value)'
    BY <2>1, <2>2, <2>3, WriteKeepsRest
  <2>5. WrittenCanonical'
    BY <2>3, <2>4 DEF WrittenCanonical
  <2> QED
    BY <2>3, <2>4, <2>5 DEF Safe
<1>2. ASSUME NEW t \in inflight, Expire(t)
      PROVE  Safe'
  <2>1. /\ UNCHANGED <<chainVars, mirror, cursor, dlq, start, pc, last, upTo, batch>>
        /\ UNCHANGED <<head, top, logs>> /\ inflight' \subseteq inflight /\ start # NoRow
    BY <1>2 DEF Expire, chainVars, tableVars, memoryVars, IInv, Safe, Untouched
  <2>2. /\ CanonicalBlocks' /\ BatchCanonical' /\ PassedDeep' /\ Untouched' /\ RangeAccounted'
        /\ NoTallySkipped'
        /\ \A u \in inflight' : Canonical(u.pda, u.value)'
    BY <2>1, WriteKeepsRest DEF Mirrored
  <2>3. OwnAccounts' /\ WrittenCanonical'
    BY <2>1, <2>2 DEF IInv, Safe, OwnAccounts, WrittenCanonical, Canonical, Deep
  <2> QED
    BY <2>2, <2>3 DEF Safe
<1>3. CASE OtherWallets
  <2>1. /\ UNCHANGED <<chainVars, inflight, cursor, dlq, start, pc, last, upTo, batch>>
        /\ UNCHANGED <<head, top, logs>> /\ MirrorUse
    BY <1>3 DEF OtherWallets, chainVars, tableVars, memoryVars
  <2>2. \A h \in BlockHashes : mirror'[h] = mirror[h]
    BY <2>1, OthersSafe
  <2>3. OwnAccounts' /\ WrittenCanonical' /\ Untouched'
    BY <2>1, <2>2 DEF IInv, Safe, OwnAccounts, WrittenCanonical, Untouched, Canonical, Deep
  <2>4. \A l \in Log : Settled(l)' <=> Settled(l)
    BY <2>1, <2>2, HashType DEF Settled, Mirrored
  <2>5. logs \subseteq Log
    BY Numbers DEF IInv
  <2>6. CanonicalBlocks' /\ BatchCanonical' /\ PassedDeep' /\ RangeAccounted' /\ NoTallySkipped'
    BY <2>1, <2>4, <2>5
    DEF IInv, Safe, CanonicalBlocks, BatchCanonical, PassedDeep, RangeAccounted, NoTallySkipped,
        Deep, Current
  <2> QED
    BY <2>3, <2>6 DEF Safe
<1> QED
  BY <1>1, <1>2, <1>3, ChainSafe, ControlSafe DEF Environment

\* A daemon that starts has skipped nothing.
LEMMA InitSafe == Init => Safe
<1> SUFFICES ASSUME Init PROVE Safe
  OBVIOUS
<1> USE RelayAssumption, ChainAssumption DEF Init, ChainInit, NoRow
<1>1. ASSUME NEW h \in BlockHashes
      PROVE  ~ mirror[h].finalised /\ (mirror[h].authority = Relayer \/ mirror[h] = Absent)
  BY DEF MirrorInit, Addresses, Fresh, Absent
<1>2. OwnAccounts /\ WrittenCanonical /\ Untouched
  BY <1>1 DEF OwnAccounts, WrittenCanonical, Untouched
<1>3. CanonicalBlocks
  BY DEF CanonicalBlocks
<1>4. BatchCanonical /\ PassedDeep /\ RangeAccounted /\ NoTallySkipped
  BY DEF BatchCanonical, PassedDeep, RangeAccounted, NoTallySkipped, Scanning, Running
<1> QED
  BY <1>2, <1>3, <1>4 DEF Safe

\* Every step keeps the invariant.
LEMMA NextSafe ==
  ASSUME SafeDepth, IInv, [Next]_vars
  PROVE  IInv'
<1>1. Typed' /\ CursorBehind'
  BY NextTyped, NextBehind DEF IInv
<1>2. Safe'
  BY ControlSafe, LoopSafe, FaultsSafe, EnvironmentSafe DEF Next, Daemon
<1> QED
  BY <1>1, <1>2 DEF IInv

\* The inductive invariant holds if no reorganisation reaches what is confirmed.
THEOREM Invariance ==
  ASSUME SafeDepth
  PROVE  Spec => []IInv
<1>1. Init => IInv
  BY InitTyped, InitBehind, InitSafe DEF IInv
<1>2. IInv /\ [Next]_vars => IInv'
  BY NextSafe
<1> QED
  BY <1>1, <1>2, PTL DEF Spec

\* The mirror shows canonical tallies only: transactions that land late, after a
\* retry, a crash or a reorganisation, write what the chain still says.
THEOREM MirrorCanonical == Spec => []MirrorIsCanonical
<1>1. CASE SafeDepth
  <2>1. IInv => MirrorIsCanonical
    <3> SUFFICES ASSUME IInv, NEW h \in BlockHashes, mirror[h].finalised
                 PROVE  \E l \in logs : BlockHash(l) = h /\ Mirrored(l)
      BY DEF MirrorIsCanonical
    <3>1. PICK l \in logs : BlockHash(l) = h /\ l.pair = mirror[h].votes
      BY DEF IInv, Safe, WrittenCanonical, Canonical
    <3>2. mirror[h] \in Account /\ mirror[h].authority = Relayer
      BY DEF IInv, Safe, WrittenCanonical, Typed, TypeOK, MirrorTypeOK, Addresses
    <3>3. Mirrored(l)
      BY <3>1, <3>2 DEF Mirrored, Account
    <3> QED
      BY <3>1, <3>3
  <2> QED
    BY <1>1, <2>1, Invariance, PTL
<1>2. CASE ~ SafeDepth
  <2>1. MirrorIsCanonical
    BY <1>2 DEF MirrorIsCanonical
  <2> QED
    BY <2>1, PTL
<1> QED
  BY <1>1, <1>2

\* No tally is skipped: neither a failing call nor a crash, in whichever step, puts the
\* cursor beyond a log that is neither mirrored nor parked.
THEOREM NothingSkipped == Spec => []NoTallySkipped
<1>1. CASE SafeDepth
  <2>1. IInv => NoTallySkipped
    BY DEF IInv, Safe
  <2> QED
    BY <1>1, <2>1, Invariance, PTL
<1>2. CASE ~ SafeDepth
  <2>1. NoTallySkipped
    BY <1>2 DEF NoTallySkipped
  <2> QED
    BY <2>1, PTL
<1> QED
  BY <1>1, <1>2

(***************************************************************************)
(* The refinement of TallyBridge                                           *)
(***************************************************************************)

\* What the relay answers for is deep, and at first it answers for nothing.
LEMMA AnsweredDeep ==
  ASSUME IInv
  PROVE  /\ \A l \in Answered : l \in logs /\ l \in Log /\ Deep(l.height)
         /\ start = NoRow => Answered = {}
  BY Numbers DEF IInv, Answered, Deep

\* What has been answered is a matter of the chain and where the daemon started.
LEMMA SameAnswers ==
  ASSUME UNCHANGED <<logs, top, start>>
  PROVE  Answered' = Answered
  BY DEF Answered

\* Nothing the abstract specification sees has changed.
LEMMA StutterStep ==
  ASSUME UNCHANGED <<logs, top, start, cursor, dlq>>, \A l \in logs : Mirrored(l)' <=> Mirrored(l)
  PROVE  UNCHANGED Bridge!vars
<1>1. Answered' = Answered /\ Answered \subseteq logs
  BY SameAnswers DEF Answered
<1>2. {l \in Answered : Mirrored(l)}' = {l \in Answered : Mirrored(l)}
  BY <1>1
<1>3. {l \in Answered : l.height <= cursor}' = {l \in Answered : l.height <= cursor}
  BY <1>1
<1> QED
  BY <1>1, <1>2, <1>3 DEF Bridge!vars

\* A transaction lands.
LEMMA MirrorStep ==
  ASSUME UNCHANGED <<logs, top, start, cursor, dlq>>, \A l \in logs : Mirrored(l) => Mirrored(l)'
  PROVE  Bridge!Mirror
<1>1. Answered' = Answered /\ Answered \subseteq logs
  BY SameAnswers DEF Answered
<1>2. /\ {l \in Answered : Mirrored(l)} \subseteq {l \in Answered : Mirrored(l)}'
      /\ {l \in Answered : Mirrored(l)}' \subseteq Answered
  BY <1>1
<1>3. {l \in Answered : l.height <= cursor}' = {l \in Answered : l.height <= cursor}
  BY <1>1
<1> QED
  BY <1>1, <1>2, <1>3 DEF Bridge!Mirror

\* A log of the batch goes into the table.
LEMMA ParkStep ==
  ASSUME IInv, pc \in Scanning, NEW log \in batch, dlq' = dlq \union {log},
         UNCHANGED <<logs, top, start, cursor, mirror>>
  PROVE  Bridge!Next
<1>1. log \in Answered /\ log \in Log
  <2>1. /\ log \in logs /\ log \in Log /\ start < log.height /\ Deep(log.height)
    BY BatchIsCanonical
  <2>2. start # NoRow
    BY DEF IInv, CursorBehind, Scanning, Running
  <2> QED
    BY <2>1, <2>2 DEF Answered, Deep
<1>2. Answered' = Answered
  BY SameAnswers
<1>3. {l \in Answered : Mirrored(l)}' = {l \in Answered : Mirrored(l)}
  BY <1>2 DEF Mirrored
<1>4. {l \in Answered : l.height <= cursor}' = {l \in Answered : l.height <= cursor}
  BY <1>2
<1>5. Bridge!Park(log)
  BY <1>1, <1>2, <1>3, <1>4 DEF Bridge!Park
<1> QED
  BY <1>1, <1>5 DEF Bridge!Next

\* The cursor moves to `last', and everything up to it is settled.
LEMMA PassStep ==
  ASSUME SafeDepth, IInv, pc = "save", cursor' = last, UNCHANGED <<logs, top, start, mirror, dlq>>
  PROVE  Bridge!Pass
<1>1. /\ last \in Nat /\ cursor \in Int /\ cursor <= last
      /\ \A l \in logs : l.height \in Nat
      /\ NoTallySkipped /\ start # NoRow
  BY Numbers DEF IInv, Safe, CursorBehind, Running
<1>2. Answered' = Answered /\ Answered \subseteq logs
  BY SameAnswers DEF Answered
<1>3. {l \in Answered : Mirrored(l)}' = {l \in Answered : Mirrored(l)}
  BY <1>2 DEF Mirrored
<1>4. ASSUME NEW l \in Answered, l.height <= last
      PROVE  Mirrored(l) \/ l \in dlq
  <2>1. l \in logs /\ l.height > start
    BY <1>4, Numbers DEF Answered, IInv
  <2> QED
    BY <1>1, <1>4, <2>1 DEF NoTallySkipped, Running, Settled
<1>5. {l \in Answered : l.height <= cursor}' = {l \in Answered : l.height <= last}
  BY <1>2
<1>6. {l \in Answered : l.height <= cursor} \subseteq {l \in Answered : l.height <= last}
  BY <1>1, <1>2
<1>7. {l \in Answered : l.height <= last} \subseteq {l \in Answered : Mirrored(l)} \union dlq
  BY <1>4
<1>8. {l \in Answered : l.height <= cursor}' \subseteq {l \in Answered : Mirrored(l)} \union dlq
  BY <1>5, <1>7
<1>9. {l \in Answered : l.height <= cursor} \subseteq {l \in Answered : l.height <= cursor}'
  BY <1>5, <1>6
<1> QED
  BY <1>2, <1>3, <1>8, <1>9 DEF Bridge!Pass

\* The first row of the cursor: the relay now answers for the deep logs above it,
\* none of which is mirrored yet.
LEMMA StartStep ==
  ASSUME IInv, pc = "insert", cursor' = last, start' = last,
         UNCHANGED <<logs, top, mirror, dlq>>
  PROVE  Bridge!Finalise
<1>1. /\ start = NoRow /\ last \in Nat
      /\ logs \subseteq Log /\ \A l \in Log : l.height \in Nat
      /\ \A h \in BlockHashes : ~ mirror[h].finalised
  BY Numbers DEF IInv, Safe, CursorBehind, Untouched
<1>2. Answered = {} /\ Answered' \subseteq Log
  BY <1>1 DEF Answered
<1>3. ASSUME NEW l \in Log
      PROVE  ~ Mirrored(l)'
  BY <1>1, HashType DEF Mirrored
<1>4. {l \in Answered : Mirrored(l)} = {} /\ {l \in Answered : Mirrored(l)}' = {}
  BY <1>2, <1>3
<1>5. ASSUME NEW l \in Answered'
      PROVE  ~ (l.height <= cursor')
  <2>1. l.height \in Nat /\ last < l.height
    BY <1>1, <1>2 DEF Answered
  <2> QED
    BY <1>1, <2>1
<1>6. /\ {l \in Answered : l.height <= cursor} = {}
      /\ {l \in Answered : l.height <= cursor}' = {}
  BY <1>2, <1>5
<1> QED
  BY <1>2, <1>4, <1>6 DEF Bridge!Finalise

\* A block is mined or dropped: logs become deep, and none of them was mirrored or
\* passed before it was.
LEMMA ChainStep ==
  ASSUME SafeDepth, IInv, Chain
  PROVE  Bridge!Finalise
<1>1. /\ head \in Nat /\ top \in Nat /\ head <= top /\ Confirmations \in Nat
      /\ cursor \in Int /\ start \in Int /\ logs \subseteq Log
      /\ \A l \in Log : l.height \in Nat
      /\ CanonicalBlocks /\ WrittenCanonical /\ PassedDeep /\ CursorBehind
  BY Numbers DEF IInv, Safe
<1>2. /\ CanonicalBlocks'
      /\ \A n \in Int : Deep(n) => Deep(n)'
      /\ \A l \in logs : Deep(l.height) => l \in logs'
      /\ \A l \in logs' : l \in Log /\ (l \in logs \/ l.height > head)
  BY DeepStays
<1>3. UNCHANGED <<mirror, cursor, dlq, start>>
  BY DEF Chain, solanaVars, tableVars
<1>4. Answered \subseteq Answered' /\ Answered' \subseteq Log
  <2>1. Answered' \subseteq logs' /\ logs' \subseteq Log
    BY <1>2 DEF Answered
  <2>2. ASSUME NEW l \in Answered
        PROVE  l \in Answered'
    <3>1. l \in logs /\ Deep(l.height) /\ l.height \in Int /\ start < l.height /\ start # NoRow
      BY <1>1 DEF Answered, Deep
    <3>2. l \in logs' /\ Deep(l.height)'
      BY <1>2, <3>1
    <3> QED
      BY <1>3, <3>1, <3>2 DEF Answered, Deep
  <2> QED
    BY <2>1, <2>2
\* A log below a deep height was there before the step, and it was answered for.
<1>5. ASSUME NEW l \in Answered', Deep(l.height)
      PROVE  l \in Answered
  <2>1. l \in logs' /\ start < l.height /\ start # NoRow /\ l.height \in Nat
    BY <1>1, <1>2, <1>3 DEF Answered
  <2>2. ~ (l.height > head)
    BY <1>1, <1>5, <2>1 DEF CanonicalBlocks, Deep
  <2>3. l \in logs
    BY <1>2, <2>1, <2>2
  <2> QED
    BY <1>5, <2>1, <2>3 DEF Answered, Deep
<1>6. ASSUME NEW l \in Log, Mirrored(l)
      PROVE  Deep(l.height)
  <2>1. BlockHash(l) \in BlockHashes /\ mirror[BlockHash(l)].finalised
    BY <1>6, HashType DEF Mirrored
  <2>2. PICK m \in logs : BlockHash(m) = BlockHash(l) /\ Deep(m.height)
    BY <1>1, <2>1 DEF WrittenCanonical, Canonical
  <2>3. m.height = l.height
    BY <2>2 DEF BlockHash
  <2> QED
    BY <2>2, <2>3
<1>7. \A l : Mirrored(l)' <=> Mirrored(l)
  BY <1>3 DEF Mirrored
<1>8. {l \in Answered : Mirrored(l)}' = {l \in Answered : Mirrored(l)}
  BY <1>4, <1>5, <1>6, <1>7
<1>9. ASSUME NEW l \in Answered', l.height <= cursor
      PROVE  Deep(l.height)
  <2>1. l.height \in Nat /\ start < l.height /\ start # NoRow
    BY <1>1, <1>3, <1>4 DEF Answered
  <2>2. Deep(cursor)
    BY <1>1, <1>9, <2>1 DEF PassedDeep, CursorBehind
  <2> QED
    BY <1>1, <1>9, <2>1, <2>2 DEF Deep
<1>10. {l \in Answered : l.height <= cursor}' = {l \in Answered : l.height <= cursor}
  BY <1>3, <1>4, <1>5, <1>9
<1> QED
  BY <1>3, <1>4, <1>8, <1>10 DEF Bridge!Finalise

\* The relay's own transaction for a canonical log writes that log's account only.
LEMMA OwnWriteStep ==
  ASSUME IInv, NEW h \in BlockHashes, NEW v \in Values, Canonical(h, v), SetTally(Relayer, h, v),
         UNCHANGED <<logs, top, start, cursor, dlq>>
  PROVE  Bridge!Next
<1>1. \A l : BlockHash(l) \in BlockHashes /\ Mirrored(l) => Mirrored(l)'
  BY WriteSafe
<1>2. \A l \in logs : Mirrored(l) => Mirrored(l)'
  BY <1>1, Numbers, HashType DEF IInv
<1> QED
  BY <1>2, MirrorStep DEF Bridge!Next

\* A write of the tables, whether the daemon learns of it or not.
LEMMA LostStep ==
  ASSUME SafeDepth, IInv, WriteLost, UNCHANGED <<chainVars, mirror>>
  PROVE  [Bridge!Next]_(Bridge!vars)
<1>1. UNCHANGED <<logs, top>> /\ \A l : Mirrored(l)' <=> Mirrored(l)
  BY DEF chainVars, Mirrored
<1>2. CASE UNCHANGED <<cursor, dlq, start>>
  BY <1>1, <1>2, StutterStep
<1>3. CASE pc = "insert" /\ cursor' = last /\ start' = last /\ UNCHANGED dlq
  BY <1>1, <1>3, StartStep DEF Bridge!Next
<1>4. ASSUME pc = "park", NEW log \in batch, dlq' = dlq \union {log}, UNCHANGED <<cursor, start>>
      PROVE  Bridge!Next
  BY <1>1, <1>4, ParkStep DEF Scanning
<1>5. CASE pc = "save" /\ cursor' = last /\ UNCHANGED <<dlq, start>>
  BY <1>1, <1>5, PassStep DEF Bridge!Next
<1> QED
  BY <1>2, <1>3, <1>4, <1>5 DEF WriteLost

\* A step of the daemon carries a tally over, gives one up, or is a stutter.
LEMMA DaemonRefines ==
  ASSUME SafeDepth, IInv, Daemon
  PROVE  [Bridge!Next]_(Bridge!vars)
<1> USE DEF chainVars, solanaVars, tableVars
<1>1. CASE Start \/ CountAtStart \/ LoadCursor \/ Poll \/ Fetch \/ Recount
  <2>1. UNCHANGED <<logs, top, start, cursor, dlq, mirror>>
    BY <1>1 DEF Start, CountAtStart, LoadCursor, Poll, Fetch, Recount
  <2> QED
    BY <2>1, StutterStep DEF Mirrored
<1>2. CASE InsertCursor
  BY <1>2, LostStep DEF InsertCursor, WriteLost
<1>3. CASE Park
  BY <1>3, LostStep DEF Park, WriteLost
<1>4. CASE SaveCursor
  BY <1>4, LostStep DEF SaveCursor, WriteLost
<1>5. ASSUME NEW log \in batch, pc = "bridge", Confirmed(log)
      PROVE  Bridge!Next
  <2>1. Canonical(BlockHash(log), log.pair) /\ BlockHash(log) \in BlockHashes
    BY <1>5, BatchIsCanonical DEF Scanning
  <2>2. /\ log.pair \in Values /\ SetTally(Relayer, BlockHash(log), log.pair)
        /\ UNCHANGED <<logs, top, start, cursor, dlq>>
    BY <1>5 DEF Confirmed
  <2> QED
    BY <2>1, <2>2, OwnWriteStep
<1>6. ASSUME NEW log \in batch, Rejected(log)
      PROVE  UNCHANGED Bridge!vars
  <2>1. UNCHANGED <<logs, top, start, cursor, dlq, mirror>>
    BY <1>6 DEF Rejected, AttemptFailed
  <2> QED
    BY <2>1, StutterStep DEF Mirrored
<1> QED
  BY <1>1, <1>2, <1>3, <1>4, <1>5, <1>6 DEF Daemon, BridgeTally

\* A failed call or a crash carries nothing over.
LEMMA FaultsRefine ==
  ASSUME SafeDepth, IInv, Faults
  PROVE  [Bridge!Next]_(Bridge!vars)
<1>1. CASE BridgeUnconfirmed
  <2>1. UNCHANGED <<logs, top, start, cursor, dlq, mirror>>
    BY <1>1 DEF BridgeUnconfirmed, Unconfirmed, AttemptFailed, chainVars, tableVars
  <2> QED
    BY <2>1, StutterStep DEF Mirrored
<1>2. CASE CallFails
  BY <1>2, LostStep DEF CallFails, solanaVars
<1>3. CASE Crash
  BY <1>3, LostStep DEF Crash
<1> QED
  BY <1>1, <1>2, <1>3 DEF Faults

\* A transaction that settles carries a tally over; other wallets do not.
LEMMA EnvironmentRefines ==
  ASSUME SafeDepth, IInv, Environment
  PROVE  [Bridge!Next]_(Bridge!vars)
<1> USE DEF chainVars, tableVars
<1>1. ASSUME NEW t \in inflight, Settle(t)
      PROVE  [Bridge!Next]_(Bridge!vars)
  <2>1. /\ t.pda \in BlockHashes /\ t.value \in Values /\ Canonical(t.pda, t.value)
        /\ UNCHANGED <<logs, top, start, cursor, dlq>>
    BY <1>1 DEF Settle, IInv, Safe, Typed, TypeOK, Transaction, WrittenCanonical
  <2>2. CASE SetTally(Relayer, t.pda, t.value)
    BY <2>1, <2>2, OwnWriteStep
  <2>3. CASE UNCHANGED mirror
    BY <2>1, <2>3, StutterStep DEF Mirrored
  <2> QED
    BY <1>1, <2>2, <2>3 DEF Settle
<1>2. ASSUME NEW t \in inflight, Expire(t)
      PROVE  UNCHANGED Bridge!vars
  <2>1. UNCHANGED <<logs, top, start, cursor, dlq, mirror>>
    BY <1>2 DEF Expire
  <2> QED
    BY <2>1, StutterStep DEF Mirrored
<1>3. CASE OtherWallets
  <2>1. UNCHANGED <<logs, top, start, cursor, dlq>> /\ MirrorUse
    BY <1>3 DEF OtherWallets
  <2>2. \A l \in logs : Mirrored(l)' <=> Mirrored(l)
    BY <2>1, OthersSafe, Numbers, HashType DEF Mirrored, IInv
  <2> QED
    BY <2>1, <2>2, StutterStep
<1>4. CASE CreateTables
  <2>1. UNCHANGED <<logs, top, start, cursor, dlq, mirror>>
    BY <1>4 DEF CreateTables, solanaVars
  <2> QED
    BY <2>1, StutterStep DEF Mirrored
<1> QED
  BY <1>1, <1>2, <1>3, <1>4, ChainStep DEF Environment, Bridge!Next

\* A daemon that starts is a bridge that has carried nothing.
LEMMA InitBridges == Init => Bridge!Init
<1> SUFFICES ASSUME Init PROVE Bridge!Init
  OBVIOUS
<1>1. Answered = {} /\ dlq = {}
  BY DEF Init, ChainInit, Answered
<1> QED
  BY <1>1 DEF Bridge!Init

\* Every step is one of the bridge or a stutter.
LEMMA StepBridges ==
  ASSUME SafeDepth, IInv, [Next]_vars
  PROVE  [Bridge!Next]_(Bridge!vars)
<1>1. CASE UNCHANGED vars
  BY <1>1, StutterStep DEF vars, chainVars, solanaVars, tableVars, Mirrored
<1> QED
  BY <1>1, DaemonRefines, FaultsRefine, EnvironmentRefines DEF Next

\* The relay implements TallyBridge: through retries, late transactions, crashes and
\* reorganisations a tally it answers for is left behind only when it is in its
\* account of the mirror or in the dead letter queue, and neither is ever undone.
THEOREM ImplementsBridge ==
  ASSUME SafeDepth
  PROVE  Spec => BridgeSpec
<1>1. IInv /\ [Next]_vars => [Bridge!Next]_(Bridge!vars)
  BY StepBridges
<1> QED
  BY <1>1, InitBridges, Invariance, PTL DEF Spec, BridgeSpec, Bridge!Spec
=============================================================================
