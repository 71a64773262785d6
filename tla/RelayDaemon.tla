----------------------------- MODULE RelayDaemon -----------------------------
(***************************************************************************)
(* services/relay-daemon/index.ts between the EVM chain, its Postgres      *)
(* tables and the Solana mirror.                                           *)
(*                                                                         *)
(* The daemon is one async function: it can be overtaken by the chains, by *)
(* a crash or by a failing call only where it awaits, so there is one pc   *)
(* per awaited call and one action per outcome of it; the code between two *)
(* awaits belongs to the action before it.                                 *)
(*                                                                         *)
(*   down     the process is not running (compose restarts it)             *)
(*   count    the count of dead_letter_queue, before the loop              *)
(*   load     getLastBlock, to its SELECT, or to the getBlockNumber        *)
(*   insert   getLastBlock, first start: INSERT of the cursor              *)
(*   poll     getBlockNumber                                               *)
(*   fetch    getLogs                                                      *)
(*   bridge   set_tally of the first log of the batch                      *)
(*   park     addDeadLetter, INSERT                                        *)
(*   recount  addDeadLetter, the count after it                            *)
(*   save     setLastBlock                                                 *)
(***************************************************************************)
EXTENDS EvmChain

CONSTANTS Confirmations,  \* CONFIRMATIONS, 5 by default
          MaxAttempts,    \* 5 in the code
          MaxFaults,      \* bound: failing calls and crashes
          Keys, Signers, NoSigner, Relayer, Premade,
          Values,         \* the pairs of Pairs that fit two u64
          NoValue

ASSUME RelayAssumption ==
  /\ Confirmations \in Nat
  /\ MaxAttempts \in Nat \ {0}
  /\ MaxFaults \in Nat
  /\ Values \subseteq Pairs
  /\ Relayer \in Signers /\ NoSigner \notin Signers
  /\ Premade \subseteq BlockHashes
  /\ Keys \intersect BlockHashes = {}   \* a PDA has no key

VARIABLES
  mirror,      \* accounts of the Solana program
  inflight,    \* set_tally transactions sent and given up on, which may land
  tables,      \* dead_letter_queue exists
  cursor,      \* relay_state.last_block, NoRow before the first INSERT
  dlq,         \* logs with a row in dead_letter_queue
  start,       \* history: the cursor of the first start
  pc,
  last, upTo,  \* main's `last' and `confirmed'
  batch,       \* main's `logs', from the current one on
  attempt,
  shown,       \* latestElectionPDA
  faults       \* failing calls and crashes so far

INSTANCE ElectionMirror WITH Pdas <- BlockHashes

NoRow == -1
NoPda == <<0, 0>>

tableVars  == <<tables, cursor, dlq, start>>
memoryVars == <<last, upTo, batch, attempt, shown>>
solanaVars == <<mirror, inflight>>

vars == <<chainVars, solanaVars, tableVars, pc, memoryVars, faults>>

Transaction == [pda : BlockHashes, value : Values]

Running == {"poll", "fetch", "bridge", "park", "recount", "save"}
Booting == {"count", "load", "insert"}

Init ==
  /\ ChainInit
  /\ MirrorInit
  /\ inflight = {}
  /\ tables = FALSE /\ cursor = NoRow /\ dlq = {} /\ start = NoRow
  /\ pc = "down"
  /\ last = 0 /\ upTo = 0 /\ batch = {} /\ attempt = 0 /\ shown = NoPda
  /\ faults = 0

-----------------------------------------------------------------------------
(* Start of the process: main up to its loop. *)

\* compose starts it, and both waitForRpc loops have found their service.
Start ==
  /\ pc = "down"
  /\ pc' = "count"
  /\ UNCHANGED <<chainVars, solanaVars, tableVars, memoryVars, faults>>

\* The count of a table that getLastBlock would only create later.
CountAtStart ==
  /\ pc = "count"
  /\ pc' = IF tables THEN "load" ELSE "down"
  /\ UNCHANGED <<chainVars, solanaVars, tableVars, memoryVars, faults>>

LoadCursor ==
  /\ pc = "load"
  /\ IF cursor # NoRow THEN last' = cursor /\ pc' = "poll"
                       ELSE last' = head   /\ pc' = "insert"
  /\ UNCHANGED <<chainVars, solanaVars, tableVars, upTo, batch, attempt, shown, faults>>

InsertCursor ==
  /\ pc = "insert"
  /\ cursor' = last
  /\ start'  = last
  /\ pc' = "poll"
  /\ UNCHANGED <<chainVars, solanaVars, tables, dlq, memoryVars, faults>>

-----------------------------------------------------------------------------
(* One turn of the loop. *)

\* Mutant: the confirmations are not subtracted.
PollUnconfirmed ==
  /\ pc = "poll"
  /\ head > last
  /\ upTo' = head
  /\ pc' = "fetch"
  /\ UNCHANGED <<chainVars, solanaVars, tableVars, last, batch, attempt, shown, faults>>

\* Mutant: `confirmed <= last' is not checked.
PollBackwards ==
  /\ pc = "poll"
  /\ head >= Confirmations
  /\ upTo' = head - Confirmations
  /\ pc' = "fetch"
  /\ UNCHANGED <<chainVars, solanaVars, tableVars, last, batch, attempt, shown, faults>>

\* A head with nothing newly confirmed only makes the daemon sleep.
Poll ==
  /\ pc = "poll"
  /\ head - Confirmations > last
  /\ upTo' = head - Confirmations
  /\ pc' = "fetch"
  /\ UNCHANGED <<chainVars, solanaVars, tableVars, last, batch, attempt, shown, faults>>

\* Mutant: `attempt' is declared outside the loop over the logs.
ContinueCounting(rest) ==
  /\ batch' = rest
  /\ UNCHANGED attempt
  /\ IF rest = {} THEN pc' = "save" /\ last' = upTo
                  ELSE pc' = "bridge" /\ UNCHANGED last

\* Go on with the logs in `rest'; after the last one, last = confirmed.
Continue(rest) ==
  /\ batch' = rest
  /\ attempt' = 0
  /\ IF rest = {} THEN pc' = "save" /\ last' = upTo
                  ELSE pc' = "bridge" /\ UNCHANGED last

Fetch ==
  /\ pc = "fetch"
  /\ Continue(GetLogs(last + 1, upTo))
  /\ UNCHANGED <<chainVars, solanaVars, tableVars, upTo, shown, faults>>

\* The log at work: the first of the batch.
Current(log) == log \in batch /\ \A m \in batch : ~ Before(m, log)

\* bridgeTally returns: the transaction was confirmed.
Confirmed(log) ==
  /\ log.pair \in Values
  /\ SetTally(Relayer, BlockHash(log), log.pair)
  /\ shown' = BlockHash(log)
  /\ Continue(batch \ {log})
  /\ UNCHANGED <<chainVars, inflight, tableVars, upTo, faults>>

\* Mutant: the attempts have no limit.
AttemptFailedForever ==
  /\ attempt' = IF attempt + 1 < MaxAttempts THEN attempt + 1 ELSE attempt
  /\ pc' = "bridge"
  /\ UNCHANGED <<chainVars, mirror, tableVars, last, upTo, batch, shown>>

\* The catch clause of the attempts.
AttemptFailed ==
  /\ attempt' = attempt + 1
  /\ pc' = IF attempt' >= MaxAttempts THEN "park" ELSE "bridge"
  /\ UNCHANGED <<chainVars, mirror, tableVars, last, upTo, batch, shown>>

\* bridgeTally throws: the pair does not fit a u64, or the program says no.
Rejected(log) ==
  /\ ~ (log.pair \in Values /\ CanSetTally(Relayer, BlockHash(log)))
  /\ AttemptFailed
  /\ UNCHANGED <<inflight, faults>>

\* A set_tally transaction for the log is on its way.
Sent(log) ==
  /\ log.pair \in Values
  /\ inflight' = inflight \union {[pda |-> BlockHash(log), value |-> log.pair]}

\* bridgeTally throws: the transaction was not sent, or was sent but not
\* confirmed in time and may still land.
Unconfirmed(log) ==
  /\ faults < MaxFaults
  /\ faults' = faults + 1
  /\ log.pair \in Values
  /\ UNCHANGED inflight \/ Sent(log)
  /\ AttemptFailed

BridgeTally ==
  /\ pc = "bridge"
  /\ \E log \in batch : Current(log) /\ (Confirmed(log) \/ Rejected(log))

BridgeUnconfirmed ==
  /\ pc = "bridge"
  /\ \E log \in batch : Current(log) /\ Unconfirmed(log)

\* addDeadLetter: a row for the log, and then the gauge's count.
Park ==
  /\ pc = "park"
  /\ \E log \in batch : Current(log) /\ dlq' = dlq \union {log}
  /\ pc' = "recount"
  /\ UNCHANGED <<chainVars, solanaVars, tables, cursor, start, memoryVars, faults>>

Recount ==
  /\ pc = "recount"
  /\ \E log \in batch : Current(log) /\ Continue(batch \ {log})
  /\ UNCHANGED <<chainVars, solanaVars, tableVars, upTo, shown, faults>>

\* setLastBlock
SaveCursor ==
  /\ pc = "save"
  /\ cursor' = last
  /\ pc' = "poll"
  /\ UNCHANGED <<chainVars, solanaVars, tables, dlq, start, memoryVars, faults>>

-----------------------------------------------------------------------------
(* Failures. *)

\* An awaited RPC or query throws.  A write may have been committed before the
\* connection was lost.
WriteLost ==
  \/ UNCHANGED <<cursor, dlq, start>>
  \/ pc = "insert" /\ cursor' = last /\ start' = last /\ UNCHANGED dlq
  \/ pc = "park"   /\ (\E log \in batch : Current(log) /\ dlq' = dlq \union {log})
                   /\ UNCHANGED <<cursor, start>>
  \/ pc = "save"   /\ cursor' = last /\ UNCHANGED <<dlq, start>>

\* Mutant: `last = confirmed' comes before the loop over the logs.
CallFailsAhead ==
  /\ pc \in {"poll", "fetch", "park", "recount", "save"}
  /\ faults < MaxFaults
  /\ faults' = faults + 1
  /\ WriteLost
  /\ pc' = "poll"
  /\ last' = IF pc \in {"park", "recount"} THEN upTo ELSE last
  /\ batch' = {} /\ attempt' = 0
  /\ UNCHANGED <<chainVars, solanaVars, tables, upTo, shown>>

\* In the loop the FATAL catch clause goes on to the next turn, with `last' as
\* it stands and the rest of the batch dropped.
CallFails ==
  /\ pc \in {"poll", "fetch", "park", "recount", "save"}
  /\ faults < MaxFaults
  /\ faults' = faults + 1
  /\ WriteLost
  /\ pc' = "poll"
  /\ batch' = {} /\ attempt' = 0
  /\ UNCHANGED <<chainVars, solanaVars, tables, last, upTo, shown>>

\* Before the loop a failing call ends the process, and anywhere it may crash:
\* its memory is lost.
Crash ==
  /\ pc # "down"
  /\ faults < MaxFaults
  /\ faults' = faults + 1
  /\ WriteLost
  /\ \/ UNCHANGED inflight
     \/ pc = "bridge" /\ \E log \in batch : Current(log) /\ Sent(log)
  /\ pc' = "down"
  /\ last' = 0 /\ upTo' = 0 /\ batch' = {} /\ attempt' = 0 /\ shown' = NoPda
  /\ UNCHANGED <<chainVars, mirror, tables>>

-----------------------------------------------------------------------------
(* The rest of the system. *)

\* A transaction the daemon gave up on is executed, or its block hash expires.
Settle(t) ==
  /\ inflight' = inflight \ {t}
  /\ IF CanSetTally(Relayer, t.pda) THEN SetTally(Relayer, t.pda, t.value)
                                    ELSE UNCHANGED mirror
  /\ UNCHANGED <<chainVars, tableVars, pc, memoryVars, faults>>

Expire(t) ==
  /\ inflight' = inflight \ {t}
  /\ UNCHANGED <<chainVars, mirror, tableVars, pc, memoryVars, faults>>

\* The backend's create_all makes the table on its start.
CreateTables ==
  /\ ~ tables
  /\ tables' = TRUE
  /\ UNCHANGED <<chainVars, solanaVars, cursor, dlq, start, pc, memoryVars, faults>>

Chain == /\ ChainNext
         /\ UNCHANGED <<solanaVars, tableVars, pc, memoryVars, faults>>

OtherWallets == /\ MirrorUse
                /\ UNCHANGED <<chainVars, inflight, tableVars, pc, memoryVars, faults>>

Daemon == \/ Start \/ CountAtStart \/ LoadCursor \/ InsertCursor
          \/ Poll \/ Fetch \/ BridgeTally \/ Park \/ Recount \/ SaveCursor

Faults == BridgeUnconfirmed \/ CallFails \/ Crash

Environment == \/ Chain \/ OtherWallets \/ CreateTables
               \/ \E t \in inflight : Settle(t) \/ Expire(t)

Next == Daemon \/ Faults \/ Environment

\* compose restarts the process, its calls return or throw, and the backend,
\* which is part of the same deployment, starts.
Fairness == WF_vars(Daemon) /\ WF_vars(CreateTables)

Spec     == Init /\ [][Next]_vars
FairSpec == Spec /\ Fairness

-----------------------------------------------------------------------------
(***************************************************************************)
(* Properties                                                              *)
(***************************************************************************)

\* The tables, the mirror and the daemon's memory have the types the code
\* gives them; the range being scanned is ahead of `last', the batch lies in it.
TypeOK ==
  /\ ChainTypeOK
  /\ MirrorTypeOK
  /\ inflight \subseteq Transaction
  /\ tables \in BOOLEAN
  /\ cursor \in {NoRow} \union (0 .. MaxHead)
  /\ start \in {NoRow} \union (0 .. MaxHead)
  /\ dlq \subseteq Log
  /\ pc \in {"down"} \union Booting \union Running
  /\ last \in 0 .. MaxHead /\ upTo \in 0 .. MaxHead
  /\ batch \subseteq Log
  /\ pc \in {"bridge", "park", "recount"} => batch # {}
  /\ attempt \in 0 .. MaxAttempts
  /\ shown \in BlockHashes \union {NoPda}
  /\ faults \in 0 .. MaxFaults

\* The account of a log's block carries the log's tally.
Mirrored(log) ==
  mirror[BlockHash(log)] =
    [authority |-> Relayer, votes |-> log.pair, finalised |-> TRUE]

Settled(log) == Mirrored(log) \/ log \in dlq

\* Reorganisations are no deeper than the confirmations the daemon awaits.
SafeDepth == MaxReorg <= Confirmations

\* Only the tally of a block that is, and will stay, on the chain is mirrored:
\* not one of a dropped block, nor one another wallet made up.  A late
\* transaction of an earlier attempt or process must not break it either.
MirrorIsCanonical ==
  SafeDepth =>
    \A h \in BlockHashes : mirror[h].finalised =>
      \E l \in logs : BlockHash(l) = h /\ Mirrored(l)

\* The cursor, in the table or in memory, passes a log above the first
\* start's block only when it is mirrored or in the dead letter queue: no
\* crash, failing query or lost transaction makes the daemon skip a tally.
NoTallySkipped ==
  SafeDepth =>
    \A l \in logs :
      /\ l.height > start
      /\ start # NoRow
      /\ l.height <= cursor \/ (pc \in Running /\ l.height <= last)
      => Settled(l)

\* The saved cursor never goes back, even if the head does: a block once
\* accounted for is not scanned again by a later process.
CursorAdvances == [][cursor' >= cursor]_cursor

\* Refinement: the relay answers for the confirmed logs above its start.
Answered == {l \in logs : start # NoRow /\ start < l.height
                          /\ l.height <= top - Confirmations}

Bridge == INSTANCE TallyBridge WITH
  Tallies  <- Log,
  final    <- Answered,
  mirrored <- {l \in Answered : Mirrored(l)},
  parked   <- dlq,
  passed   <- {l \in Answered : l.height <= cursor}

\* Every step of the daemon, its failures and its environment is a step of
\* TallyBridge or leaves it unchanged, given SafeDepth.
BridgeSpec == Bridge!Spec

\* Every log that is confirmed, above the first start's block, is in the end
\* mirrored or parked for good, if calls stop failing: a rejected tally, or one
\* that fits no u64, does not hold up the ones behind it.
AllSettled ==
  /\ start # NoRow
  /\ \A l \in logs : start < l.height /\ l.height <= head - Confirmations => Settled(l)

EventuallySettled == <>[]AllSettled

\* test/e2e/relayDaemon.test.ts waits for the tally of a confirmed event to
\* be in the account of its block.
EventuallyMirrored ==
  <>[](\A l \in logs : start # NoRow /\ start < l.height
                         /\ l.height <= head - Confirmations => Mirrored(l))
=============================================================================
