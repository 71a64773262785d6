---------------------------- MODULE Orchestrator ----------------------------
(***************************************************************************)
(* services/orchestrator/main.py together with the contract it drives: it  *)
(* waits for election 0, waits for its last block, builds a tally proof    *)
(* and sends tallyVotes.  It is one sequential process that the deployment *)
(* does not restart; one action stands for the code from one RPC, or       *)
(* external program, to the next.                                          *)
(*                                                                         *)
(*   watch    wait_for_election_zero: w3.eth.block_number                  *)
(*   scan     wait_for_election_zero: the ElectionCreated logs             *)
(*   read     wait_for_election_zero: elections(0)                         *)
(*   wait     main: until the end block                                    *)
(*   gather   get_tally_input                                              *)
(*   prove    run_snarkjs_proof                                            *)
(*   submit   submit_tally, to send_raw_transaction                        *)
(*   receipt  submit_tally: wait_for_transaction_receipt                   *)
(*   done, dead   the process has ended: in success or not                 *)
(*                                                                         *)
(* The proof is of the pair [0, 0]: get_tally_input counts VoteCast logs,  *)
(* which no contract of the repository emits.                              *)
(***************************************************************************)
EXTENDS ElectionManager

CONSTANTS Orch,            \* the account of ORCHESTRATOR_KEY
          PublicSignals,   \* public signals of the deployed qv_tally artifact
          MaxFaults        \* bound: failing calls and lost transactions

ASSUME OrchAssumption ==
  /\ Orch \in Accounts
  /\ PublicSignals \in Nat
  /\ MaxFaults \in Nat

VARIABLES
  pc,
  scanned,    \* last_scanned_block
  seen,       \* current_head; after a scan, the block of its last log
  endBlock,   \* end_block
  tx,         \* the tallyVotes transaction: none, pending, mined, reverted, lost
  faults

orchVars == <<pc, scanned, seen, endBlock, tx, faults>>
allVars  == <<vars, orchVars>>

\* uint256[7] pubSignals
VerifierSignals == 7

\* The chain as an RPC shows it: sealed blocks and their logs.
SealedBlock == block - 1
CreatedSince(n) == {created[k] : k \in {j \in DOMAIN created :
                                          n < created[j].block /\ created[j].block <= SealedBlock}}

OrchInit ==
  /\ Init
  /\ pc = "watch"
  /\ scanned = 0 /\ seen = 0 /\ endBlock = 0
  /\ tx = "none"
  /\ faults = 0

-----------------------------------------------------------------------------
(* wait_for_election_zero *)

\* Mutant: the head is remembered as scanned before its logs are read.
WatchForgets ==
  /\ pc = "watch"
  /\ SealedBlock > scanned
  /\ seen' = SealedBlock
  /\ scanned' = SealedBlock
  /\ pc' = "scan"
  /\ UNCHANGED <<vars, endBlock, tx, faults>>

\* connect_w3 has connected; a head that is not new makes it sleep.
Watch ==
  /\ pc = "watch"
  /\ SealedBlock > scanned
  /\ seen' = SealedBlock
  /\ pc' = "scan"
  /\ UNCHANGED <<vars, scanned, endBlock, tx, faults>>

\* The block of the last of a set of logs.
LastBlock(logs) == CHOOSE n \in {l.block : l \in logs} : \A l \in logs : l.block <= n

\* Mutant: the scan that found nothing is remembered up to the block after it.
ScanAhead ==
  /\ pc = "scan"
  /\ LET logs == CreatedSince(scanned) IN
       IF \E l \in logs : l.id = 0
       THEN pc' = "read"  /\ seen' = LastBlock(logs) /\ UNCHANGED scanned
       ELSE pc' = "watch" /\ UNCHANGED seen
            /\ scanned' = IF logs = {} THEN seen + 1 ELSE LastBlock(logs)
  /\ UNCHANGED <<vars, endBlock, tx, faults>>

\* The logs are read after the head, and may be of later blocks.
Scan ==
  /\ pc = "scan"
  /\ LET logs == CreatedSince(scanned) IN
       IF \E l \in logs : l.id = 0
       THEN pc' = "read"  /\ seen' = LastBlock(logs) /\ UNCHANGED scanned
       ELSE pc' = "watch" /\ UNCHANGED seen
            /\ scanned' = IF logs = {} THEN seen ELSE LastBlock(logs)
  /\ UNCHANGED <<vars, endBlock, tx, faults>>

Read ==
  /\ pc = "read"
  /\ endBlock' = elections[0].end
  /\ pc' = "wait"
  /\ UNCHANGED <<vars, scanned, seen, tx, faults>>

\* The inner `except: continue' swallows a failing elections(0); the scan
\* then counts as done up to its last log.
ReadFails ==
  /\ pc = "read"
  /\ scanned' = seen
  /\ pc' = "watch"
  /\ UNCHANGED <<vars, seen, endBlock, tx>>

\* The outer except goes on polling.
ScanFails ==
  /\ pc \in {"watch", "scan"}
  /\ pc' = "watch"
  /\ UNCHANGED <<vars, scanned, seen, endBlock, tx>>

-----------------------------------------------------------------------------
(* main *)

Wait ==
  /\ pc = "wait"
  /\ SealedBlock >= endBlock
  /\ pc' = "gather"
  /\ UNCHANGED <<vars, scanned, seen, endBlock, tx, faults>>

\* Failing elections(0) and failing log queries are replaced by defaults.
Gather ==
  /\ pc = "gather"
  /\ pc' = "prove"
  /\ UNCHANGED <<vars, scanned, seen, endBlock, tx, faults>>

Prove ==
  /\ pc = "prove"
  /\ pc' = "submit"
  /\ UNCHANGED <<vars, scanned, seen, endBlock, tx, faults>>

\* Arguments of the wrong length do not encode: the exception is not caught.
Submit ==
  /\ pc = "submit"
  /\ IF PublicSignals = VerifierSignals
     THEN tx' = "pending" /\ pc' = "receipt"
     ELSE pc' = "dead" /\ UNCHANGED tx
  /\ UNCHANGED <<vars, scanned, seen, endBlock, faults>>

\* Mutant: the receipt's status is not looked at.
ReceiptUnchecked ==
  /\ pc = "receipt"
  /\ tx \in {"mined", "reverted"}
  /\ pc' = "done"
  /\ UNCHANGED <<vars, scanned, seen, endBlock, tx, faults>>

\* No receipt within the timeout, or a status of 0, ends the process.
Receipt ==
  /\ pc = "receipt"
  /\ tx \in {"mined", "reverted", "lost"}
  /\ pc' = IF tx = "mined" THEN "done" ELSE "dead"
  /\ UNCHANGED <<vars, scanned, seen, endBlock, tx, faults>>

\* The process is killed or, once the watch is over, a call fails; its
\* transaction may already be on its way.
Dies ==
  /\ pc \notin {"done", "dead"}
  /\ pc' = "dead"
  /\ \/ UNCHANGED tx
     \/ pc = "submit" /\ PublicSignals = VerifierSignals /\ tx' = "pending"
  /\ UNCHANGED <<vars, scanned, seen, endBlock>>

-----------------------------------------------------------------------------
(* The chain. *)

Execute ==
  /\ tx = "pending"
  /\ \/ TallyVotes(Orch, 0, ZeroTally) /\ tx' = "mined"
     \/ ~ (Orch = owner /\ CanTally(0, ZeroTally)) /\ tx' = "reverted" /\ UNCHANGED vars
  /\ UNCHANGED <<pc, scanned, seen, endBlock, faults>>

\* The backend signs with the same key: its transaction may take the nonce.
Lose ==
  /\ tx = "pending"
  /\ tx' = "lost"
  /\ UNCHANGED <<vars, pc, scanned, seen, endBlock>>

Process == Watch \/ Scan \/ Read \/ Wait \/ Gather \/ Prove \/ Submit \/ Receipt

Fault == /\ faults < MaxFaults
         /\ faults' = faults + 1
         /\ ScanFails \/ ReadFails \/ Dies \/ Lose

OrchNext == \/ Next /\ UNCHANGED orchVars
            \/ Process \/ Execute \/ Fault

\* The process runs, blocks are mined, and a pending transaction is included.
OrchSpec == OrchInit /\ [][OrchNext]_allVars
            /\ WF_allVars(Process) /\ WF_allVars(Execute)
            /\ WF_allVars(Mine /\ UNCHANGED orchVars)

-----------------------------------------------------------------------------
(***************************************************************************)
(* Properties                                                              *)
(***************************************************************************)

\* The process is in a known state and remembers no block that is not there.
OrchTypeOK ==
  /\ pc \in {"watch", "scan", "read", "wait", "gather", "prove", "submit",
             "receipt", "done", "dead"}
  /\ scanned \in 0 .. SealedBlock /\ seen \in 0 .. SealedBlock
  /\ endBlock \in Nat
  /\ tx \in {"none", "pending", "mined", "reverted", "lost"}
  /\ faults \in 0 .. MaxFaults

\* The watch never gets past ElectionCreated(0) without seeing it, unless a
\* call failed: the head read before the logs is what it goes on from.
NothingMissed ==
  pc \in {"watch", "scan"} /\ faults = 0 =>
    \A k \in DOMAIN created : created[k].id = 0 => created[k].block > scanned

\* A process that reports success has recorded the tally itself; losing the
\* race to performUpkeep is not reported as one.
SuccessMeansTallied ==
  pc = "done" => tallies[0] = [tallied |-> TRUE, result |-> ZeroTally] /\ tx = "mined"

\* An election 0 that the process can tally: its strategy takes the proof, and
\* blocks are left in the model.
Tallyable == /\ nextId > 0
             /\ strategies[0] # NoStrategy
             /\ ZeroTally \in Accepted[strategies[0]]
             /\ elections[0].end + 1 < MaxBlock

\* handbook: the orchestrator watches the contract and submits a tally once
\* the election has ended.  If no call fails and its account stays the owner,
\* election 0 is tallied in the end, be it by the process or by an upkeep.
TalliesInTheEnd ==
  [](owner = Orch) /\ <>Tallyable => <>(tallies[0].tallied \/ faults > 0)

\* wait_for_election_zero, "Polls efficiently for ElectionCreated(id=0) and
\* returns its end block number": a failing call does not make it poll for
\* ever.
WatchEnds ==
  (nextId > 0 /\ created[1].block < MaxBlock) ~> pc \notin {"watch", "scan", "read"}
=============================================================================
