------------------------------ MODULE EvmChain ------------------------------
(***************************************************************************)
(* The EVM chain as the relay daemon sees it through its RPC endpoint: a   *)
(* height, and the Tally logs of the canonical blocks.  A reorganisation   *)
(* drops the last blocks and their logs; blocks mined afterwards belong to *)
(* a new fork, so <<height, fork>> stands for the block hash.              *)
(*                                                                         *)
(* On one chain an election has at most one Tally log                      *)
(* (ElectionManager!OneTallyPerElection); the transactions of dropped      *)
(* blocks may be mined again, elsewhere or with another accepted proof.    *)
(***************************************************************************)
EXTENDS Integers, FiniteSets

CONSTANTS Elections,
          Pairs,        \* tally pairs of uint256
          MaxHead,      \* bound: height of the chain
          MaxForks,     \* bound: reorganisations
          MaxReorg,     \* blocks a reorganisation may drop
          MaxPerBlock   \* bound: Tally logs in one block

ASSUME ChainAssumption ==
  /\ MaxHead \in Nat
  /\ MaxForks \in Nat
  /\ MaxReorg \in Nat
  /\ MaxPerBlock \in Nat

VARIABLES head,    \* height of the canonical chain
          top,     \* greatest height it ever had
          forks,   \* reorganisations so far
          logs     \* Tally logs of the canonical chain

chainVars == <<head, top, forks, logs>>

Log == [height : 1 .. MaxHead, fork : 0 .. MaxForks, index : 1 .. MaxPerBlock,
        election : Elections, pair : Pairs]

BlockHash(log) == <<log.height, log.fork>>

BlockHashes == (1 .. MaxHead) \X (0 .. MaxForks)

\* The order in which getLogs returns logs.
Before(l, m) == \/ l.height < m.height
                \/ l.height = m.height /\ l.index < m.index

ChainInit == head = 0 /\ top = 0 /\ forks = 0 /\ logs = {}

ChainTypeOK ==
  /\ head \in 0 .. MaxHead
  /\ top \in head .. MaxHead
  /\ forks \in 0 .. MaxForks
  /\ logs \subseteq Log

\* The logs of the next block: some elections not tallied yet, in some order.
NextBlocks ==
  {B \in SUBSET [height : {head + 1}, fork : {forks}, index : 1 .. MaxPerBlock,
                 election : Elections \ {l.election : l \in logs}, pair : Pairs] :
     /\ \A l, m \in B : l.election = m.election \/ l.index = m.index => l = m
     /\ {l.index : l \in B} = 1 .. Cardinality(B)}

MineBlock ==
  /\ head < MaxHead
  /\ \E B \in NextBlocks : logs' = logs \union B
  /\ head' = head + 1
  /\ top'  = IF head' > top THEN head' ELSE top
  /\ UNCHANGED forks

\* The chain falls back to height n.
Reorganise(n) ==
  /\ forks < MaxForks
  /\ n < head
  /\ n >= top - MaxReorg
  /\ head'  = n
  /\ logs'  = {l \in logs : l.height <= n}
  /\ forks' = forks + 1
  /\ UNCHANGED top

ChainNext == MineBlock \/ \E n \in 0 .. MaxHead : Reorganise(n)

\* eth_getLogs over a range of heights
GetLogs(from, to) == {l \in logs : from <= l.height /\ l.height <= to}
=============================================================================
