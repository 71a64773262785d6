-------------------------- MODULE OrchestratorProofs --------------------------
(***************************************************************************)
(* Theorems about Orchestrator, for any deployment: the contract keeps     *)
(* every property it has alone, the watch misses no election while no call *)
(* fails, and success is reported for a tally that is there.               *)
(*                                                                         *)
(* The contract's part is the inductive invariant of ElectionManagerProofs,*)
(* which carries over because every step of the composition is a step of   *)
(* the contract or leaves it alone (StepIsContracts).                      *)
(***************************************************************************)
EXTENDS Orchestrator, ElectionManagerProofs, WellFoundedInduction

(***************************************************************************)
(* The composition and the contract                                        *)
(***************************************************************************)

\* The process changes the contract by its tallyVotes only.
LEMMA ProcessKeepsContract ==
  ASSUME Process \/ Fault
  PROVE  UNCHANGED vars
  BY DEF Process, Fault, Watch, Scan, Read, Wait, Gather, Prove, Submit, Receipt,
         ScanFails, ReadFails, Dies, Lose

\* What the orchestrator does to the contract, anybody may do.
LEMMA StepIsContracts == [OrchNext]_allVars => [Next]_vars
<1> SUFFICES ASSUME [OrchNext]_allVars PROVE [Next]_vars
  OBVIOUS
<1>1. CASE Execute
  <2>1. Orch \in Accounts /\ 0 \in Ids /\ ZeroTally \in Tallies
    BY OrchAssumption, BoundsAssumption, ValuesAssumption DEF Ids
  <2> QED
    BY <1>1, <2>1 DEF Execute, Next
<1>2. CASE UNCHANGED allVars
  BY <1>2 DEF allVars
<1> QED
  BY <1>1, <1>2, ProcessKeepsContract DEF OrchNext

\* Whatever is proved of the contract alone holds beside the orchestrator.
THEOREM RunsTheContract == OrchSpec => Spec
<1>1. OrchInit => Init
  BY DEF OrchInit
<1> QED
  BY <1>1, StepIsContracts, PTL DEF OrchSpec, Spec

(***************************************************************************)
(* The process                                                             *)
(***************************************************************************)

\* A mined tallyVotes has recorded the tally, for good.
MinedMeansTallied ==
  /\ tx = "mined" => tallies[0] = [tallied |-> TRUE, result |-> ZeroTally]
  /\ pc = "done" => tx = "mined"

OrchIInv == IInv /\ OrchTypeOK /\ NothingMissed /\ MinedMeansTallied

\* A set of naturals below a bound has a greatest one.
LEMMA Greatest ==
  ASSUME NEW S \in SUBSET Nat, S # {}, NEW b \in Nat, \A n \in S : n <= b
  PROVE  \E m \in S : \A n \in S : n <= m
<1> DEFINE D == {b - n : n \in S}
           R == {ss \in Nat \X Nat : ss[1] < ss[2]}
<1>1. D \subseteq Nat /\ D # {}
  <2>1. \A n \in S : n \in Nat /\ n <= b
    OBVIOUS
  <2>2. \A n \in S : b - n \in Nat
    BY <2>1
  <2> QED
    BY <2>2
<1>2. PICK d \in D : \A e \in D : d <= e
  <2>1. IsWellFoundedOn(R, Nat)
    BY NatLessThanWellFounded DEF OpToRel
  <2>2. \A e, d \in Nat : e < d => <<e, d>> \in R
    OBVIOUS
  <2> HIDE DEF D, R
  <2>3. PICK d \in D : \A e \in D : ~ (<<e, d>> \in R)
    BY <1>1, <2>1, WFMin
  <2>4. ASSUME NEW e \in D
        PROVE  d <= e
    <3>1. d \in Nat /\ e \in Nat /\ ~ (e < d)
      BY <1>1, <2>2, <2>3
    <3> QED
      BY <3>1
  <2> QED
    BY <2>4
<1>3. PICK m \in S : d = b - m
  OBVIOUS
<1>4. ASSUME NEW n \in S
      PROVE  n <= m
  <2>1. b - n \in D
    OBVIOUS
  <2>2. b - m <= b - n
    BY <1>2, <1>3, <2>1
  <2> HIDE DEF D
  <2> QED
    BY <2>2
<1> QED
  BY <1>4

\* The logs a query returns are of sealed blocks after the one it starts from.
LEMMA QueriedLogs ==
  ASSUME IInv, NEW n \in Nat, NEW l \in CreatedSince(n)
  PROVE  l.block \in Nat /\ n < l.block /\ l.block <= SealedBlock
<1>1. PICK k \in DOMAIN created :
        l = created[k] /\ n < created[k].block /\ created[k].block <= SealedBlock
  BY DEF CreatedSince
<1> QED
  BY <1>1, LogTypes DEF IInv

\* The last event that a query answers is in a sealed block.
LEMMA LastIsSealed ==
  ASSUME IInv, NEW n \in Nat, CreatedSince(n) # {}
  PROVE  /\ LastBlock(CreatedSince(n)) \in Nat
         /\ LastBlock(CreatedSince(n)) <= SealedBlock
<1> DEFINE S == {l.block : l \in CreatedSince(n)}
<1>1. SealedBlock \in Nat
  BY DEF SealedBlock, IInv, TypeOK
<1>2. S \in SUBSET Nat /\ S # {} /\ \A m \in S : m <= SealedBlock
  BY QueriedLogs
<1>3. \E m \in S : \A i \in S : i <= m
  <2> HIDE DEF S
  <2> QED
    BY <1>1, <1>2, Greatest
<1>4. LastBlock(CreatedSince(n)) = CHOOSE m \in S : \A l \in CreatedSince(n) : l.block <= m
  BY DEF LastBlock
<1>5. \E m \in S : \A l \in CreatedSince(n) : l.block <= m
  BY <1>3
<1>6. LastBlock(CreatedSince(n)) \in S
  BY <1>4, <1>5
<1> QED
  BY <1>2, <1>6

\* A log of the wanted election that a scan does not return is beyond what it covers.
LEMMA ScanCovers ==
  ASSUME OrchIInv, pc = "scan", faults = 0, ~ \E l \in CreatedSince(scanned) : l.id = 0,
         NEW k \in DOMAIN created, created[k].id = 0
  PROVE  created[k].block > SealedBlock
<1>1. created[k].block > scanned
  BY DEF OrchIInv, NothingMissed
<1>2. created[k] \notin CreatedSince(scanned)
  OBVIOUS
<1>3. created[k].block \in Nat /\ SealedBlock \in Nat
  BY LogTypes DEF OrchIInv, IInv, TypeOK, SealedBlock
<1> QED
  BY <1>1, <1>2, <1>3 DEF CreatedSince

\* The contract's blocks go on, and an election is created beyond the sealed ones.
LEMMA ContractAhead ==
  ASSUME IInv, [Next]_vars
  PROVE  /\ block' \in Nat \ {0} /\ block' >= block
         /\ \A k \in DOMAIN created' : \/ k \in DOMAIN created /\ created'[k] = created[k]
                                       \/ created'[k].block = block
<1>1. TypeOK /\ TypeOK'
  BY StepTypeOK DEF IInv
<1>2. block' \in Nat \ {0} /\ block \in Nat
  BY <1>1 DEF TypeOK
<1>3. ASSUME NEW a \in Accounts, NEW s \in Strategies \union {NoStrategy}, CreateElection(a, s)
      PROVE  /\ block' = block
             /\ \A k \in DOMAIN created' : \/ k \in DOMAIN created /\ created'[k] = created[k]
                                           \/ created'[k].block = block
  <2> DEFINE e == [id |-> nextId, block |-> block]
  <2>1. created \in Seq(ElectionEvent) /\ e \in ElectionEvent
    BY <1>1 DEF TypeOK, ElectionEvent
  <2>2. created' = Append(created, e) /\ e.block = block /\ block' = block
    BY <1>3 DEF CreateElection
  <2> HIDE DEF e
  <2> QED
    BY <2>1, <2>2, AppendFacts
<1>4. CASE Mine
  BY <1>2, <1>4 DEF Mine, electionVars
<1>5. CASE UNCHANGED <<block, created>>
  BY <1>2, <1>5
<1>6. ASSUME NEW a \in Accounts, NEW id \in Ids, EnqueueMessage(a, id)
      PROVE  UNCHANGED <<block, created>>
  BY <1>6 DEF EnqueueMessage, electionVars
<1>7. ASSUME NEW a \in Accounts, PublishDirectly(a)
      PROVE  UNCHANGED <<block, created>>
  BY <1>7 DEF PublishDirectly, electionVars
<1>8. ASSUME NEW id \in Ids, NEW r \in Tallies, RecordTally(id, r)
      PROVE  UNCHANGED <<block, created>>
  BY <1>8 DEF RecordTally, electionVars
<1>9. ASSUME NEW a \in Accounts, NEW o, TransferOwnership(a, o)
      PROVE  UNCHANGED <<block, created>>
  BY <1>9 DEF TransferOwnership, electionVars
<1>10. ASSUME NEW a \in Accounts, NEW i, UpgradeTo(a, i)
       PROVE  UNCHANGED <<block, created>>
  BY <1>10 DEF UpgradeTo, electionVars
<1>11. CASE UNCHANGED vars
  BY <1>5, <1>11 DEF vars
<1>12. CASE Next
  <2>1. CASE \E a \in Accounts, s \in Strategies \union {NoStrategy} : CreateElection(a, s)
    BY <1>2, <1>3, <2>1
  <2>2. CASE /\ ~ Mine
             /\ ~ \E a \in Accounts, s \in Strategies \union {NoStrategy} : CreateElection(a, s)
    <3>1. UNCHANGED <<block, created>>
      BY <1>6, <1>7, <1>8, <1>9, <1>10, <1>12, <2>2 DEF Next, TallyVotes, PerformUpkeep
    <3> QED
      BY <1>5, <3>1
  <2> QED
    BY <1>4, <2>1, <2>2
<1> QED
  BY <1>11, <1>12

\* A recorded tally is recorded for good.
LEMMA TallyStays ==
  ASSUME IInv, [Next]_vars, NEW id \in Ids, tallies[id].tallied
  PROVE  tallies'[id] = tallies[id]
<1>1. ASSUME NEW i \in Ids, NEW r \in Tallies, RecordTally(i, r)
      PROVE  tallies'[id] = tallies[id]
  BY <1>1 DEF RecordTally, CanTally, IInv, TypeOK
<1>2. CASE UNCHANGED tallies
  BY <1>2
<1> QED
  BY <1>1, <1>2
  DEF Next, TallyVotes, PerformUpkeep, Mine, CreateElection, EnqueueMessage, PublishDirectly,
      TransferOwnership, UpgradeTo, tallyVars, vars

\* A step of the others, or a transaction: the process has not moved.
LEMMA ContractStep ==
  ASSUME OrchIInv, [Next]_vars, IInv', UNCHANGED <<pc, scanned, seen, endBlock, faults>>,
         \/ tx' = tx
         \/ tx = "pending" /\ tx' = "reverted"
         \/ tx = "pending" /\ tx' = "mined" /\ tallies'[0] = [tallied |-> TRUE, result |-> ZeroTally]
  PROVE  OrchIInv'
<1>1. /\ IInv /\ OrchTypeOK /\ NothingMissed /\ MinedMeansTallied
      /\ 0 \in Ids /\ block \in Nat \ {0}
  BY BoundsAssumption DEF OrchIInv, IInv, TypeOK, Ids
<1>2. /\ block' \in Nat \ {0} /\ block' >= block
      /\ \A k \in DOMAIN created' : \/ k \in DOMAIN created /\ created'[k] = created[k]
                                    \/ created'[k].block = block
  BY <1>1, ContractAhead
<1>3. scanned \in Nat /\ scanned < block
  BY <1>1 DEF OrchTypeOK, SealedBlock
<1>4. OrchTypeOK'
  <2>1. SealedBlock' \in Nat /\ SealedBlock' >= SealedBlock
    <3>1. ASSUME NEW b \in Nat \ {0}, NEW c \in Nat \ {0}, c >= b
          PROVE  c - 1 \in Nat /\ c - 1 >= b - 1
      BY <3>1
    <3>2. block \in Nat \ {0} /\ block' \in Nat \ {0} /\ block' >= block
      BY <1>1, <1>2
    <3> QED
      BY <3>1, <3>2 DEF SealedBlock
  <2>2. tx' \in {"none", "pending", "mined", "reverted", "lost"}
    BY <1>1 DEF OrchTypeOK
  <2> QED
    BY <1>1, <2>1, <2>2 DEF OrchTypeOK, SealedBlock
<1>5. NothingMissed'
  BY <1>1, <1>2, <1>3 DEF NothingMissed
<1>6. MinedMeansTallied'
  <2>1. tallies[0].tallied => tallies'[0] = tallies[0]
    BY <1>1, TallyStays
  <2> QED
    BY <1>1, <2>1 DEF MinedMeansTallied
<1> QED
  BY <1>4, <1>5, <1>6 DEF OrchIInv

\* The steps of the process and the faults keep the invariant.
LEMMA ProcessStep ==
  ASSUME OrchIInv, Process \/ Fault
  PROVE  OrchIInv'
<1>1. /\ IInv /\ OrchTypeOK /\ NothingMissed /\ MinedMeansTallied /\ UNCHANGED vars
      /\ UNCHANGED <<block, created, tallies>> /\ SealedBlock \in Nat /\ SealedBlock' = SealedBlock
  BY ProcessKeepsContract DEF OrchIInv, vars, IInv, TypeOK, SealedBlock
<1>2. IInv'
  BY <1>1, StepIInv
<1>3. \A n : CreatedSince(n)' = CreatedSince(n)
  BY <1>1 DEF CreatedSince
<1>4. CASE Scan
  <2> DEFINE logs == CreatedSince(scanned)
  <2>1. /\ pc = "scan" /\ pc' \in {"read", "watch"} /\ UNCHANGED <<endBlock, tx, faults>>
        /\ scanned \in Nat /\ seen \in Nat /\ seen <= SealedBlock /\ scanned <= SealedBlock
    BY <1>1, <1>4 DEF Scan, OrchTypeOK
  <2>2. logs # {} => LastBlock(logs) \in Nat /\ LastBlock(logs) <= SealedBlock
    BY <1>1, <2>1, LastIsSealed
  <2>3. CASE \E l \in logs : l.id = 0
    <3>1. pc' = "read" /\ seen' = LastBlock(logs) /\ scanned' = scanned /\ logs # {}
      BY <1>4, <2>3 DEF Scan
    <3>2. OrchTypeOK'
      BY <1>1, <2>1, <2>2, <3>1 DEF OrchTypeOK
    <3> QED
      BY <1>1, <1>2, <2>1, <3>1, <3>2 DEF OrchIInv, NothingMissed, MinedMeansTallied
  <2>4. CASE ~ \E l \in logs : l.id = 0
    <3>1. /\ pc' = "watch" /\ seen' = seen
          /\ scanned' = IF logs = {} THEN seen ELSE LastBlock(logs)
      BY <1>4, <2>4 DEF Scan
    <3>2. scanned' \in Nat /\ scanned' <= SealedBlock
      BY <2>1, <2>2, <3>1
    <3>3. OrchTypeOK'
      BY <1>1, <2>1, <3>1, <3>2 DEF OrchTypeOK
    <3>4. ASSUME faults = 0, NEW k \in DOMAIN created, created[k].id = 0
          PROVE  created[k].block > scanned'
      <4>1. created[k].block > SealedBlock
        BY <2>1, <2>4, <3>4, ScanCovers
      <4>2. created[k].block \in Nat
        BY <1>1, LogTypes DEF IInv
      <4> QED
        BY <1>1, <3>2, <4>1, <4>2
    <3>5. NothingMissed'
      BY <1>1, <2>1, <3>4 DEF NothingMissed
    <3> QED
      BY <1>1, <1>2, <2>1, <3>1, <3>3, <3>5 DEF OrchIInv, MinedMeansTallied
  <2> QED
    BY <2>3, <2>4
<1>5. CASE Watch
  BY <1>1, <1>2, <1>5 DEF Watch, OrchIInv, OrchTypeOK, NothingMissed, MinedMeansTallied
<1>6. CASE Read
  <2>1. elections[0].end \in Nat
    BY <1>1, BoundsAssumption DEF IInv, TypeOK, Ids
  <2> QED
    BY <1>1, <1>2, <1>6, <2>1 DEF Read, OrchIInv, OrchTypeOK, NothingMissed, MinedMeansTallied
<1>7. CASE Wait \/ Gather \/ Prove \/ Submit \/ Receipt
  BY <1>1, <1>2, <1>7
  DEF Wait, Gather, Prove, Submit, Receipt, OrchIInv, OrchTypeOK, NothingMissed, MinedMeansTallied
<1>8. CASE Fault
  <2>1. faults' \in 0 .. MaxFaults /\ faults' # 0
    BY <1>1, <1>8, OrchAssumption DEF Fault, OrchTypeOK
  <2>2. OrchTypeOK'
    BY <1>1, <1>8, <2>1 DEF Fault, ScanFails, ReadFails, Dies, Lose, OrchTypeOK
  <2>3. MinedMeansTallied'
    BY <1>1, <1>8 DEF Fault, ScanFails, ReadFails, Dies, Lose, MinedMeansTallied
  <2> QED
    BY <1>2, <2>1, <2>2, <2>3 DEF OrchIInv, NothingMissed
<1> QED
  BY <1>4, <1>5, <1>6, <1>7, <1>8 DEF Process

\* A process that starts has seen nothing, and nothing has happened.
LEMMA OrchInitOK == OrchInit => OrchIInv
<1> SUFFICES ASSUME OrchInit PROVE OrchIInv
  OBVIOUS
<1>1. IInv
  BY InitIInv DEF OrchInit
<1>2. OrchTypeOK
  BY <1>1, OrchAssumption DEF OrchInit, OrchTypeOK, IInv, TypeOK, SealedBlock
<1>3. NothingMissed /\ MinedMeansTallied
  BY EmptyDomain DEF OrchInit, Init, NothingMissed, MinedMeansTallied
<1> QED
  BY <1>1, <1>2, <1>3 DEF OrchIInv

\* Every step keeps the invariant.
LEMMA OrchNextOK == OrchIInv /\ [OrchNext]_allVars => OrchIInv'
<1> SUFFICES ASSUME OrchIInv, [OrchNext]_allVars PROVE OrchIInv'
  OBVIOUS
<1>1. [Next]_vars /\ IInv /\ IInv'
  BY StepIsContracts, StepIInv DEF OrchIInv
<1>2. CASE Next /\ UNCHANGED orchVars
  BY <1>1, <1>2, ContractStep DEF orchVars
<1>3. CASE UNCHANGED allVars
  BY <1>1, <1>3, ContractStep DEF allVars, orchVars
<1>4. CASE Execute
  <2>1. CASE TallyVotes(Orch, 0, ZeroTally) /\ tx' = "mined"
    <3>1. tallies'[0] = [tallied |-> TRUE, result |-> ZeroTally]
      BY <1>1, <2>1, BoundsAssumption DEF TallyVotes, RecordTally, IInv, TypeOK, Ids
    <3> QED
      BY <1>1, <1>4, <2>1, <3>1, ContractStep DEF Execute
  <2>2. CASE tx' = "reverted"
    BY <1>1, <1>4, <2>2, ContractStep DEF Execute
  <2> QED
    BY <1>4, <2>1, <2>2 DEF Execute
<1> QED
  BY <1>2, <1>3, <1>4, ProcessStep DEF OrchNext

\* The inductive invariant of the composition.
THEOREM OrchInvariance == OrchSpec => []OrchIInv
  BY OrchInitOK, OrchNextOK, PTL DEF OrchSpec

\* The process remembers only blocks that are sealed.
THEOREM OrchTypeCorrect == OrchSpec => []OrchTypeOK
<1>1. OrchIInv => OrchTypeOK
  BY DEF OrchIInv
<1> QED
  BY <1>1, OrchInvariance, PTL

\* While no call has failed, the watch has not gone past the creation of election 0:
\* logs that appear between its two calls are in a block it has not counted as scanned.
THEOREM WatchMissesNothing == OrchSpec => []NothingMissed
<1>1. OrchIInv => NothingMissed
  BY DEF OrchIInv
<1> QED
  BY <1>1, OrchInvariance, PTL

\* The process reports success only when its own tally of election 0 is recorded,
\* whichever upkeeps and other transactions run beside it.
THEOREM SuccessIsTallied == OrchSpec => []SuccessMeansTallied
<1>1. OrchIInv => SuccessMeansTallied
  BY DEF OrchIInv, MinedMeansTallied, SuccessMeansTallied
<1> QED
  BY <1>1, OrchInvariance, PTL
=============================================================================
