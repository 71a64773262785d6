-------------------------- MODULE ElectionManager --------------------------
(***************************************************************************)
(* contracts/ElectionManagerV2.sol behind its ERC1967 proxy, with the      *)
(* contracts it calls: OwnableUpgradeable, ParticipationBadge, MockMACI    *)
(* and the voting strategy.                                                *)
(*                                                                         *)
(* A transaction is atomic and a failing require reverts it, so each       *)
(* external function is one action whose guard is the conjunction of the   *)
(* requires on its path.  `block' is block.number; any number of           *)
(* transactions share a block.  Init is the state after the proxy's        *)
(* constructor has run initialize().                                       *)
(*                                                                         *)
(* A Groth16 proof is abstracted to the tally pair in its first two        *)
(* public signals: Accepted[s] is the set of pairs for which strategy s    *)
(* has a proof its verifier accepts.  Vote, nonce and credential bytes     *)
(* pass through the contract unread and are left out, and so is the        *)
(* election's metadata hash.                                               *)
(***************************************************************************)
EXTENDS Naturals, Sequences

CONSTANTS Accounts,       \* addresses that send transactions
          NoAccount,      \* address(0)
          Receivers,      \* accounts _safeMint accepts: externally owned, or
                          \* contracts with onERC721Received
          InitialOwner,   \* initialOwner of initialize()
          Implementations, InitialImpl, \* code the proxy may point at
          Strategies,     \* deployed IVotingStrategy contracts
          NoStrategy,     \* IVotingStrategy(address(0))
          Tallies,        \* tally pairs
          ZeroTally,      \* the pair [0, 0], storage's initial value
          Accepted,       \* strategy -> pairs it has an acceptable proof of
          Duration,       \* 1_000_000 in the code
          FirstBlock,     \* block of the deployment
          MaxBlock,       \* bound: blocks mined
          MaxElections,   \* bound: elections created
          MaxMessages     \* bound: messages published

ASSUME BoundsAssumption ==
  /\ Duration \in Nat
  /\ FirstBlock \in Nat \ {0}
  /\ MaxBlock \in Nat
  /\ MaxElections \in Nat
  /\ MaxMessages \in Nat

ASSUME ValuesAssumption ==
  /\ InitialOwner \in Accounts
  /\ NoAccount \notin Accounts
  /\ Receivers \subseteq Accounts
  /\ InitialImpl \in Implementations
  /\ NoStrategy \notin Strategies
  /\ ZeroTally \in Tallies
  /\ Accepted \in [Strategies -> SUBSET Tallies]

\* The last id is never created: requests may name an election that is not there.
Ids == 0 .. MaxElections

VARIABLES
  block,        \* block.number
  owner,        \* OwnableUpgradeable._owner
  impl,         \* the proxy's implementation slot
  elections,    \* _elections: id -> start and end block, zero by default
  strategies,   \* id -> voting strategy
  tallies,      \* id -> TallyResult
  nextId,
  tallied,      \* the flag kept in V1's slot
  result,       \* the pair of the last tally
  created,      \* ElectionCreated events
  inbox,        \* MockMACI's Message events
  badges,       \* BadgeMinted events; badge number i has tokenId i - 1
  tallyLog      \* Tally events

vars == <<block, owner, impl, elections, strategies, tallies, nextId,
          tallied, result, created, inbox, badges, tallyLog>>

electionVars == <<elections, strategies, nextId, created>>
ballotVars   == <<inbox, badges>>
tallyVars    == <<tallies, tallied, result, tallyLog>>
adminVars    == <<owner, impl>>

ElectionEvent == [id : Ids, block : Nat]
MessageEvent  == [sender : Accounts, block : Nat]
BadgeEvent    == [to : Accounts, election : Ids, block : Nat]
TallyEvent    == [id : Ids, result : Tallies, block : Nat]

-----------------------------------------------------------------------------
Init ==
  /\ block      = FirstBlock
  /\ owner      = InitialOwner
  /\ impl       = InitialImpl
  /\ elections  = [id \in Ids |-> [start |-> 0, end |-> 0]]
  /\ strategies = [id \in Ids |-> NoStrategy]
  /\ tallies    = [id \in Ids |-> [tallied |-> FALSE, result |-> ZeroTally]]
  /\ nextId     = 0
  /\ tallied    = FALSE
  /\ result     = ZeroTally
  /\ created    = <<>>
  /\ inbox      = <<>>
  /\ badges     = <<>>
  /\ tallyLog   = <<>>

\* The chain moves on to the next block.
Mine ==
  /\ block < MaxBlock
  /\ block' = block + 1
  /\ UNCHANGED <<electionVars, ballotVars, tallyVars, adminVars>>

\* createElection(meta, strategy); createElection(meta) passes NoStrategy.
CreateElection(caller, strategy) ==
  /\ caller = owner
  /\ nextId < MaxElections
  /\ elections'  = [elections EXCEPT ![nextId] =
                      [start |-> block, end |-> block + Duration]]
  /\ strategies' = [strategies EXCEPT ![nextId] = strategy]
  /\ created'    = Append(created, [id |-> nextId, block |-> block])
  /\ nextId'     = nextId + 1
  /\ UNCHANGED <<block, ballotVars, tallyVars, adminVars>>

\* Mutant: the window is one block too long.
DuringElectionOneMore(id) ==
  /\ block >= elections[id].start
  /\ block <= elections[id].end + 1

\* modifier onlyDuringElection
DuringElection(id) ==
  /\ block >= elections[id].start
  /\ block <= elections[id].end

\* MockMACI.publishMessage only logs, and does so for any caller; a direct
\* caller chooses the bytes, the voter's address among them.
PublishMessage(sender) ==
  /\ Len(inbox) < MaxMessages
  /\ inbox' = Append(inbox, [sender |-> sender, block |-> block])

PublishDirectly(sender) ==
  /\ PublishMessage(sender)
  /\ UNCHANGED <<block, badges, electionVars, tallyVars, adminVars>>

\* ParticipationBadge.safeMint, called by its owner, the manager.
SafeMint(to, id) ==
  /\ to \in Receivers
  /\ badges' = Append(badges, [to |-> to, election |-> id, block |-> block])

EnqueueMessage(voter, id) ==
  /\ DuringElection(id)
  /\ PublishMessage(voter)
  /\ SafeMint(voter, id)
  /\ UNCHANGED <<block, electionVars, tallyVars, adminVars>>

\* Mutant: `already tallied' is not checked.
CanTallyAgain(id, r) ==
  /\ block > elections[id].end
  /\ strategies[id] # NoStrategy
  /\ r \in Accepted[strategies[id]]

\* Mutant: a missing strategy skips the proof instead of reverting.
CanTallyUnproved(id, r) ==
  /\ ~ tallies[id].tallied
  /\ block > elections[id].end
  /\ strategies[id] # NoStrategy => r \in Accepted[strategies[id]]

\* Mutant: the end of the window is not awaited, as in V1's tallyVotes.
CanTallyEarly(id, r) ==
  /\ ~ tallies[id].tallied
  /\ strategies[id] # NoStrategy
  /\ r \in Accepted[strategies[id]]

\* The guard of _tallyVotes for a proof of the pair r.
CanTally(id, r) ==
  /\ ~ tallies[id].tallied
  /\ block > elections[id].end
  /\ strategies[id] # NoStrategy
  /\ r \in Accepted[strategies[id]]

\* Mutant: the getter kept for V1's readers is not written.
RecordTallyKeepResult(id, r) ==
  /\ CanTally(id, r)
  /\ tallies'  = [tallies EXCEPT ![id] = [tallied |-> TRUE, result |-> r]]
  /\ tallyLog' = Append(tallyLog, [id |-> id, result |-> r, block |-> block])
  /\ tallied'  = TRUE
  /\ UNCHANGED <<block, result, electionVars, ballotVars, adminVars>>

\* _tallyVotes
RecordTally(id, r) ==
  /\ CanTally(id, r)
  /\ result'   = r
  /\ tallies'  = [tallies EXCEPT ![id] = [tallied |-> TRUE, result |-> r]]
  /\ tallyLog' = Append(tallyLog, [id |-> id, result |-> r, block |-> block])
  /\ tallied'  = TRUE
  /\ UNCHANGED <<block, electionVars, ballotVars, adminVars>>

TallyVotes(caller, id, r) == caller = owner /\ RecordTally(id, r)

\* Any caller may finish an election through the automation entry point.
PerformUpkeep(id, r) == RecordTally(id, r)

\* Mutant: address(0) is accepted as an owner.
TransferOwnershipUnchecked(caller, newOwner) ==
  /\ caller = owner
  /\ owner' = newOwner
  /\ UNCHANGED <<block, impl, electionVars, ballotVars, tallyVars>>

TransferOwnership(caller, newOwner) ==
  /\ caller = owner
  /\ newOwner # NoAccount
  /\ owner' = newOwner
  /\ UNCHANGED <<block, impl, electionVars, ballotVars, tallyVars>>

\* UUPS upgradeTo, guarded by _authorizeUpgrade
UpgradeTo(caller, newImpl) ==
  /\ caller = owner
  /\ impl' = newImpl
  /\ UNCHANGED <<block, owner, electionVars, ballotVars, tallyVars>>

Next ==
  \/ Mine
  \/ \E a \in Accounts, s \in Strategies \union {NoStrategy} : CreateElection(a, s)
  \/ \E a \in Accounts, id \in Ids : EnqueueMessage(a, id)
  \/ \E a \in Accounts : PublishDirectly(a)
  \/ \E a \in Accounts, id \in Ids, r \in Tallies : TallyVotes(a, id, r)
  \/ \E id \in Ids, r \in Tallies : PerformUpkeep(id, r)
  \/ \E a \in Accounts, b \in Accounts \union {NoAccount} : TransferOwnership(a, b)
  \/ \E a \in Accounts, i \in Implementations : UpgradeTo(a, i)

Spec == Init /\ [][Next]_vars
-----------------------------------------------------------------------------
(***************************************************************************)
(* Properties                                                              *)
(***************************************************************************)

\* The storage and the logs have the types the Solidity declarations give.
TypeOK ==
  /\ block \in Nat \ {0}
  /\ owner \in Accounts
  /\ impl \in Implementations
  /\ elections \in [Ids -> [start : Nat, end : Nat]]
  /\ strategies \in [Ids -> Strategies \union {NoStrategy}]
  /\ tallies \in [Ids -> [tallied : BOOLEAN, result : Tallies]]
  /\ nextId \in Ids
  /\ tallied \in BOOLEAN
  /\ result \in Tallies
  /\ created \in Seq(ElectionEvent)
  /\ inbox \in Seq(MessageEvent)
  /\ badges \in Seq(BadgeEvent)
  /\ tallyLog \in Seq(TallyEvent)

\* An election has at most one Tally event, exactly when its storage says it
\* is tallied, and the event carries the stored pair.  The relay bridges
\* events and the frontend reads storage; _tallyVotes must never let the two
\* disagree, whichever of tallyVotes and performUpkeep came first.
OneTallyPerElection ==
  /\ \A i, j \in DOMAIN tallyLog : tallyLog[i].id = tallyLog[j].id => i = j
  /\ \A id \in Ids : tallies[id].tallied => \E i \in DOMAIN tallyLog : tallyLog[i].id = id
  /\ \A i \in DOMAIN tallyLog :
       tallies[tallyLog[i].id] = [tallied |-> TRUE, result |-> tallyLog[i].result]

\* Every ballot of an election was accepted in a block strictly before the
\* one its tally is recorded in: the windows of enqueueMessage (<= end) and
\* of _tallyVotes (> end) do not meet, even for transactions of one block.
BallotsPrecedeTally ==
  \A i \in DOMAIN badges, j \in DOMAIN tallyLog :
    badges[i].election = tallyLog[j].id => badges[i].block < tallyLog[j].block

\* Only an election that was created, whose window is over, and whose own
\* strategy has an acceptable proof of the recorded pair is ever tallied:
\* ids that were never created have a zero end block and pass the height
\* check, so the strategy check alone keeps them out.
TalliedWithProof ==
  \A id \in Ids : tallies[id].tallied =>
    /\ id < nextId
    /\ block > elections[id].end
    /\ strategies[id] # NoStrategy
    /\ tallies[id].result \in Accepted[strategies[id]]

\* The global `result' getter and the `tallied' flag left over from V1 are
\* those of the last Tally event, across any number of elections.
GlobalResultIsLatest ==
  /\ tallied <=> tallyLog # <<>>
  /\ result = IF tallyLog = <<>> THEN ZeroTally ELSE tallyLog[Len(tallyLog)].result

\* The k-th ElectionCreated event is the event of id k - 1, its block is the
\* start block in storage, and events are in block order.  The orchestrator
\* and the backend find an election by this event and then read the storage.
CreationLogMatchesStorage ==
  /\ Len(created) = nextId
  /\ \A k \in DOMAIN created :
       /\ created[k].id = k - 1
       /\ elections[k - 1] = [start |-> created[k].block,
                              end   |-> created[k].block + Duration]
       /\ \A m \in DOMAIN created : k <= m => created[k].block <= created[m].block

\* Refinement: the contract implements the abstract life cycle.
Phase(id) == IF tallies[id].tallied              THEN "declared"
             ELSE IF id >= nextId                THEN "none"
             ELSE IF block <= elections[id].end  THEN "open"
             ELSE "closed"

Lifecycle == INSTANCE ElectionLifecycle WITH
  Tokens    <- 1 .. MaxMessages,
  Outcomes  <- Tallies,
  phase     <- [id \in Ids |-> Phase(id)],
  ballots   <- [id \in Ids |-> {i \in DOMAIN badges : badges[i].election = id}],
  outcome   <- [id \in Ids |-> IF tallies[id].tallied THEN {tallies[id].result} ELSE {}]

\* Every step of the contract is a step of ElectionLifecycle or leaves it
\* unchanged: windows, tallies and badges keep the promised order.
LifecycleSpec == Lifecycle!Spec
=============================================================================
