----------------------- MODULE ElectionManagerProofs -----------------------
(***************************************************************************)
(* Machine-checked proofs about ElectionManager, for every value of its    *)
(* constants: type correctness, the inductive invariant behind the safety  *)
(* properties, and the refinement of ElectionLifecycle.                    *)
(***************************************************************************)
EXTENDS ElectionManager, SequenceTheorems, TLAPS

-----------------------------------------------------------------------------
(* The inductive invariant, by parts. *)

\* What storage holds for an id that was never created.
Uncreated ==
  \A id \in Ids : id >= nextId =>
    /\ elections[id] = [start |-> 0, end |-> 0]
    /\ strategies[id] = NoStrategy
    /\ ~ tallies[id].tallied

\* An accepted ballot's block is not after the end of its election.
BallotWindow ==
  \A i \in DOMAIN badges :
    /\ badges[i].election < nextId
    /\ badges[i].block <= elections[badges[i].election].end

\* A tally's block is after the end of its election, and has been mined.
TallyWindow ==
  \A j \in DOMAIN tallyLog :
    /\ tallyLog[j].id < nextId
    /\ elections[tallyLog[j].id].end < tallyLog[j].block
    /\ tallyLog[j].block <= block

\* Events in the creation log are not ahead of the chain.
CreatedBefore == \A k \in DOMAIN created : created[k].block <= block

\* Badges are bounded by messages, and messages by the model's bound.
Counted == Len(badges) <= Len(inbox) /\ Len(inbox) <= MaxMessages

IInv ==
  /\ TypeOK
  /\ Uncreated
  /\ BallotWindow
  /\ TallyWindow
  /\ CreatedBefore
  /\ Counted
  /\ OneTallyPerElection
  /\ TalliedWithProof
  /\ GlobalResultIsLatest
  /\ CreationLogMatchesStorage

-----------------------------------------------------------------------------
(* What Append does to a sequence, in the form the steps below use. *)
LEMMA AppendFacts ==
  ASSUME NEW S, NEW s \in Seq(S), NEW e \in S
  PROVE  /\ Append(s, e) \in Seq(S)
         /\ Len(Append(s, e)) = Len(s) + 1
         /\ DOMAIN Append(s, e) = DOMAIN s \union {Len(s) + 1}
         /\ Len(s) + 1 \notin DOMAIN s
         /\ Append(s, e)[Len(s) + 1] = e
         /\ \A i \in DOMAIN s : Append(s, e)[i] = s[i]
         /\ Append(s, e) # <<>>
         /\ Len(s) \in Nat
         /\ DOMAIN s = 1 .. Len(s)
OBVIOUS

(* The entries of a log have the type of the log. *)
LEMMA ElementFacts ==
  ASSUME NEW S, NEW s \in Seq(S)
  PROVE  \A i \in DOMAIN s : s[i] \in S
OBVIOUS

\* The logs start empty.
LEMMA EmptyDomain == DOMAIN <<>> = {}
OBVIOUS

\* What is read of a log entry has its type.
LEMMA LogTypes ==
  ASSUME TypeOK
  PROVE  /\ \A k \in DOMAIN created : created[k].id \in Ids /\ created[k].block \in Nat
         /\ \A i \in DOMAIN badges : badges[i].election \in Ids /\ badges[i].block \in Nat
         /\ \A j \in DOMAIN tallyLog : /\ tallyLog[j].id \in Ids
                                       /\ tallyLog[j].block \in Nat
                                       /\ tallyLog[j].result \in Tallies
<1>1. \A k \in DOMAIN created : created[k] \in ElectionEvent
  BY ElementFacts DEF TypeOK
<1>2. \A i \in DOMAIN badges : badges[i] \in BadgeEvent
  BY ElementFacts DEF TypeOK
<1>3. \A j \in DOMAIN tallyLog : tallyLog[j] \in TallyEvent
  BY ElementFacts DEF TypeOK
<1> QED
  BY <1>1, <1>2, <1>3 DEF ElectionEvent, BadgeEvent, TallyEvent

\* A deployed manager has its types.
LEMMA InitTypeOK == Init => TypeOK
BY BoundsAssumption, ValuesAssumption DEF Init, TypeOK, Ids

\* Every call keeps the types.
LEMMA StepTypeOK == TypeOK /\ [Next]_vars => TypeOK'
<1> SUFFICES ASSUME TypeOK, [Next]_vars PROVE TypeOK'
  OBVIOUS
<1> USE BoundsAssumption, ValuesAssumption DEF TypeOK
<1>1. CASE Mine
  BY <1>1 DEF Mine, electionVars, ballotVars, tallyVars, adminVars
<1>2. ASSUME NEW a \in Accounts, NEW s \in Strategies \union {NoStrategy},
             CreateElection(a, s)
      PROVE  TypeOK'
  <2>1. [id |-> nextId, block |-> block] \in ElectionEvent
    BY DEF ElectionEvent
  <2>2. created' \in Seq(ElectionEvent)
    BY <1>2, <2>1 DEF CreateElection
  <2>3. nextId' \in Ids /\ elections' \in [Ids -> [start : Nat, end : Nat]]
    BY <1>2 DEF CreateElection, Ids
  <2> QED
    BY <1>2, <2>2, <2>3 DEF CreateElection, ballotVars, tallyVars, adminVars
<1>3. ASSUME NEW a \in Accounts, NEW id \in Ids, EnqueueMessage(a, id)
      PROVE  TypeOK'
  <2>1. inbox' \in Seq(MessageEvent)
    BY <1>3 DEF EnqueueMessage, PublishMessage, MessageEvent
  <2>2. badges' \in Seq(BadgeEvent)
    BY <1>3 DEF EnqueueMessage, SafeMint, BadgeEvent
  <2> QED
    BY <1>3, <2>1, <2>2 DEF EnqueueMessage, electionVars, tallyVars, adminVars
<1>4. ASSUME NEW a \in Accounts, PublishDirectly(a)
      PROVE  TypeOK'
  <2>1. inbox' \in Seq(MessageEvent)
    BY <1>4 DEF PublishDirectly, PublishMessage, MessageEvent
  <2> QED
    BY <1>4, <2>1 DEF PublishDirectly, electionVars, tallyVars, adminVars
<1>5. ASSUME NEW id \in Ids, NEW r \in Tallies, RecordTally(id, r)
      PROVE  TypeOK'
  <2>1. tallyLog' \in Seq(TallyEvent)
    BY <1>5 DEF RecordTally, TallyEvent
  <2>2. tallies' \in [Ids -> [tallied : BOOLEAN, result : Tallies]]
    BY <1>5 DEF RecordTally
  <2> QED
    BY <1>5, <2>1, <2>2 DEF RecordTally, electionVars, ballotVars, adminVars
<1>6. ASSUME NEW a \in Accounts, NEW b \in Accounts \union {NoAccount},
             TransferOwnership(a, b)
      PROVE  TypeOK'
  BY <1>6 DEF TransferOwnership, electionVars, ballotVars, tallyVars
<1>7. ASSUME NEW a \in Accounts, NEW i \in Implementations, UpgradeTo(a, i)
      PROVE  TypeOK'
  BY <1>7 DEF UpgradeTo, electionVars, ballotVars, tallyVars
<1>8. CASE UNCHANGED vars
  BY <1>8 DEF vars
<1> QED
  BY <1>1, <1>2, <1>3, <1>4, <1>5, <1>6, <1>7, <1>8
     DEF Next, TallyVotes, PerformUpkeep

(***************************************************************************)
(* Type correctness: storage and logs keep the types of the declarations   *)
(* of ElectionManagerV2 and of the events it emits.                        *)
(***************************************************************************)
THEOREM TypeCorrect == Spec => []TypeOK
BY InitTypeOK, StepTypeOK, PTL DEF Spec

-----------------------------------------------------------------------------
(* IInv holds initially and is preserved by each action. *)
LEMMA InitIInv == Init => IInv
<1> SUFFICES ASSUME Init PROVE IInv
  OBVIOUS
<1>1. TypeOK
  BY InitTypeOK
<1>2. DOMAIN created = {} /\ DOMAIN badges = {} /\ DOMAIN tallyLog = {}
  <2>1. created = <<>> /\ badges = <<>> /\ tallyLog = <<>>
    BY DEF Init
  <2> QED
    BY <2>1, EmptyDomain
<1>3. Uncreated /\ Counted /\ GlobalResultIsLatest
  BY BoundsAssumption DEF Init, Uncreated, Counted, GlobalResultIsLatest
<1>4. BallotWindow /\ TallyWindow /\ CreatedBefore
  BY <1>2 DEF BallotWindow, TallyWindow, CreatedBefore
<1>5. OneTallyPerElection /\ TalliedWithProof /\ CreationLogMatchesStorage
  BY <1>2 DEF Init, OneTallyPerElection, TalliedWithProof, CreationLogMatchesStorage
<1> QED
  BY <1>1, <1>3, <1>4, <1>5 DEF IInv

\* A block: no log grows, and every window is where it was.
LEMMA MinePreserves == IInv /\ TypeOK' /\ Mine => IInv'
<1> SUFFICES ASSUME IInv, TypeOK', Mine PROVE IInv'
  OBVIOUS
<1> USE DEF IInv
<1>1. block' = block + 1 /\ block \in Nat /\ block' \in Nat
  BY DEF Mine, TypeOK
<1>2. UNCHANGED <<elections, strategies, nextId, created, inbox, badges, tallies,
                  tallied, result, tallyLog, owner, impl>>
  BY DEF Mine, electionVars, ballotVars, tallyVars, adminVars
<1>3. Uncreated' /\ BallotWindow' /\ Counted' /\ OneTallyPerElection'
      /\ GlobalResultIsLatest' /\ CreationLogMatchesStorage'
  BY <1>2 DEF Uncreated, BallotWindow, Counted, OneTallyPerElection,
              GlobalResultIsLatest, CreationLogMatchesStorage
<1>4. TallyWindow'
  <2>1. \A j \in DOMAIN tallyLog : tallyLog[j].block \in Nat
    BY LogTypes
  <2> QED
    BY <1>1, <1>2, <2>1 DEF TallyWindow
<1>5. CreatedBefore'
  <2>1. \A k \in DOMAIN created : created[k].block \in Nat
    BY LogTypes
  <2> QED
    BY <1>1, <1>2, <2>1 DEF CreatedBefore
<1>6. TalliedWithProof'
  <2>1. \A id \in Ids : elections[id].end \in Nat
    BY DEF TypeOK
  <2> QED
    BY <1>1, <1>2, <2>1 DEF TalliedWithProof
<1> QED
  BY <1>3, <1>4, <1>5, <1>6

\* A creation: its id is fresh, so no log speaks of it yet.
LEMMA CreatePreserves ==
  ASSUME IInv, TypeOK', NEW a \in Accounts, NEW s \in Strategies \union {NoStrategy},
         CreateElection(a, s)
  PROVE  IInv'
<1> USE DEF IInv
<1> DEFINE e == [start |-> block, end |-> block + Duration]
<1>1. /\ nextId \in Ids /\ nextId \in Nat /\ nextId' = nextId + 1
      /\ block \in Nat /\ Duration \in Nat /\ block' = block
      /\ elections' = [elections EXCEPT ![nextId] = e]
      /\ strategies' = [strategies EXCEPT ![nextId] = s]
      /\ elections'[nextId] = e
      /\ \A id \in Ids : id # nextId => /\ elections'[id] = elections[id]
                                        /\ strategies'[id] = strategies[id]
  BY BoundsAssumption DEF CreateElection, TypeOK, Ids
<1>2. UNCHANGED <<block, inbox, badges, tallies, tallied, result, tallyLog, owner, impl>>
  BY DEF CreateElection, ballotVars, tallyVars, adminVars
<1>3. ~ tallies[nextId].tallied
  BY <1>1 DEF Uncreated
<1>4. Uncreated'
  BY <1>1, <1>2 DEF Uncreated, Ids
<1>5. BallotWindow'
  <2>1. \A i \in DOMAIN badges : badges[i].election \in Ids
    BY LogTypes
  <2> QED
    BY <1>1, <1>2, <2>1 DEF BallotWindow, Ids
<1>6. TallyWindow'
  <2>1. \A j \in DOMAIN tallyLog : tallyLog[j].id \in Ids
    BY LogTypes
  <2> QED
    BY <1>1, <1>2, <2>1 DEF TallyWindow, Ids
<1>7. Counted' /\ OneTallyPerElection' /\ GlobalResultIsLatest'
  BY <1>2 DEF Counted, OneTallyPerElection, GlobalResultIsLatest
<1>8. TalliedWithProof'
  BY <1>1, <1>2, <1>3 DEF TalliedWithProof, Ids
<1>9. CreatedBefore' /\ CreationLogMatchesStorage'
  <2> DEFINE ev == [id |-> nextId, block |-> block]
  <2>1. ev \in ElectionEvent /\ created \in Seq(ElectionEvent) /\ created' = Append(created, ev)
    BY <1>1 DEF ElectionEvent, CreateElection, TypeOK
  <2>2. /\ Len(created) = nextId
        /\ Len(created') = nextId + 1
        /\ DOMAIN created' = DOMAIN created \union {nextId + 1}
        /\ DOMAIN created = 1 .. nextId
        /\ created'[nextId + 1] = ev
        /\ \A i \in DOMAIN created : created'[i] = created[i]
    BY <2>1, AppendFacts DEF CreationLogMatchesStorage
  <2>3. CreatedBefore'
    BY <1>1, <2>2 DEF CreatedBefore
  <2>4. ASSUME NEW k \in DOMAIN created'
        PROVE  /\ created'[k].id = k - 1
               /\ elections'[k - 1] = [start |-> created'[k].block,
                                       end   |-> created'[k].block + Duration]
    <3>1. CASE k = nextId + 1
      BY <3>1, <1>1, <2>2
    <3>2. CASE k \in DOMAIN created
      <4>1. k \in 1 .. nextId /\ k - 1 \in Ids /\ k - 1 # nextId
        BY <3>2, <2>2, <1>1, BoundsAssumption DEF Ids
      <4> QED
        BY <3>2, <4>1, <1>1, <2>2 DEF CreationLogMatchesStorage
    <3> QED
      BY <3>1, <3>2, <2>2
  <2>5. ASSUME NEW k \in DOMAIN created', NEW m \in DOMAIN created', k <= m
        PROVE  created'[k].block <= created'[m].block
    <3>1. CASE m \in DOMAIN created
      <4>1. k \in DOMAIN created
        BY <2>5, <3>1, <2>2, <1>1
      <4> QED
        BY <2>5, <3>1, <4>1, <2>2 DEF CreationLogMatchesStorage
    <3>2. CASE m = nextId + 1 /\ k \in DOMAIN created
      BY <3>2, <2>2 DEF CreatedBefore
    <3>3. CASE m = nextId + 1 /\ k = nextId + 1
      BY <3>3, <1>1, <2>2
    <3> QED
      BY <3>1, <3>2, <3>3, <2>2
  <2> QED
    BY <1>1, <2>2, <2>3, <2>4, <2>5 DEF CreationLogMatchesStorage
<1> QED
  BY <1>4, <1>5, <1>6, <1>7, <1>8, <1>9

\* A ballot: it is cast inside the window that its entry records.
LEMMA EnqueuePreserves ==
  ASSUME IInv, TypeOK', NEW a \in Accounts, NEW id \in Ids, EnqueueMessage(a, id)
  PROVE  IInv'
<1> USE DEF IInv
<1> DEFINE e == [to |-> a, election |-> id, block |-> block]
<1>1. UNCHANGED <<block, elections, strategies, nextId, created, tallies, tallied,
                  result, tallyLog, owner, impl>>
  BY DEF EnqueueMessage, electionVars, tallyVars, adminVars
<1>2. /\ DOMAIN badges' = DOMAIN badges \union {Len(badges) + 1}
      /\ Len(badges') = Len(badges) + 1
      /\ badges'[Len(badges) + 1] = e
      /\ \A i \in DOMAIN badges : badges'[i] = badges[i]
  <2>1. e \in BadgeEvent /\ badges \in Seq(BadgeEvent) /\ badges' = Append(badges, e)
    BY DEF EnqueueMessage, SafeMint, BadgeEvent, TypeOK
  <2> QED
    BY <2>1, AppendFacts
<1>3. /\ Len(inbox) < MaxMessages
      /\ Len(inbox') = Len(inbox) + 1
      /\ Len(inbox) \in Nat
      /\ Len(badges) \in Nat
  <2> DEFINE m == [sender |-> a, block |-> block]
  <2>1. m \in MessageEvent /\ inbox \in Seq(MessageEvent) /\ inbox' = Append(inbox, m)
    BY DEF EnqueueMessage, PublishMessage, MessageEvent, TypeOK
  <2>2. Len(inbox) < MaxMessages
    BY DEF EnqueueMessage, PublishMessage
  <2>3. badges \in Seq(BadgeEvent)
    BY DEF TypeOK
  <2> QED
    BY <2>1, <2>2, <2>3, AppendFacts
\* The window of an id that was never created is [0, 0], and block 0 is past.
<1>4. id < nextId /\ block <= elections[id].end
  <2>1. block <= elections[id].end
    BY DEF EnqueueMessage, DuringElection
  <2>2. block > 0 /\ nextId \in Nat /\ id \in Nat
    BY DEF TypeOK, Ids
  <2>3. CASE id >= nextId
    <3>1. elections[id] = [start |-> 0, end |-> 0]
      BY <2>3 DEF Uncreated
    <3> QED
      BY <3>1, <2>1, <2>2 DEF TypeOK
  <2> QED
    BY <2>1, <2>2, <2>3
<1>5. Uncreated' /\ TallyWindow' /\ CreatedBefore' /\ OneTallyPerElection'
      /\ TalliedWithProof' /\ GlobalResultIsLatest' /\ CreationLogMatchesStorage'
  BY <1>1 DEF Uncreated, TallyWindow, CreatedBefore, OneTallyPerElection,
              TalliedWithProof, GlobalResultIsLatest, CreationLogMatchesStorage
<1>6. Counted'
  BY <1>2, <1>3, BoundsAssumption DEF Counted
<1>7. BallotWindow'
  BY <1>1, <1>2, <1>4 DEF BallotWindow
<1> QED
  BY <1>5, <1>6, <1>7

\* A message to the registry that bypasses the manager: no badge, no election.
LEMMA PublishPreserves ==
  ASSUME IInv, TypeOK', NEW a \in Accounts, PublishDirectly(a)
  PROVE  IInv'
<1> USE DEF IInv
<1>1. UNCHANGED <<block, elections, strategies, nextId, created, badges, tallies,
                  tallied, result, tallyLog, owner, impl>>
  BY DEF PublishDirectly, electionVars, tallyVars, adminVars
<1>2. Counted'
  <2> DEFINE m == [sender |-> a, block |-> block]
  <2>1. m \in MessageEvent /\ inbox \in Seq(MessageEvent) /\ inbox' = Append(inbox, m)
    BY DEF PublishDirectly, PublishMessage, MessageEvent, TypeOK
  <2>2. Len(inbox) < MaxMessages
    BY DEF PublishDirectly, PublishMessage
  <2>3. badges \in Seq(BadgeEvent)
    BY DEF TypeOK
  <2>4. Len(inbox') = Len(inbox) + 1 /\ Len(inbox) \in Nat /\ Len(badges) \in Nat
    BY <2>1, <2>3, AppendFacts
  <2> QED
    BY <1>1, <2>2, <2>4, BoundsAssumption DEF Counted
<1> QED
  BY <1>1, <1>2 DEF Uncreated, BallotWindow, TallyWindow, CreatedBefore,
     OneTallyPerElection, TalliedWithProof, GlobalResultIsLatest, CreationLogMatchesStorage

\* A tally: the election is over, and was not tallied before.
LEMMA TallyPreserves ==
  ASSUME IInv, TypeOK', NEW id \in Ids, NEW r \in Tallies, RecordTally(id, r)
  PROVE  IInv'
<1> USE DEF IInv
<1> DEFINE n == Len(tallyLog) + 1
           e == [id |-> id, result |-> r, block |-> block]
           t == [tallied |-> TRUE, result |-> r]
<1>1. UNCHANGED <<block, elections, strategies, nextId, created, inbox, badges, owner, impl>>
  BY DEF RecordTally, electionVars, ballotVars, adminVars
<1>2. /\ ~ tallies[id].tallied
      /\ block > elections[id].end
      /\ strategies[id] # NoStrategy
      /\ r \in Accepted[strategies[id]]
      /\ result' = r /\ tallied' = TRUE
  BY DEF RecordTally, CanTally
<1>3. /\ tallies' = [tallies EXCEPT ![id] = t]
      /\ tallies'[id] = t
      /\ \A j \in Ids : j # id => tallies'[j] = tallies[j]
  BY DEF RecordTally, TypeOK
<1>4. /\ DOMAIN tallyLog' = DOMAIN tallyLog \union {n}
      /\ n \notin DOMAIN tallyLog
      /\ Len(tallyLog') = n
      /\ tallyLog'[n] = e
      /\ \A i \in DOMAIN tallyLog : tallyLog'[i] = tallyLog[i]
      /\ tallyLog' # <<>>
  <2>1. e \in TallyEvent /\ tallyLog \in Seq(TallyEvent) /\ tallyLog' = Append(tallyLog, e)
    BY DEF RecordTally, TallyEvent, TypeOK
  <2> QED
    BY <2>1, AppendFacts
\* Ids that were never created have no strategy.
<1>5. id < nextId
  <2>1. id \in Nat /\ nextId \in Nat
    BY BoundsAssumption DEF TypeOK, Ids
  <2> QED
    BY <1>2, <2>1 DEF Uncreated
<1>6. \A i \in DOMAIN tallyLog : tallyLog[i].id \in Ids /\ tallyLog[i].id # id
  <2>1. \A i \in DOMAIN tallyLog : tallyLog[i].id \in Ids
    BY LogTypes
  <2>2. \A i \in DOMAIN tallyLog : tallies[tallyLog[i].id].tallied
    <3> TAKE i \in DOMAIN tallyLog
    <3>1. tallies[tallyLog[i].id] = [tallied |-> TRUE, result |-> tallyLog[i].result]
      BY DEF OneTallyPerElection
    <3> QED
      BY <3>1
  <2> QED
    BY <1>2, <2>1, <2>2
<1>7. Uncreated'
  BY <1>1, <1>3, <1>5 DEF Uncreated, TypeOK, Ids
<1>8. BallotWindow' /\ CreatedBefore' /\ Counted' /\ CreationLogMatchesStorage'
  BY <1>1 DEF BallotWindow, CreatedBefore, Counted, CreationLogMatchesStorage
<1>9. TallyWindow'
  BY <1>1, <1>2, <1>4, <1>5 DEF TallyWindow, TypeOK
<1>10. OneTallyPerElection'
  <2>1. \A i, j \in DOMAIN tallyLog' : tallyLog'[i].id = tallyLog'[j].id => i = j
    BY <1>4, <1>6 DEF OneTallyPerElection
  <2>2. \A x \in Ids : tallies'[x].tallied => \E i \in DOMAIN tallyLog' : tallyLog'[i].id = x
    BY <1>3, <1>4 DEF OneTallyPerElection
  <2>3. \A i \in DOMAIN tallyLog' :
          tallies'[tallyLog'[i].id] = [tallied |-> TRUE, result |-> tallyLog'[i].result]
    <3> SUFFICES ASSUME NEW i \in DOMAIN tallyLog'
                 PROVE  tallies'[tallyLog'[i].id] =
                          [tallied |-> TRUE, result |-> tallyLog'[i].result]
      OBVIOUS
    <3>1. CASE i = n
      BY <3>1, <1>3, <1>4
    <3>2. CASE i \in DOMAIN tallyLog
      BY <3>2, <1>3, <1>4, <1>6 DEF OneTallyPerElection
    <3> QED
      BY <3>1, <3>2, <1>4
  <2> QED
    BY <2>1, <2>2, <2>3 DEF OneTallyPerElection
<1>11. TalliedWithProof'
  BY <1>1, <1>2, <1>3, <1>5 DEF TalliedWithProof
<1>12. GlobalResultIsLatest'
  BY <1>2, <1>4 DEF GlobalResultIsLatest
<1> QED
  BY <1>7, <1>8, <1>9, <1>10, <1>11, <1>12

\* Calls that touch no election and no log.
LEMMA AdminPreserves ==
  ASSUME IInv, TypeOK',
         UNCHANGED <<block, elections, strategies, nextId, created, inbox, badges,
                     tallies, tallied, result, tallyLog>>
  PROVE  IInv'
BY DEF IInv, Uncreated, BallotWindow, TallyWindow, CreatedBefore, Counted,
       OneTallyPerElection, TalliedWithProof, GlobalResultIsLatest, CreationLogMatchesStorage

\* Every call keeps the invariant.
LEMMA StepIInv == IInv /\ [Next]_vars => IInv'
<1> SUFFICES ASSUME IInv, [Next]_vars PROVE IInv'
  OBVIOUS
<1>0. TypeOK'
  BY StepTypeOK DEF IInv
<1>1. CASE Mine
  BY <1>0, <1>1, MinePreserves
<1>2. ASSUME NEW a \in Accounts, NEW s \in Strategies \union {NoStrategy},
             CreateElection(a, s)
      PROVE  IInv'
  BY <1>0, <1>2, CreatePreserves
<1>3. ASSUME NEW a \in Accounts, NEW id \in Ids, EnqueueMessage(a, id)
      PROVE  IInv'
  BY <1>0, <1>3, EnqueuePreserves
<1>4. ASSUME NEW a \in Accounts, PublishDirectly(a)
      PROVE  IInv'
  BY <1>0, <1>4, PublishPreserves
<1>5. ASSUME NEW id \in Ids, NEW r \in Tallies, RecordTally(id, r)
      PROVE  IInv'
  BY <1>0, <1>5, TallyPreserves
<1>6. ASSUME NEW a \in Accounts, NEW b \in Accounts \union {NoAccount},
             TransferOwnership(a, b)
      PROVE  IInv'
  BY <1>0, <1>6, AdminPreserves
     DEF TransferOwnership, electionVars, ballotVars, tallyVars
<1>7. ASSUME NEW a \in Accounts, NEW i \in Implementations, UpgradeTo(a, i)
      PROVE  IInv'
  BY <1>0, <1>7, AdminPreserves DEF UpgradeTo, electionVars, ballotVars, tallyVars
<1>8. CASE UNCHANGED vars
  BY <1>0, <1>8, AdminPreserves DEF vars
<1> QED
  BY <1>1, <1>2, <1>3, <1>4, <1>5, <1>6, <1>7, <1>8
     DEF Next, TallyVotes, PerformUpkeep

(***************************************************************************)
(* The inductive invariant holds in every reachable state; the safety      *)
(* theorems below are read off it.                                         *)
(***************************************************************************)
THEOREM Invariance == Spec => []IInv
BY InitIInv, StepIInv, PTL DEF Spec

(***************************************************************************)
(* No ballot is accepted in or after the block of its election's tally:    *)
(* the end block separates them.                                           *)
(***************************************************************************)
LEMMA WindowsDoNotMeet == IInv => BallotsPrecedeTally
<1> SUFFICES ASSUME IInv, NEW i \in DOMAIN badges, NEW j \in DOMAIN tallyLog,
                    badges[i].election = tallyLog[j].id
             PROVE  badges[i].block < tallyLog[j].block
  BY DEF BallotsPrecedeTally
<1>1. /\ badges[i].block <= elections[badges[i].election].end
      /\ elections[tallyLog[j].id].end < tallyLog[j].block
  BY DEF IInv, BallotWindow, TallyWindow
<1>2. badges[i].block \in Nat /\ tallyLog[j].block \in Nat /\ tallyLog[j].id \in Ids
  BY LogTypes DEF IInv
<1>3. elections[tallyLog[j].id].end \in Nat
  BY <1>2 DEF IInv, TypeOK
<1> QED
  BY <1>1, <1>2, <1>3

\* In every reachable state the ballots of an election are in blocks before its tally's:
\* enqueueMessage and tallyVotes never both succeed in one block.
THEOREM BallotsBeforeTally == Spec => []BallotsPrecedeTally
BY Invariance, WindowsDoNotMeet, PTL

(***************************************************************************)
(* _tallyVotes runs to its end at most once per election, and storage and  *)
(* Tally events agree for ever.                                            *)
(***************************************************************************)
THEOREM TalliedOnce == Spec => []OneTallyPerElection
<1>1. IInv => OneTallyPerElection
  BY DEF IInv
<1> QED
  BY <1>1, Invariance, PTL

(***************************************************************************)
(* Only a created, closed election with a proof its own strategy accepts   *)
(* is tallied, whoever called and through whichever entry point.           *)
(***************************************************************************)
THEOREM TallyNeedsProof == Spec => []TalliedWithProof
<1>1. IInv => TalliedWithProof
  BY DEF IInv
<1> QED
  BY <1>1, Invariance, PTL

(***************************************************************************)
(* V1's `result' and `tallied' getters, kept in their slots, are those of  *)
(* the last Tally event.                                                   *)
(***************************************************************************)
THEOREM ResultIsLatest == Spec => []GlobalResultIsLatest
<1>1. IInv => GlobalResultIsLatest
  BY DEF IInv
<1> QED
  BY <1>1, Invariance, PTL

(***************************************************************************)
(* ElectionCreated events are numbered without gaps, in block order, and   *)
(* tell the start block that storage holds.                                *)
(***************************************************************************)
THEOREM CreationLogFaithful == Spec => []CreationLogMatchesStorage
<1>1. IInv => CreationLogMatchesStorage
  BY DEF IInv
<1> QED
  BY <1>1, Invariance, PTL

-----------------------------------------------------------------------------
(* Refinement of ElectionLifecycle: one lemma per kind of step. *)

PhaseMap   == [id \in Ids |-> Phase(id)]
BallotMap  == [id \in Ids |-> {i \in DOMAIN badges : badges[i].election = id}]
OutcomeMap == [id \in Ids |-> IF tallies[id].tallied THEN {tallies[id].result} ELSE {}]

\* Two functions that agree everywhere but at a.
LEMMA ExceptAt ==
  ASSUME NEW S, NEW f, NEW g, NEW a \in S, NEW v,
         f = [x \in S |-> f[x]], g = [x \in S |-> g[x]],
         g[a] = v, \A x \in S : x # a => g[x] = f[x]
  PROVE  g = [f EXCEPT ![a] = v]
OBVIOUS

\* A new manager is a lifecycle with no election.
LEMMA InitRefines == Init => Lifecycle!Init
<1> SUFFICES ASSUME Init PROVE Lifecycle!Init
  OBVIOUS
<1>1. \A id \in Ids : Phase(id) = "none"
  BY BoundsAssumption DEF Init, Phase, Ids
<1>2. \A id \in Ids : ~ tallies[id].tallied
  BY DEF Init
<1>3. DOMAIN badges = {}
  BY EmptyDomain DEF Init
<1> QED
  BY <1>1, <1>2, <1>3 DEF Lifecycle!Init

\* A block is the clock of the lifecycle.
LEMMA MineRefines ==
  ASSUME IInv, Mine
  PROVE  Lifecycle!Next
<1>1. UNCHANGED <<elections, nextId, badges, tallies>> /\ block' = block + 1
  BY DEF Mine, electionVars, ballotVars, tallyVars
<1>2. block \in Nat /\ \A id \in Ids : elections[id].end \in Nat
  BY DEF IInv, TypeOK
<1> DEFINE S == {id \in Ids : Phase(id) = "open" /\ elections[id].end = block}
<1>3. \A id \in Ids : Phase(id)' = IF id \in S THEN "closed" ELSE Phase(id)
  BY <1>1, <1>2 DEF Phase
<1>4. Lifecycle!Close(S)
  BY <1>1, <1>3 DEF Lifecycle!Close
<1>5. S \in SUBSET Ids
  OBVIOUS
<1> QED
  BY <1>4, <1>5 DEF Lifecycle!Next

\* createElection is the lifecycle's Create.
LEMMA CreateRefines ==
  ASSUME IInv, NEW a \in Accounts, NEW s \in Strategies \union {NoStrategy},
         CreateElection(a, s)
  PROVE  Lifecycle!Next
<1>1. UNCHANGED <<block, badges, tallies>>
  BY DEF CreateElection, ballotVars, tallyVars
<1>2. /\ nextId \in Ids /\ nextId \in Nat /\ nextId' = nextId + 1
      /\ block \in Nat /\ Duration \in Nat
      /\ elections'[nextId].end = block + Duration
      /\ \A id \in Ids : id # nextId => elections'[id] = elections[id]
      /\ \A id \in Ids : id \in Nat
  BY BoundsAssumption DEF IInv, CreateElection, TypeOK, Ids
\* The new id, as a value that the step does not change.
<1> PICK n \in Ids : n = nextId
  BY <1>2
<1>3. ~ tallies[n].tallied
  BY <1>2 DEF IInv, Uncreated
<1>4. Phase(n) = "none" /\ Phase(n)' = "open"
  BY <1>1, <1>2, <1>3 DEF Phase
<1>5. \A id \in Ids : id # n => Phase(id)' = Phase(id)
  BY <1>1, <1>2 DEF Phase
<1>6. \A j \in Ids : j < n => Phase(j) # "none"
  BY <1>2 DEF Phase
<1>7. Lifecycle!Open(n)
  <2>1. PhaseMap' = [PhaseMap EXCEPT ![n] = "open"]
    <3>1. /\ PhaseMap = [id \in Ids |-> PhaseMap[id]]
          /\ PhaseMap' = [id \in Ids |-> PhaseMap'[id]]
          /\ \A id \in Ids : PhaseMap[id] = Phase(id) /\ PhaseMap'[id] = Phase(id)'
      BY DEF PhaseMap
    <3> QED
      BY <1>4, <1>5, <3>1, ExceptAt
  <2>2. BallotMap' = BallotMap /\ OutcomeMap' = OutcomeMap
    BY <1>1 DEF BallotMap, OutcomeMap
  <2> QED
    BY <1>4, <1>6, <2>1, <2>2 DEF Lifecycle!Open, PhaseMap, BallotMap, OutcomeMap
<1> QED
  BY <1>7 DEF Lifecycle!Next

\* enqueueMessage is the lifecycle's ballot.
LEMMA EnqueueRefines ==
  ASSUME IInv, NEW a \in Accounts, NEW id \in Ids, EnqueueMessage(a, id)
  PROVE  Lifecycle!Next
<1> DEFINE n == Len(badges) + 1
           e == [to |-> a, election |-> id, block |-> block]
<1>1. UNCHANGED <<block, elections, nextId, tallies>>
  BY DEF EnqueueMessage, electionVars, tallyVars
<1>2. /\ DOMAIN badges' = DOMAIN badges \union {n}
      /\ n \notin DOMAIN badges
      /\ badges'[n] = e
      /\ \A i \in DOMAIN badges : badges'[i] = badges[i]
      /\ Len(badges) \in Nat
  <2>1. e \in BadgeEvent /\ badges \in Seq(BadgeEvent) /\ badges' = Append(badges, e)
    BY DEF IInv, EnqueueMessage, SafeMint, BadgeEvent, TypeOK
  <2> QED
    BY <2>1, AppendFacts
<1>3. n \in 1 .. MaxMessages
  <2>1. Len(inbox) < MaxMessages /\ Len(badges) <= Len(inbox)
    BY DEF IInv, EnqueueMessage, PublishMessage, Counted
  <2>2. Len(inbox) \in Nat
    BY DEF IInv, TypeOK
  <2> QED
    BY <1>2, <2>1, <2>2, BoundsAssumption
<1>4. Phase(id) = "open"
  <2>1. block <= elections[id].end /\ block > 0 /\ nextId \in Nat /\ id \in Nat
    BY DEF IInv, TypeOK, Ids, EnqueueMessage, DuringElection
  <2>2. id < nextId
    <3>1. CASE id >= nextId
      <4>1. elections[id] = [start |-> 0, end |-> 0]
        BY <3>1 DEF IInv, Uncreated
      <4> QED
        BY <4>1, <2>1 DEF IInv, TypeOK
    <3> QED
      BY <2>1, <3>1
  <2>3. ~ tallies[id].tallied
    <3>1. tallies[id].tallied => block > elections[id].end
      BY DEF IInv, TalliedWithProof
    <3> QED
      BY <2>1, <3>1 DEF IInv, TypeOK
  <2> QED
    BY <2>1, <2>2, <2>3 DEF Phase
\* The new badge, as a value that the step does not change.
<1> PICK t \in 1 .. MaxMessages : t = n
  BY <1>3
<1>5. Lifecycle!Cast(id, t)
  <2>1. BallotMap' = [BallotMap EXCEPT ![id] = @ \union {t}]
    <3>1. /\ BallotMap = [x \in Ids |-> BallotMap[x]]
          /\ BallotMap' = [x \in Ids |-> BallotMap'[x]]
      BY DEF BallotMap
    <3>2. /\ BallotMap'[id] = BallotMap[id] \union {t}
          /\ \A x \in Ids : x # id => BallotMap'[x] = BallotMap[x]
      BY <1>2 DEF BallotMap
    <3> QED
      BY <3>1, <3>2, ExceptAt
  <2>2. PhaseMap' = PhaseMap /\ OutcomeMap' = OutcomeMap
    BY <1>1 DEF PhaseMap, OutcomeMap, Phase
  <2>3. \A j \in Ids : t \notin BallotMap[j]
    BY <1>2 DEF BallotMap
  <2> QED
    BY <1>4, <2>1, <2>2, <2>3 DEF Lifecycle!Cast, PhaseMap, BallotMap, OutcomeMap
<1> QED
  BY <1>5 DEF Lifecycle!Next

\* tallyVotes is the lifecycle's Tally.
LEMMA TallyRefines ==
  ASSUME IInv, NEW id \in Ids, NEW r \in Tallies, RecordTally(id, r)
  PROVE  Lifecycle!Next
<1>1. UNCHANGED <<block, elections, nextId, badges>>
  BY DEF RecordTally, electionVars, ballotVars
<1>2. /\ ~ tallies[id].tallied /\ block > elections[id].end
      /\ strategies[id] # NoStrategy
  BY DEF RecordTally, CanTally
<1>3. /\ tallies'[id] = [tallied |-> TRUE, result |-> r]
      /\ \A j \in Ids : j # id => tallies'[j] = tallies[j]
  BY DEF IInv, RecordTally, TypeOK
<1>4. Phase(id) = "closed"
  <2>1. id \in Nat /\ nextId \in Nat /\ block \in Nat /\ elections[id].end \in Nat
    BY BoundsAssumption DEF IInv, TypeOK, Ids
  <2>2. ~ (id >= nextId)
    BY <1>2 DEF IInv, Uncreated
  <2> QED
    BY <1>2, <2>1, <2>2 DEF Phase
<1>5. Lifecycle!Declare(id, r)
  <2>1. PhaseMap' = [PhaseMap EXCEPT ![id] = "declared"]
    <3>1. /\ PhaseMap = [x \in Ids |-> PhaseMap[x]]
          /\ PhaseMap' = [x \in Ids |-> PhaseMap'[x]]
          /\ \A x \in Ids : PhaseMap[x] = Phase(x) /\ PhaseMap'[x] = Phase(x)'
      BY DEF PhaseMap
    <3>2. Phase(id)' = "declared" /\ \A x \in Ids : x # id => Phase(x)' = Phase(x)
      BY <1>1, <1>3 DEF Phase
    <3> QED
      BY <3>1, <3>2, ExceptAt
  <2>2. OutcomeMap' = [OutcomeMap EXCEPT ![id] = {r}]
    <3>1. /\ OutcomeMap = [x \in Ids |-> OutcomeMap[x]]
          /\ OutcomeMap' = [x \in Ids |-> OutcomeMap'[x]]
          /\ OutcomeMap'[id] = {r}
          /\ \A x \in Ids : x # id => OutcomeMap'[x] = OutcomeMap[x]
      BY <1>3 DEF OutcomeMap
    <3> QED
      BY <3>1, ExceptAt
  <2>3. BallotMap' = BallotMap
    BY <1>1 DEF BallotMap
  <2> QED
    BY <1>4, <2>1, <2>2, <2>3 DEF Lifecycle!Declare, PhaseMap, BallotMap, OutcomeMap
<1> QED
  BY <1>5 DEF Lifecycle!Next

\* A call that touches no election is a stutter.
LEMMA OtherRefines ==
  ASSUME UNCHANGED <<block, elections, nextId, badges, tallies>>
  PROVE  UNCHANGED Lifecycle!vars
BY DEF Lifecycle!vars, Phase

\* Every step of the manager is a step of the lifecycle or a stutter.
LEMMA StepRefines == IInv /\ [Next]_vars => [Lifecycle!Next]_(Lifecycle!vars)
<1> SUFFICES ASSUME IInv, [Next]_vars PROVE [Lifecycle!Next]_(Lifecycle!vars)
  OBVIOUS
<1>1. CASE Mine
  BY <1>1, MineRefines
<1>2. ASSUME NEW a \in Accounts, NEW s \in Strategies \union {NoStrategy},
             CreateElection(a, s)
      PROVE  Lifecycle!Next
  BY <1>2, CreateRefines
<1>3. ASSUME NEW a \in Accounts, NEW id \in Ids, EnqueueMessage(a, id)
      PROVE  Lifecycle!Next
  BY <1>3, EnqueueRefines
<1>4. ASSUME NEW a \in Accounts, PublishDirectly(a)
      PROVE  UNCHANGED Lifecycle!vars
  BY <1>4, OtherRefines DEF PublishDirectly, electionVars, tallyVars
<1>5. ASSUME NEW id \in Ids, NEW r \in Tallies, RecordTally(id, r)
      PROVE  Lifecycle!Next
  BY <1>5, TallyRefines
<1>6. ASSUME NEW a \in Accounts, NEW b \in Accounts \union {NoAccount},
             TransferOwnership(a, b)
      PROVE  UNCHANGED Lifecycle!vars
  BY <1>6, OtherRefines DEF TransferOwnership, electionVars, ballotVars, tallyVars
<1>7. ASSUME NEW a \in Accounts, NEW i \in Implementations, UpgradeTo(a, i)
      PROVE  UNCHANGED Lifecycle!vars
  BY <1>7, OtherRefines DEF UpgradeTo, electionVars, ballotVars, tallyVars
<1>8. CASE UNCHANGED vars
  BY <1>8, OtherRefines DEF vars
<1> QED
  BY <1>1, <1>2, <1>3, <1>4, <1>5, <1>6, <1>7, <1>8
     DEF Next, TallyVotes, PerformUpkeep

(***************************************************************************)
(* The contract implements the abstract life cycle of an election: opened  *)
(* once and in order, ballots only while open, an outcome only after the   *)
(* close, once and for ever.                                               *)
(***************************************************************************)
THEOREM ImplementsLifecycle == Spec => LifecycleSpec
BY InitRefines, StepRefines, Invariance, PTL DEF Spec, LifecycleSpec, Lifecycle!Spec
=============================================================================
