--------------------------- MODULE ElectionsProofs ---------------------------
(***************************************************************************)
(* Theorems about Elections, for any number of pages, requests, updates    *)
(* and faults: the type invariant, one election per request, rows that     *)
(* match the chain, answers that name the creator's election, and updates  *)
(* that leave the other columns alone.                                     *)
(*                                                                         *)
(* None of the invariants is inductive alone.  What carries them: a        *)
(* request sends once, from "signed", so its transaction is pending or     *)
(* mined only after that (SentOnce); the id a request holds is that of its *)
(* own event (OwnReceipt); a page waits for a request of its own           *)
(* (AnswersKnown).                                                         *)
(***************************************************************************)
EXTENDS Elections, SequenceTheorems, FiniteSetTheorems, TLAPS

Unsent == {"posted", "signed"}

\* An election belongs to a request that was sent, no longer waits in the pool, and
\* has no other election.
SentOnce ==
  /\ \A r \in RequestIds : requests[r].pc \in Unsent => pool # r
  /\ \A i \in 1 .. Len(elections) :
       LET r == elections[i].by IN
         /\ r \in RequestIds /\ pool # r
         /\ requests[r].pc \notin Unsent
         /\ elections[i].meta = requests[r].meta
  /\ \A i, j \in 1 .. Len(elections) : elections[i].by = elections[j].by => i = j

\* The id of a request whose receipt was read is that of its own election.
OwnReceipt ==
  \A r \in RequestIds : requests[r].pc \in {"created", "read", "done"} =>
    requests[r].id + 1 \in CreatedBy(r)

\* A page that waits has posted its request, and one that moved was told 201.
AnswersKnown ==
  \A c \in Clients :
    /\ clients[c].pc = "loading" => clients[c].request \in RequestIds
    /\ clients[c].pc = "moved" => clients[c].request \in RequestIds /\ Answer(c) = "done"

IInv == TypeOK /\ SentOnce /\ OwnReceipt /\ AnswersKnown /\ RowsMatchChain /\ CreatorFindsElection
(***************************************************************************)
(* Facts about the state                                                   *)
(***************************************************************************)

Progress == {"posted", "signed", "waiting", "created", "read", "done", "error", "dead"}

\* The types of what the handlers read.
LEMMA RequestFacts ==
  ASSUME TypeOK
  PROVE  /\ Len(requests) \in Nat /\ RequestIds \subseteq 1 .. MaxRequests
         /\ \A r \in RequestIds : requests[r] \in Request
         /\ Len(elections) \in Nat
         /\ \A i \in 1 .. Len(elections) :
              elections[i] \in [meta : Metas, start : Nat, by : 1 .. MaxRequests]
         /\ MaxRequests \in Nat
<1>1. MaxRequests \in Nat
  BY ElectionsAssumption
<1>2. /\ requests \in Seq(Request) /\ Len(requests) <= MaxRequests
      /\ elections \in Seq([meta : Metas, start : Nat, by : 1 .. MaxRequests])
  BY DEF TypeOK
<1>3. ASSUME NEW S, NEW s \in Seq(S)
      PROVE  Len(s) \in Nat /\ \A i \in 1 .. Len(s) : s[i] \in S
  OBVIOUS
<1>4. Len(requests) \in Nat /\ \A r \in 1 .. Len(requests) : requests[r] \in Request
  BY <1>2, <1>3
<1>5. /\ Len(elections) \in Nat
      /\ \A i \in 1 .. Len(elections) :
           elections[i] \in [meta : Metas, start : Nat, by : 1 .. MaxRequests]
  BY <1>2, <1>3
<1> QED
  BY <1>1, <1>2, <1>4, <1>5 DEF RequestIds

\* One request is replaced and the others are left alone.
Moves(r, q) ==
  /\ requests' \in Seq(Request)
  /\ Len(requests') = Len(requests)
  /\ requests'[r] = q
  /\ \A s \in RequestIds : s # r => requests'[s] = requests[s]

\* A handler writes the record of its own request.
LEMMA ExceptMoves ==
  ASSUME TypeOK, NEW r \in RequestIds, NEW q \in Request, requests' = [requests EXCEPT ![r] = q]
  PROVE  Moves(r, q)
  BY ExceptSeq DEF TypeOK, RequestIds, Moves

\* A handler that only goes on keeps the metadata and the id of its request.
LEMMA GoMoves ==
  ASSUME TypeOK, NEW r \in RequestIds, NEW pc \in Progress, Go(r, pc)
  PROVE  \E q \in Request : /\ q.pc = pc /\ q.meta = requests[r].meta /\ q.id = requests[r].id
                            /\ Moves(r, q)
<1> DEFINE q == [requests[r] EXCEPT !.pc = pc, !.nonce = 0]
<1>1. requests[r] \in Request
  BY RequestFacts
<1>2. q \in Request /\ q.pc = pc /\ q.meta = requests[r].meta /\ q.id = requests[r].id
  BY <1>1 DEF Request, Progress
<1>3. requests' = [requests EXCEPT ![r] = q]
  BY DEF Go
<1> HIDE DEF q
<1> QED
  BY <1>2, <1>3, ExceptMoves

\* A request has one election at most, so there are no more elections than requests.
LEMMA ElectionsBounded ==
  ASSUME TypeOK, SentOnce
  PROVE  Len(elections) <= MaxRequests
<1> DEFINE f == [i \in 1 .. Len(elections) |-> elections[i].by]
<1>1. f \in [1 .. Len(elections) -> 1 .. MaxRequests]
  BY RequestFacts
<1>2. \A i, j \in 1 .. Len(elections) : f[i] = f[j] => i = j
  BY DEF SentOnce
<1>3. MaxRequests \in Nat /\ Len(elections) \in Nat
  BY RequestFacts
<1>4. /\ IsFiniteSet(1 .. MaxRequests) /\ Cardinality(1 .. MaxRequests) = MaxRequests
      /\ IsFiniteSet(1 .. Len(elections)) /\ Cardinality(1 .. Len(elections)) = Len(elections)
  <2>1. ASSUME NEW n \in Nat
        PROVE  IsFiniteSet(1 .. n) /\ Cardinality(1 .. n) = n
    BY FS_Interval
  <2> QED
    BY <1>3, <2>1
<1> HIDE DEF f
<1>5. ~ (MaxRequests < Len(elections))
  <2> DEFINE S == 1 .. Len(elections)
             T == 1 .. MaxRequests
  <2>1. /\ f \in [S -> T] /\ IsFiniteSet(S) /\ IsFiniteSet(T)
        /\ ~ \E i, j \in S : i # j /\ f[i] = f[j]
    BY <1>1, <1>2, <1>4
  <2>2. Cardinality(T) = MaxRequests /\ Cardinality(S) = Len(elections)
    BY <1>4
  <2> HIDE DEF S, T
  <2>3. ~ (Cardinality(T) < Cardinality(S))
    BY <2>1, FS_PigeonHole
  <2> QED
    BY <2>2, <2>3
<1> QED
  BY <1>3, <1>5

(***************************************************************************)
(* The requests                                                            *)
(***************************************************************************)

\* The step of a running request: it sends from "signed" only, holds the id of its own
\* election, and is answered 201 when the row is there.
LEMMA RequestStep ==
  ASSUME IInv, NEW r \in RequestIds, NEW q \in Request, Moves(r, q), Running(r),
         q.meta = requests[r].meta, UNCHANGED <<elections, clients>>,
         pool' = pool \/ (pool' = r /\ requests[r].pc = "signed"),
         q.pc \in Unsent => requests[r].pc \in Unsent /\ pool' = pool,
         q.pc \in {"created", "read", "done"} => q.id + 1 \in CreatedBy(r),
         \A id \in DOMAIN rows : id \in DOMAIN rows' /\ rows'[id].meta = rows[id].meta,
         q.pc = "done" => q.id \in DOMAIN rows' /\ rows'[q.id].meta = q.meta
  PROVE  SentOnce' /\ OwnReceipt' /\ AnswersKnown' /\ CreatorFindsElection'
<1>1. RequestIds' = RequestIds
  BY DEF Moves, RequestIds
<1>2. SentOnce /\ OwnReceipt /\ AnswersKnown /\ CreatorFindsElection
  BY DEF IInv
<1>3. \A s \in RequestIds : requests'[s] = IF s = r THEN q ELSE requests[s]
  BY DEF Moves
<1>4. SentOnce'
  <2>1. \A s \in RequestIds : requests'[s].pc \in Unsent => pool' # s
    BY <1>2, <1>3 DEF SentOnce, Unsent
  <2>2. ASSUME NEW i \in 1 .. Len(elections)
        PROVE  /\ elections[i].by \in RequestIds /\ pool' # elections[i].by
               /\ requests'[elections[i].by].pc \notin Unsent
               /\ elections[i].meta = requests'[elections[i].by].meta
    BY <1>2, <1>3 DEF SentOnce, Unsent
  <2> QED
    BY <1>1, <1>2, <2>1, <2>2 DEF SentOnce
<1>5. OwnReceipt'
  BY <1>1, <1>2, <1>3 DEF OwnReceipt, CreatedBy
<1>6. AnswersKnown'
  BY <1>1, <1>2, <1>3 DEF AnswersKnown, Answer, Running
<1>7. CreatorFindsElection'
  BY <1>1, <1>2, <1>3 DEF CreatorFindsElection
<1> QED
  BY <1>4, <1>5, <1>6, <1>7

\* Types after a step of a request that leaves the rows and the pages alone.
LEMMA RequestTypes ==
  ASSUME TypeOK, NEW r \in RequestIds, NEW q \in Request, Moves(r, q),
         UNCHANGED <<elections, count, reverted, rows, clients, editors, encodes, getter>>,
         pool' \in RequestIds \union {Tally, None}
  PROVE  TypeOK'
<1>1. RequestIds' = RequestIds
  BY DEF Moves, RequestIds
<1> QED
  BY <1>1 DEF TypeOK, Moves

\* The chain and the table as they were.
LEMMA RowsStay ==
  ASSUME RowsMatchChain, UNCHANGED <<elections, rows>>
  PROVE  RowsMatchChain'
  BY DEF RowsMatchChain

\* The steps of create_election keep the invariant.
LEMMA HandlerKeeps ==
  ASSUME IInv, NEW r \in RequestIds,
         \/ BadVerifier(r) \/ Sign(r) \/ Send(r) \/ SendRefused(r) \/ SendReplaces(r) \/ Receipt(r)
         \/ Timeout(r) \/ ReadElection(r) \/ CallFails(r)
  PROVE  IInv'
<1> USE DEF chainVars, pageVars, bounds
<1>1. TypeOK /\ requests[r] \in Request /\ RowsMatchChain /\ OwnReceipt
  BY RequestFacts DEF IInv
<1>2. UNCHANGED <<elections, count, reverted, rows, clients, editors, encodes, getter>>
  BY DEF BadVerifier, Sign, Send, SendRefused, SendReplaces, Receipt, Timeout, ReadElection, CallFails, Fault
<1>3. Running(r)
  BY DEF BadVerifier, Sign, Send, SendRefused, SendReplaces, Receipt, Timeout, ReadElection, CallFails, Running
<1>4. pool' \in RequestIds \union {Tally, None}
  BY <1>1 DEF TypeOK, BadVerifier, Sign, Send, SendRefused, SendReplaces, Receipt, Timeout, ReadElection, CallFails
<1>5. SUFFICES \E q \in Request :
         /\ Moves(r, q) /\ q.meta = requests[r].meta
         /\ pool' = pool \/ (pool' = r /\ requests[r].pc = "signed")
         /\ q.pc \in Unsent => requests[r].pc \in Unsent /\ pool' = pool
         /\ q.pc \in {"created", "read", "done"} => q.id + 1 \in CreatedBy(r)
         /\ q.pc # "done"
  BY <1>1, <1>2, <1>3, <1>4, RequestStep, RequestTypes, RowsStay DEF IInv
<1>6. ASSUME NEW pc \in {"error", "dead", "waiting"}, Go(r, pc),
             pool' = pool \/ (pool' = r /\ requests[r].pc = "signed")
      PROVE  \E q \in Request :
         /\ Moves(r, q) /\ q.meta = requests[r].meta
         /\ pool' = pool \/ (pool' = r /\ requests[r].pc = "signed")
         /\ q.pc \in Unsent => requests[r].pc \in Unsent /\ pool' = pool
         /\ q.pc \in {"created", "read", "done"} => q.id + 1 \in CreatedBy(r)
         /\ q.pc # "done"
  <2>1. pc \in Progress
    BY DEF Progress
  <2>2. PICK q \in Request : q.pc = pc /\ q.meta = requests[r].meta /\ Moves(r, q)
    BY <1>1, <1>6, <2>1, GoMoves
  <2> QED
    BY <1>6, <2>2 DEF Unsent
<1>7. CASE \/ BadVerifier(r) \/ Send(r) \/ SendRefused(r) \/ SendReplaces(r) \/ Timeout(r) \/ CallFails(r)
  BY <1>6, <1>7 DEF BadVerifier, Send, SendRefused, SendReplaces, Timeout, CallFails, Raise
<1>8. CASE Sign(r)
  <2> DEFINE q == [requests[r] EXCEPT !.pc = "signed", !.nonce = count]
  <2>1. q \in Request /\ q.pc = "signed" /\ q.meta = requests[r].meta
    BY <1>1 DEF Request, TypeOK
  <2>2. requests' = [requests EXCEPT ![r] = q] /\ requests[r].pc = "posted" /\ pool' = pool
    BY <1>8 DEF Sign
  <2> HIDE DEF q
  <2>3. Moves(r, q)
    BY <1>1, <2>1, <2>2, ExceptMoves
  <2> QED
    BY <2>1, <2>2, <2>3 DEF Unsent
<1>9. CASE Receipt(r)
  <2>1. CASE Go(r, "error")
    BY <1>6, <1>9, <2>1 DEF Receipt
  <2>2. ASSUME NEW i \in CreatedBy(r),
               requests' = [requests EXCEPT ![r].pc = "created", ![r].id = i - 1]
        PROVE  \E q \in Request :
         /\ Moves(r, q) /\ q.meta = requests[r].meta
         /\ pool' = pool \/ (pool' = r /\ requests[r].pc = "signed")
         /\ q.pc \in Unsent => requests[r].pc \in Unsent /\ pool' = pool
         /\ q.pc \in {"created", "read", "done"} => q.id + 1 \in CreatedBy(r)
         /\ q.pc # "done"
    <3> DEFINE q == [requests[r] EXCEPT !.pc = "created", !.id = i - 1]
    <3>1. i - 1 \in Ids /\ i - 1 + 1 = i
      BY <1>1, ElectionsBounded, RequestFacts DEF CreatedBy, Ids, IInv
    <3>2. q \in Request /\ q.pc = "created" /\ q.meta = requests[r].meta /\ q.id = i - 1
      BY <1>1, <3>1 DEF Request
    <3>3. requests' = [requests EXCEPT ![r] = q] /\ pool' = pool
      BY <1>9, <2>2 DEF Receipt
    <3> HIDE DEF q
    <3>4. Moves(r, q)
      BY <1>1, <3>2, <3>3, ExceptMoves
    <3> QED
      BY <3>1, <3>2, <3>3, <3>4 DEF Unsent
  <2> QED
    BY <1>9, <2>1, <2>2 DEF Receipt
<1>10. CASE ReadElection(r)
  <2>1. PICK pc \in {"read", "error"} : Go(r, pc)
    BY <1>10 DEF ReadElection
  <2>2. pc \in Progress /\ pool' = pool /\ requests[r].pc = "created"
    BY <1>10 DEF Progress, ReadElection
  <2>3. PICK q \in Request :
          q.pc = pc /\ q.meta = requests[r].meta /\ q.id = requests[r].id /\ Moves(r, q)
    BY <1>1, <2>1, <2>2, GoMoves
  <2> QED
    BY <1>1, <2>2, <2>3 DEF Unsent, OwnReceipt
<1> QED
  BY <1>7, <1>8, <1>9, <1>10

\* The commit: the row is new, with the metadata and the block of the request's own
\* election, or nothing is written; the answer may fail after it.
LEMMA PersistKeeps ==
  ASSUME IInv, NEW r \in RequestIds, Persist(r) \/ PersistFails(r)
  PROVE  IInv'
<1> USE DEF chainVars, pageVars, bounds
<1> DEFINE id == requests[r].id
<1>1. /\ TypeOK /\ SentOnce /\ OwnReceipt /\ RowsMatchChain
      /\ requests[r] \in Request /\ requests[r].pc = "read"
      /\ UNCHANGED <<elections, count, pool, reverted, clients, editors, encodes, getter>>
  BY RequestFacts DEF IInv, Persist, PersistFails
\* The election of the request.
<1>2. /\ id \in Ids /\ id \in Nat /\ id + 1 \in CreatedBy(r) /\ id < Len(elections)
      /\ elections[id + 1].meta = requests[r].meta
  BY <1>1, RequestFacts DEF OwnReceipt, CreatedBy, SentOnce, Request, Ids
<1>3. NewRow(r) \in Row
  BY <1>1, <1>2, RequestFacts, ElectionsAssumption DEF NewRow, Row, Request
<1>4. PICK pc \in {"done", "error", "dead"} :
        /\ Go(r, pc)
        /\ \/ ~ Taken(r) /\ rows' = Inserted(r)
           \/ rows' = rows /\ (pc = "done" => id \in DOMAIN rows)
  BY <1>1 DEF Persist, PersistFails, Raise
<1>5. PICK q \in Request : /\ q.pc = pc /\ q.meta = requests[r].meta /\ q.id = id
                           /\ Moves(r, q)
  BY <1>1, <1>4, GoMoves DEF Progress
<1>6. /\ DOMAIN rows' \subseteq Ids /\ \A i \in DOMAIN rows' : rows'[i] \in Row
      /\ \A i \in DOMAIN rows : i \in DOMAIN rows' /\ rows'[i] = rows[i]
      /\ pc = "done" => id \in DOMAIN rows'
      /\ \A i \in DOMAIN rows' : i \in DOMAIN rows \/ (i = id /\ rows'[i] = NewRow(r))
  <2>1. CASE rows' = rows /\ (pc = "done" => id \in DOMAIN rows)
    BY <1>1, <2>1 DEF TypeOK
  <2>2. CASE ~ Taken(r) /\ rows' = Inserted(r)
    <3>1. /\ DOMAIN rows' = DOMAIN rows \union {id} /\ id \notin DOMAIN rows
          /\ \A i \in DOMAIN rows' : rows'[i] = IF i \in DOMAIN rows THEN rows[i] ELSE NewRow(r)
      BY <2>2 DEF Taken, Inserted
    <3> QED
      BY <1>1, <1>2, <1>3, <3>1 DEF TypeOK
  <2> QED
    BY <1>4, <2>1, <2>2
<1>7. RowsMatchChain'
  <2>1. NewRow(r).meta = elections[id + 1].meta /\ NewRow(r).start = elections[id + 1].start
    BY <1>2 DEF NewRow
  <2> QED
    BY <1>1, <1>2, <1>6, <2>1 DEF RowsMatchChain
<1>8. pc = "done" => rows'[id].meta = q.meta
  BY <1>1, <1>2, <1>5, <1>6, <1>7 DEF RowsMatchChain
<1>9. Running(r) /\ pool' = pool /\ q.pc \notin Unsent
  BY <1>1, <1>4, <1>5 DEF Running, Unsent, Persist, PersistFails
<1>10. SentOnce' /\ OwnReceipt' /\ AnswersKnown' /\ CreatorFindsElection'
  BY <1>1, <1>2, <1>5, <1>6, <1>8, <1>9, RequestStep
<1>11. TypeOK'
  <2>1. RequestIds' = RequestIds
    BY <1>5 DEF Moves, RequestIds
  <2> QED
    BY <1>1, <1>5, <1>6, <2>1 DEF TypeOK, Moves
<1> QED
  BY <1>7, <1>10, <1>11 DEF IInv

\* A restart ends the requests that run; what they sent stays sent.
LEMMA RestartKeeps ==
  ASSUME IInv, ApiRestart
  PROVE  IInv'
<1> USE DEF chainVars
<1>1. /\ TypeOK /\ SentOnce /\ OwnReceipt /\ AnswersKnown /\ RowsMatchChain /\ CreatorFindsElection
      /\ UNCHANGED <<elections, count, pool, reverted, rows, clients, encodes, getter>>
  BY DEF IInv, ApiRestart
<1> DEFINE After(r) == IF Running(r) THEN [requests[r] EXCEPT !.pc = "dead"] ELSE requests[r]
<1>2. \A r \in RequestIds : /\ After(r) \in Request /\ After(r).meta = requests[r].meta
                            /\ After(r).id = requests[r].id
                            /\ After(r).pc = requests[r].pc \/ After(r).pc = "dead"
                            /\ requests[r].pc = "done" => After(r).pc = "done"
  <2> TAKE r \in RequestIds
  <2>1. requests[r] \in Request
    BY <1>1, RequestFacts
  <2> QED
    BY <2>1 DEF Request, Running
<1>3. /\ requests' = [r \in 1 .. Len(requests) |-> After(r)] /\ Len(requests) \in Nat
      /\ RequestIds = 1 .. Len(requests)
  BY <1>1, RequestFacts DEF ApiRestart, RequestIds
<1> HIDE DEF After
<1>4. requests' \in Seq(Request) /\ Len(requests') = Len(requests)
  BY <1>2, <1>3
<1>5. RequestIds' = RequestIds /\ \A r \in RequestIds : requests'[r] = After(r)
  BY <1>3, <1>4 DEF RequestIds
<1>6. /\ editors' \in [Editors -> Editor]
      /\ \A e \in Editors : editors'[e].pc \in {"sent", "loaded"} =>
           editors[e].pc \in {"sent", "loaded"} /\ editors'[e].id = editors[e].id
  BY <1>1 DEF ApiRestart, TypeOK, Editor
<1>7. TypeOK'
  BY <1>1, <1>4, <1>5, <1>6 DEF TypeOK
<1>8. SentOnce' /\ OwnReceipt'
  BY <1>1, <1>2, <1>5 DEF SentOnce, OwnReceipt, CreatedBy, Unsent
<1>9. AnswersKnown' /\ CreatorFindsElection'
  BY <1>1, <1>2, <1>5 DEF AnswersKnown, CreatorFindsElection, Answer
<1> QED
  BY <1>1, <1>7, <1>8, <1>9, RowsStay DEF IInv

(***************************************************************************)
(* The chain                                                               *)
(***************************************************************************)

\* A block: the transactions of the pool become elections.
LEMMA MineKeeps ==
  ASSUME IInv, Mine
  PROVE  IInv'
<1> USE DEF chainVars, pageVars, bounds
<1>1. /\ TypeOK /\ SentOnce /\ OwnReceipt /\ AnswersKnown /\ RowsMatchChain /\ CreatorFindsElection
      /\ pool # None /\ pool' = None /\ count' = count + 1
      /\ UNCHANGED <<requests, rows, clients, editors, encodes, getter>>
  BY DEF IInv, Mine
<1>2. RequestIds' = RequestIds /\ \A r \in RequestIds : pool' # r
  BY <1>1, RequestFacts, ElectionsAssumption DEF RequestIds
<1>3. AnswersKnown' /\ CreatorFindsElection'
  BY <1>1, <1>2 DEF AnswersKnown, CreatorFindsElection, Answer
<1>4. CASE UNCHANGED elections /\ reverted' \subseteq RequestIds
  <2>1. TypeOK'
    BY <1>1, <1>2, <1>4 DEF TypeOK
  <2>2. SentOnce' /\ OwnReceipt'
    BY <1>1, <1>2, <1>4 DEF SentOnce, OwnReceipt, CreatedBy
  <2> QED
    BY <1>1, <1>3, <1>4, <2>1, <2>2, RowsStay DEF IInv
<1>5. CASE pool # Tally /\ encodes
  <2> DEFINE E == [meta : Metas, start : Nat, by : 1 .. MaxRequests]
             e == [meta |-> requests[pool].meta, start |-> count', by |-> pool]
             n == Len(elections) + 1
  <2>1. pool \in RequestIds
    BY <1>1, <1>5 DEF TypeOK
  <2>2. e \in E /\ elections \in Seq(E)
    BY <1>1, <2>1, RequestFacts DEF TypeOK, Request
  <2>3. elections' = Append(elections, e) /\ UNCHANGED reverted
    BY <1>5 DEF Mine, Tally
  <2>4. e.by = pool /\ e.meta = requests[pool].meta
    OBVIOUS
  <2> HIDE DEF e, E
  <2>5. /\ elections' \in Seq(E) /\ Len(elections') = n /\ Len(elections) \in Nat
        /\ elections'[n] = e
        /\ \A i \in 1 .. Len(elections) : elections'[i] = elections[i]
    BY <2>2, <2>3, AppendProperties
  <2>6. TypeOK'
    BY <1>1, <1>2, <2>3, <2>5 DEF TypeOK, E
  <2>7. SentOnce'
    <3>1. \A i \in 1 .. n : i \in 1 .. Len(elections) \/ i = n
      BY <2>5
    <3>2. requests[pool].pc \notin Unsent
      BY <1>1, <2>1 DEF SentOnce
    <3>3. \A i \in 1 .. n : /\ elections'[i].by \in RequestIds
                            /\ requests[elections'[i].by].pc \notin Unsent
                            /\ elections'[i].meta = requests[elections'[i].by].meta
      BY <1>1, <2>1, <2>4, <2>5, <3>1, <3>2 DEF SentOnce
    <3>4. \A i \in 1 .. Len(elections) : elections'[i].by # elections'[n].by
      BY <1>1, <2>4, <2>5 DEF SentOnce
    <3>5. \A i, j \in 1 .. n : elections'[i].by = elections'[j].by => i = j
      BY <1>1, <2>5, <3>1, <3>4 DEF SentOnce
    <3> QED
      BY <1>1, <1>2, <2>5, <3>3, <3>5 DEF SentOnce
  <2>8. OwnReceipt' /\ RowsMatchChain'
    <3>1. \A r : CreatedBy(r) \subseteq CreatedBy(r)'
      BY <2>5 DEF CreatedBy
    <3>2. OwnReceipt'
      BY <1>1, <1>2, <3>1 DEF OwnReceipt
    <3>3. \A id \in DOMAIN rows : id \in Nat
      BY <1>1, ElectionsAssumption DEF TypeOK, Ids
    <3>4. RowsMatchChain'
      BY <1>1, <2>5, <3>3 DEF RowsMatchChain
    <3> QED
      BY <3>2, <3>4
  <2> QED
    BY <1>3, <2>6, <2>7, <2>8 DEF IInv
<1> QED
  BY <1>1, <1>4, <1>5 DEF Mine, TypeOK

\* The transaction of the orchestrator, from the same account, creates nothing.
LEMMA OrchestratorKeeps ==
  ASSUME IInv, OrchestratorSends
  PROVE  IInv'
<1>1. /\ pool' = Tally
      /\ UNCHANGED <<elections, count, reverted, requests, rows, clients, editors, encodes, getter>>
  BY DEF OrchestratorSends, pageVars
<1>2. RequestIds' = RequestIds /\ \A r \in RequestIds : pool' # r
  BY <1>1, RequestFacts DEF RequestIds, Tally, IInv
<1>3. TypeOK' /\ SentOnce'
  BY <1>1, <1>2 DEF IInv, TypeOK, SentOnce
<1> QED
  BY <1>1, <1>2, <1>3 DEF IInv, OwnReceipt, CreatedBy, AnswersKnown, Answer, RowsMatchChain, CreatorFindsElection
(***************************************************************************)
(* The pages that create                                                   *)
(***************************************************************************)

\* A new request has done nothing yet.
LEMMA PostKeeps ==
  ASSUME IInv, NEW c \in Clients, NEW meta \in Metas, Post(c, meta)
  PROVE  IInv'
<1> USE DEF chainVars, bounds
<1> DEFINE q == [pc |-> "posted", meta |-> meta, nonce |-> 0, id |-> 0]
           n == Len(requests) + 1
<1>1. /\ TypeOK /\ SentOnce /\ OwnReceipt /\ AnswersKnown /\ RowsMatchChain /\ CreatorFindsElection
      /\ Len(requests) < MaxRequests /\ requests' = Append(requests, q)
      /\ clients' = [clients EXCEPT ![c] = [pc |-> "loading", request |-> Len(requests')]]
      /\ UNCHANGED <<elections, count, pool, reverted, rows, editors, encodes, getter>>
  BY DEF IInv, Post
<1>2. q \in Request /\ requests \in Seq(Request) /\ Len(requests) \in Nat /\ MaxRequests \in Nat
  BY <1>1, RequestFacts DEF Request, Ids, TypeOK
<1>3. q.pc = "posted"
  OBVIOUS
<1> HIDE DEF q
<1>4. /\ requests' \in Seq(Request) /\ Len(requests') = n /\ requests'[n] = q
      /\ \A r \in 1 .. Len(requests) : requests'[r] = requests[r]
  BY <1>1, <1>2, AppendProperties
<1>5. /\ RequestIds' = RequestIds \union {n} /\ n \notin RequestIds /\ n \in 1 .. MaxRequests
      /\ \A r \in RequestIds : requests'[r] = requests[r]
  BY <1>1, <1>2, <1>4 DEF RequestIds
<1>6. TypeOK'
  <2>1. clients' \in [Clients -> Client]
    <3>1. [pc |-> "loading", request |-> n] \in Client
      BY <1>5, RequestFacts, <1>1 DEF Client
    <3> QED
      BY <1>1, <1>4, <3>1 DEF TypeOK
  <2> QED
    BY <1>1, <1>2, <1>4, <1>5, <2>1 DEF TypeOK
<1>7. SentOnce'
  <2>1. pool # n
    <3>1. n # Tally /\ n # None
      BY <1>2, <1>5, ElectionsAssumption DEF Tally
    <3> QED
      BY <1>1, <1>5, <3>1 DEF TypeOK
  <2> QED
    BY <1>1, <1>5, <2>1 DEF SentOnce
<1>8. OwnReceipt' /\ CreatorFindsElection'
  <2>1. OwnReceipt'
    BY <1>1, <1>3, <1>4, <1>5 DEF OwnReceipt, CreatedBy
  <2>2. \A d \in Clients : clients'[d].pc # "missing"
    BY <1>1 DEF CreatorFindsElection, TypeOK
  <2>3. CreatorFindsElection'
    BY <1>1, <1>3, <1>4, <1>5, <2>2 DEF CreatorFindsElection
  <2> QED
    BY <2>1, <2>3
<1>9. AnswersKnown'
  <2>1. clients'[c].pc = "loading" /\ clients'[c].request = n
    BY <1>1, <1>4 DEF TypeOK
  <2>2. \A d \in Clients : d # c => clients'[d] = clients[d]
    BY <1>1 DEF TypeOK
  <2>3. ASSUME NEW d \in Clients, d # c
        PROVE  /\ clients'[d].pc = "loading" => clients'[d].request \in RequestIds
               /\ clients'[d].pc = "moved" => /\ clients'[d].request \in RequestIds
                                             /\ requests[clients'[d].request].pc = "done"
    BY <1>1, <2>2, <2>3 DEF AnswersKnown, Answer
  <2>4. /\ RequestIds \subseteq RequestIds' /\ n \in RequestIds'
        /\ \A r \in RequestIds : requests'[r] = requests[r]
    BY <1>5
  <2> QED
    BY <2>1, <2>3, <2>4 DEF AnswersKnown, Answer
<1> QED
  BY <1>1, <1>6, <1>7, <1>8, <1>9, RowsStay DEF IInv

\* A page hears the answer, shows the election, or is reloaded.
LEMMA PageKeeps ==
  ASSUME IInv, NEW c \in Clients,
         Answered(c) \/ AdminAnswered(c) \/ AnswerUnread(c) \/ Visit(c) \/ Reload(c)
  PROVE  IInv'
<1> USE DEF chainVars, bounds
<1>1. /\ TypeOK /\ SentOnce /\ OwnReceipt /\ AnswersKnown /\ RowsMatchChain /\ CreatorFindsElection
      /\ UNCHANGED <<elections, count, pool, reverted, requests, rows, editors, encodes, getter>>
  BY DEF IInv, Answered, AdminAnswered, AnswerUnread, Visit, Reload
<1>2. clients \in [Clients -> Client] /\ clients[c] \in Client /\ Idle \in Client
  BY <1>1, ElectionsAssumption DEF TypeOK, Idle, Client
\* An election that was answered with 201 is in the table, so no page is missing.
<1>3. clients[c].pc = "moved" => requests[clients[c].request].id \in DOMAIN rows
  BY <1>1 DEF AnswersKnown, Answer, CreatorFindsElection
<1>4. PICK new \in Client :
        /\ clients' = [clients EXCEPT ![c] = new]
        /\ \/ new = Idle
           \/ new.pc = "stuck"
           \/ new.pc = "moved" /\ new.request = clients[c].request /\ clients[c].pc = "loading"
              /\ Answer(c) = "done"
  <2>1. CASE Answer(c) = "done" /\ (Answered(c) \/ AdminAnswered(c))
    <3> DEFINE new == [clients[c] EXCEPT !.pc = "moved"]
    <3>1. new \in Client /\ new.pc = "moved" /\ new.request = clients[c].request
      BY <1>2 DEF Client
    <3>2. clients' = [clients EXCEPT ![c] = new] /\ clients[c].pc = "loading"
      BY <2>1 DEF Answered, AdminAnswered
    <3> QED
      BY <2>1, <3>1, <3>2
  <2>2. CASE clients' = [clients EXCEPT ![c] = [clients[c] EXCEPT !.pc = "stuck"]] \/ AnswerUnread(c)
    <3>1. [clients[c] EXCEPT !.pc = "stuck"] \in Client /\ [clients[c] EXCEPT !.pc = "stuck"].pc = "stuck"
      BY <1>2 DEF Client
    <3>2. clients' = [clients EXCEPT ![c] = [clients[c] EXCEPT !.pc = "stuck"]]
      BY <1>2, <2>2 DEF AnswerUnread
    <3> QED
      BY <3>1, <3>2
  <2>3. CASE clients' = [clients EXCEPT ![c] = Idle]
    BY <1>2, <2>3
  <2>4. CASE Visit(c)
    BY <1>2, <1>3, <2>3, <2>4 DEF Visit
  <2> QED
    BY <2>1, <2>2, <2>3, <2>4 DEF Answered, AdminAnswered, Reload
<1>5. /\ clients' \in [Clients -> Client] /\ clients'[c] = new
      /\ \A d \in Clients : d # c => clients'[d] = clients[d]
  BY <1>2, <1>4
<1>6. new.pc # "missing" /\ new.pc # "loading"
  BY <1>4 DEF Idle
<1>7. TypeOK' /\ SentOnce' /\ OwnReceipt'
  BY <1>1, <1>5 DEF TypeOK, SentOnce, OwnReceipt, CreatedBy, RequestIds
<1>8. AnswersKnown'
  <2>1. new.pc = "moved" => /\ new.request \in RequestIds
                            /\ requests[new.request].pc = "done"
    BY <1>1, <1>4 DEF AnswersKnown, Answer, Idle
  <2> QED
    BY <1>1, <1>5, <1>6, <2>1 DEF AnswersKnown, Answer, RequestIds
<1>9. CreatorFindsElection'
  BY <1>1, <1>5, <1>6 DEF CreatorFindsElection, RequestIds
<1> QED
  BY <1>1, <1>7, <1>8, <1>9, RowsStay DEF IInv

(***************************************************************************)
(* The updates                                                             *)
(***************************************************************************)

\* What is written is what a form sent, or what is there.
LEMMA CommitColumns ==
  ASSUME TypeOK, NEW e \in Editors, Commit(e)
  PROVE  /\ DOMAIN rows' = DOMAIN rows
         /\ \A id \in DOMAIN rows :
              /\ rows'[id] \in Row /\ rows'[id].meta = rows[id].meta /\ rows'[id].start = rows[id].start
              /\ rows'[id].status # rows[id].status => AskedFor(e, id, editors[e].status, rows'[id].status)
              /\ rows'[id].tally # rows[id].tally => AskedFor(e, id, editors[e].tally, rows'[id].tally)
<1> DEFINE u == editors[e]
           row == [rows[u.id] EXCEPT !.status = Written(u.status, u.read.status, @),
                                     !.tally = Written(u.tally, u.read.tally, @)]
<1>1. /\ u.pc = "loaded" /\ u.id \in DOMAIN rows /\ rows[u.id] \in Row
      /\ u.status \in Statuses \union {None} /\ u.tally \in Tallies \union {None}
  BY DEF TypeOK, Editor, Commit
<1>2. rows' = [rows EXCEPT ![u.id] = row]
  BY DEF Commit
<1>3. /\ row \in Row /\ row.meta = rows[u.id].meta /\ row.start = rows[u.id].start
      /\ row.status # rows[u.id].status => row.status = u.status /\ u.status # None
      /\ row.tally # rows[u.id].tally => row.tally = u.tally /\ u.tally # None
  BY <1>1 DEF Row, Written
<1> HIDE DEF row
<1>4. /\ DOMAIN rows' = DOMAIN rows
      /\ rows'[u.id] = row
      /\ \A id \in DOMAIN rows : id # u.id => rows'[id] = rows[id]
  BY <1>1, <1>2
<1>5. \A id \in DOMAIN rows : rows[id] \in Row
  BY DEF TypeOK
<1> QED
  BY <1>1, <1>3, <1>4, <1>5 DEF AskedFor

\* An update writes status and tally of a row, never its metadata hash.
LEMMA EditorKeeps ==
  ASSUME IInv, NEW e \in Editors,
         \/ ReadRow(e) \/ Commit(e) \/ ReloadEditor(e)
         \/ \E id \in DOMAIN rows, s \in Statuses \union {None},
               t \in Tallies \union {None} : SendUpdate(e, id, s, t)
  PROVE  IInv'
<1> USE DEF chainVars, bounds
<1>1. /\ TypeOK /\ SentOnce /\ OwnReceipt /\ AnswersKnown /\ RowsMatchChain /\ CreatorFindsElection
      /\ UNCHANGED <<elections, count, pool, reverted, requests, clients, encodes, getter>>
  BY DEF IInv, ReadRow, Commit, ReloadEditor, SendUpdate
<1>2. SentOnce' /\ OwnReceipt' /\ AnswersKnown'
  BY <1>1 DEF SentOnce, OwnReceipt, CreatedBy, AnswersKnown, Answer, RequestIds
<1>3. /\ DOMAIN rows' = DOMAIN rows
      /\ \A id \in DOMAIN rows :
           rows'[id] \in Row /\ rows'[id].meta = rows[id].meta /\ rows'[id].start = rows[id].start
  <2>1. CASE UNCHANGED rows
    BY <1>1, <2>1 DEF TypeOK
  <2>2. CASE Commit(e)
    BY <1>1, <2>2, CommitColumns
  <2> QED
    BY <2>1, <2>2 DEF ReadRow, ReloadEditor, SendUpdate
<1>4. RowsMatchChain' /\ CreatorFindsElection'
  BY <1>1, <1>3 DEF RowsMatchChain, CreatorFindsElection, RequestIds
<1>5. /\ editors' \in [Editors -> Editor]
      /\ \A d \in Editors : editors'[d].pc \in {"sent", "loaded"} => editors'[d].id \in DOMAIN rows
  <2>1. editors[e] \in Editor /\ editors \in [Editors -> Editor] /\ NoUpdate \in Editor
    BY <1>1, ElectionsAssumption DEF TypeOK, NoUpdate, Editor, Ids
  <2>2. ASSUME NEW new \in Editor, editors' = [editors EXCEPT ![e] = new],
               new.pc \in {"sent", "loaded"} => new.id \in DOMAIN rows
        PROVE  /\ editors' \in [Editors -> Editor]
               /\ \A d \in Editors : editors'[d].pc \in {"sent", "loaded"} => editors'[d].id \in DOMAIN rows
    BY <1>1, <2>1, <2>2 DEF TypeOK
  <2>3. CASE ReadRow(e)
    <3> DEFINE new == [editors[e] EXCEPT !.pc = "loaded", !.read = rows[editors[e].id]]
    <3>1. editors[e].id \in DOMAIN rows /\ rows[editors[e].id] \in Row
      BY <1>1, <2>3 DEF TypeOK, ReadRow
    <3>2. new \in Editor /\ new.id \in DOMAIN rows
      BY <2>1, <3>1 DEF Editor
    <3>3. editors' = [editors EXCEPT ![e] = new]
      BY <2>3 DEF ReadRow
    <3> HIDE DEF new
    <3> QED
      BY <2>2, <3>2, <3>3
  <2>4. CASE Commit(e) \/ ReloadEditor(e)
    <3>1. editors' = [editors EXCEPT ![e] = NoUpdate] /\ NoUpdate.pc = "idle"
      BY <2>4 DEF Commit, ReloadEditor, NoUpdate
    <3> QED
      BY <2>1, <2>2, <3>1
  <2>5. ASSUME NEW id \in DOMAIN rows, NEW s \in Statuses \union {None},
               NEW t \in Tallies \union {None}, SendUpdate(e, id, s, t)
        PROVE  /\ editors' \in [Editors -> Editor]
               /\ \A d \in Editors : editors'[d].pc \in {"sent", "loaded"} => editors'[d].id \in DOMAIN rows
    <3> DEFINE new == [pc |-> "sent", id |-> id, status |-> s, tally |-> t, read |-> None]
    <3>1. new \in Editor /\ new.id \in DOMAIN rows
      BY <1>1 DEF Editor, TypeOK
    <3>2. editors' = [editors EXCEPT ![e] = new]
      BY <2>5 DEF SendUpdate
    <3> HIDE DEF new
    <3> QED
      BY <2>2, <3>1, <3>2
  <2> QED
    BY <2>3, <2>4, <2>5
<1>6. TypeOK'
  BY <1>1, <1>3, <1>5 DEF TypeOK, RequestIds
<1> QED
  BY <1>2, <1>4, <1>6 DEF IInv

(***************************************************************************)
(* The theorems                                                            *)
(***************************************************************************)

\* A new service has no row, no request and an empty chain.
LEMMA InitOK == Init => IInv
<1> SUFFICES ASSUME Init PROVE IInv
  OBVIOUS
<1> USE DEF Init
<1>1. /\ requests = <<>> /\ elections = <<>> /\ RequestIds = {} /\ DOMAIN rows = {}
  BY DEF RequestIds
<1>2. clients \in [Clients -> Client] /\ \A c \in Clients : clients[c].pc = "idle"
  BY ElectionsAssumption DEF Idle, Client
<1>3. editors \in [Editors -> Editor] /\ \A e \in Editors : editors[e].pc = "idle"
  BY ElectionsAssumption DEF NoUpdate, Editor, Ids
<1>4. /\ requests \in Seq(Request) /\ Len(requests) <= MaxRequests
      /\ elections \in Seq([meta : Metas, start : Nat, by : 1 .. MaxRequests])
  <2>1. Len(requests) = 0 /\ MaxRequests \in Nat
    BY <1>1, ElectionsAssumption
  <2> QED
    BY <1>1, <2>1
<1>5. TypeOK
  <2>1. encodes \in BOOLEAN /\ getter \in {2, 3} /\ count \in Nat
    BY ElectionsAssumption
  <2> QED
    BY <1>1, <1>2, <1>3, <1>4, <2>1 DEF TypeOK
<1>6. SentOnce /\ OwnReceipt
  BY <1>1 DEF SentOnce, OwnReceipt
<1>7. AnswersKnown /\ RowsMatchChain /\ CreatorFindsElection
  BY <1>1, <1>2 DEF AnswersKnown, RowsMatchChain, CreatorFindsElection
<1> QED
  BY <1>5, <1>6, <1>7 DEF IInv

\* Every step keeps the invariant.
LEMMA NextOK == IInv /\ [Next]_vars => IInv'
<1> SUFFICES ASSUME IInv, [Next]_vars PROVE IInv'
  OBVIOUS
<1>1. CASE UNCHANGED vars
  BY <1>1 DEF vars, chainVars, pageVars, IInv, TypeOK, SentOnce, OwnReceipt, AnswersKnown, Answer,
              RowsMatchChain, CreatorFindsElection, CreatedBy, RequestIds
<1>2. ASSUME NEW r \in RequestIds, Handler(r) \/ BadVerifier(r) \/ SendReplaces(r) \/ Timeout(r) \/ CallFails(r)
                                     \/ PersistFails(r)
      PROVE  IInv'
  BY <1>2, HandlerKeeps, PersistKeeps DEF Handler
<1>3. ASSUME NEW c \in Clients, NEW meta \in Metas, Submit(c, meta) \/ AdminSubmit(c, meta)
      PROVE  IInv'
  BY <1>3, PostKeeps DEF Submit, AdminSubmit
<1>4. ASSUME NEW c \in Clients, Visit(c) \/ Reload(c) \/ AnswerUnread(c) \/ Answered(c) \/ AdminAnswered(c)
      PROVE  IInv'
  BY <1>4, PageKeeps
<1> QED
  BY <1>1, <1>2, <1>3, <1>4, MineKeeps, OrchestratorKeeps, RestartKeeps, EditorKeeps
  DEF Next, Clients

\* The inductive invariant.
THEOREM Invariance == Spec => []IInv
  BY InitOK, NextOK, PTL DEF Spec

\* Every reachable state has the types of the code: rows with the columns of the table,
\* and updates of rows that are there.
THEOREM TypeCorrect == Spec => []TypeOK
<1>1. IInv => TypeOK
  BY DEF IInv
<1> QED
  BY <1>1, Invariance, PTL

\* However late its receipt is, a request creates one election at most: it signs once,
\* and what a timeout leaves in the pool is not sent again.
THEOREM ElectionPerRequest == Spec => []OneElectionPerRequest
<1>1. IInv => OneElectionPerRequest
  <2> SUFFICES ASSUME IInv, NEW r \in 1 .. MaxRequests
               PROVE  Cardinality(CreatedBy(r)) <= 1
    BY DEF OneElectionPerRequest
  <2>1. CASE CreatedBy(r) = {}
    BY <2>1, FS_EmptySet
  <2>2. ASSUME NEW i \in CreatedBy(r)
        PROVE  Cardinality(CreatedBy(r)) <= 1
    <3>1. CreatedBy(r) = {i}
      BY DEF CreatedBy, IInv, SentOnce
    <3>2. Cardinality({i}) = 1
      BY FS_Singleton
    <3> QED
      BY <3>1, <3>2
  <2> QED
    BY <2>1, <2>2
<1> QED
  BY <1>1, Invariance, PTL

\* The rows are the records of the elections on the chain, whichever requests share the
\* account and wait side by side.
THEOREM RowsAreOfTheChain == Spec => []RowsMatchChain
<1>1. IInv => RowsMatchChain
  BY DEF IInv
<1> QED
  BY <1>1, Invariance, PTL

\* Who is told 201 finds the election that was posted.
THEOREM CreatorFinds == Spec => []CreatorFindsElection
<1>1. IInv => CreatorFindsElection
  BY DEF IInv
<1> QED
  BY <1>1, Invariance, PTL

\* No update writes a column that nobody asked to change.
THEOREM OtherColumnsKept == Spec => UpdatesKeepOtherColumns
<1> DEFINE A == \A id \in DOMAIN rows :
       /\ rows'[id].status # rows[id].status =>
            \E e \in Editors : AskedFor(e, id, editors[e].status, rows'[id].status)
       /\ rows'[id].tally # rows[id].tally =>
            \E e \in Editors : AskedFor(e, id, editors[e].tally, rows'[id].tally)
<1>1. IInv /\ [Next]_vars => [A]_rows
  <2> SUFFICES ASSUME IInv, Next, rows' # rows PROVE A
    BY DEF vars
  <2>1. ASSUME NEW e \in Editors, Commit(e)
        PROVE  A
    BY <2>1, CommitColumns DEF IInv
  <2>2. ASSUME NEW r \in RequestIds, Persist(r) \/ PersistFails(r)
        PROVE  A
    BY <2>2 DEF Persist, PersistFails, Inserted
  <2> QED
    BY <2>1, <2>2
    DEF Next, Handler, Mine, OrchestratorSends, ApiRestart, Sign, Send, SendRefused, SendReplaces,
        Receipt, Timeout, ReadElection, CallFails, BadVerifier, Submit, AdminSubmit, Post, Answered,
        AdminAnswered, AnswerUnread, Visit, Reload, SendUpdate, ReadRow, ReloadEditor, chainVars, pageVars, bounds
<1> QED
  BY <1>1, Invariance, PTL DEF Spec, UpdatesKeepOtherColumns
=============================================================================
