----------------------------- MODULE Elections -----------------------------
(***************************************************************************)
(* Elections in the backend: create_election and update_election of        *)
(* packages/backend/main.py with the account and the chain they act on,    *)
(* and the pages that call them: elections/create.tsx and the admin's form *)
(* (AdminElectionForm.tsx), and the page of an election with its update    *)
(* (elections/[id].tsx, AdminStatusForm.tsx).                              *)
(*                                                                         *)
(* The handlers are synchronous: each runs in a thread of its own, side by *)
(* side with the others, and goes on when its client has gone.  The        *)
(* orchestrator sends its tally from the same account.  A transaction is   *)
(* known by the request that sent it; blocks hold one transaction each.    *)
(* The chain does not reorganise and is not reset under a kept database.   *)
(***************************************************************************)
EXTENDS Naturals, Sequences, FiniteSets

CONSTANTS
  Forms,        \* open pages elections/create.tsx
  AdminForms,   \* open pages with AdminElectionForm
  Editors,      \* open pages that update an election
  Metas,        \* metadata an administrator may type
  None,
  Encodings,    \* whether the contract object has encodeABI, or "0x" is sent
  Getters,      \* number of values elections(id) returns: 2 for the contract here
  Statuses,     \* of the selects, `pending' among them
  Tallies,
  MaxRequests,  \* bound: creations posted
  MaxTallies,   \* bound: transactions of the orchestrator
  MaxUpdates,   \* bound: updates sent
  MaxFaults     \* bound: late receipts, restarts, failing calls, answers cut off

Clients == Forms \union AdminForms

ASSUME ElectionsAssumption ==
  /\ Forms \intersect AdminForms = {}
  /\ None \notin Metas \union Statuses \union Tallies
  /\ None \notin 0 .. MaxRequests
  /\ Encodings \subseteq BOOLEAN /\ Getters \subseteq {2, 3}
  /\ "pending" \in Statuses
  /\ {MaxRequests, MaxTallies, MaxUpdates, MaxFaults} \subseteq Nat

VARIABLES
  encodes, getter,  \* the library and the contract of this deployment
  elections,        \* ElectionCreated events, in their order; ids start at 0
  count,            \* transactions of the account that were mined
  pool,             \* its pending transaction: a request, Tally or None
  reverted,         \* requests whose transaction was mined and reverted
  requests,         \* POST /elections, in the order of their arrival
  rows,             \* the table `elections': id -> row
  clients,          \* the pages that create
  editors,          \* the pages that update
  tallies, updates, faults

chainVars == <<elections, count, pool, reverted>>
pageVars == <<clients, editors>>
bounds == <<encodes, getter, tallies, updates, faults>>
vars == <<encodes, getter, chainVars, requests, rows, pageVars, tallies, updates, faults>>

RequestIds == 1 .. Len(requests)
Tally == 0          \* in the pool: a transaction of the orchestrator
Ids == 0 .. MaxRequests

\* posted, signed, waiting   before the receipt
\* created, read             has the event; has the blocks of the election
\* done, error, dead         201; an answer with an error; no answer
Request == [pc : {"posted", "signed", "waiting", "created", "read", "done", "error", "dead"},
            meta : Metas, nonce : Nat, id : Ids]

Row == [meta : Metas, start : Nat, status : Statuses, tally : Tallies \union {None}]

\* idle, loading   the form, and its button while the request runs
\* moved           sent to the page of the election
\* missing         that page says "Error loading"
\* stuck           nothing runs, and the button stays disabled
Client == [pc : {"idle", "loading", "moved", "missing", "stuck"},
           request : 0 .. MaxRequests]

Idle == [pc |-> "idle", request |-> 0]

\* status, tally: what the form sends; read: the row the handler has read
Editor == [pc : {"idle", "sent", "loaded", "stuck"}, id : Ids,
           status : Statuses \union {None}, tally : Tallies \union {None},
           read : Row \union {None}]

NoUpdate == [pc |-> "idle", id |-> 0, status |-> None, tally |-> None, read |-> None]

Init ==
  /\ encodes \in Encodings /\ getter \in Getters
  /\ elections = <<>> /\ count = 0 /\ pool = None /\ reverted = {}
  /\ requests = <<>> /\ rows = <<>>
  /\ clients = [c \in Clients |-> Idle]
  /\ editors = [e \in Editors |-> NoUpdate]
  /\ tallies = 0 /\ updates = 0 /\ faults = 0

Fault == faults < MaxFaults /\ faults' = faults + 1

-----------------------------------------------------------------------------
(* The chain and the orchestrator *)

CreatedBy(r) == {i \in 1 .. Len(elections) : elections[i].by = r}

\* createElection of the manager; "0x" finds no function and reverts.
Mine ==
  /\ pool # None
  /\ pool' = None /\ count' = count + 1
  /\ IF pool = Tally THEN UNCHANGED <<elections, reverted>>
     ELSE IF encodes
          THEN /\ elections' = Append(elections,
                    [meta |-> requests[pool].meta, start |-> count', by |-> pool])
               /\ UNCHANGED reverted
          ELSE reverted' = reverted \union {pool} /\ UNCHANGED elections
  /\ UNCHANGED <<requests, rows, pageVars, bounds>>

OrchestratorSends ==
  /\ pool = None /\ tallies < MaxTallies
  /\ pool' = Tally /\ tallies' = tallies + 1
  /\ UNCHANGED <<elections, count, reverted, requests, rows, pageVars, encodes, getter, updates, faults>>

-----------------------------------------------------------------------------
(* create_election *)

\* The nonce is for the next step only.
Go(r, pc) == requests' = [requests EXCEPT ![r].pc = pc, ![r].nonce = 0]

\* The handler raises outside its try blocks: only a local deployment lets the page
\* read the answer.
Raise(r) == \E pc \in {"error", "dead"} : Go(r, pc)

\* A verifier that is no address
BadVerifier(r) ==
  /\ requests[r].pc = "posted"
  /\ \E c \in AdminForms : clients[c].request = r
  /\ Raise(r)
  /\ UNCHANGED <<chainVars, rows, pageVars, bounds>>

\* get_transaction_count: what was mined
Sign(r) ==
  /\ requests[r].pc = "posted"
  /\ requests' = [requests EXCEPT ![r].pc = "signed", ![r].nonce = count]
  /\ UNCHANGED <<chainVars, rows, pageVars, bounds>>

Send(r) ==
  /\ requests[r].pc = "signed"
  /\ requests[r].nonce = count /\ pool = None
  /\ pool' = r
  /\ Go(r, "waiting")
  /\ UNCHANGED <<elections, count, reverted, rows, pageVars, bounds>>

\* "nonce too low", or "replacement transaction underpriced"
SendRefused(r) ==
  /\ requests[r].pc = "signed"
  /\ requests[r].nonce < count \/ pool # None
  /\ Go(r, "error")
  /\ UNCHANGED <<chainVars, rows, pageVars, bounds>>

\* The gas price has risen: the node takes the new transaction for the old one.
SendReplaces(r) ==
  /\ requests[r].pc = "signed"
  /\ requests[r].nonce = count /\ pool # None
  /\ pool' = r
  /\ Go(r, "waiting")
  /\ UNCHANGED <<elections, count, reverted, rows, pageVars, bounds>>

\* Mutant: the id is that of the newest election, not the event's.
ReceiptNewest(r) ==
  /\ requests[r].pc = "waiting"
  /\ CreatedBy(r) # {} /\ requests' = [requests EXCEPT ![r].pc = "created", ![r].id = Len(elections) - 1]
  /\ UNCHANGED <<chainVars, rows, pageVars, bounds>>

\* The receipt, its status, and the event in its logs
Receipt(r) ==
  /\ requests[r].pc = "waiting"
  /\ \/ r \in reverted /\ Go(r, "error")
     \/ \E i \in CreatedBy(r) :
          requests' = [requests EXCEPT ![r].pc = "created", ![r].id = i - 1]
  /\ UNCHANGED <<chainVars, rows, pageVars, bounds>>

\* Mutant: a request that waits too long signs and sends again.
TimeoutResends(r) ==
  /\ requests[r].pc = "waiting" /\ CreatedBy(r) = {} /\ r \notin reverted
  /\ \/ pool # r /\ UNCHANGED faults
     \/ pool = r /\ Fault
  /\ Go(r, "posted")
  /\ UNCHANGED <<chainVars, rows, pageVars, encodes, getter, tallies, updates>>

\* After 120 seconds: the transaction was replaced, or is late.
Timeout(r) ==
  /\ requests[r].pc = "waiting" /\ CreatedBy(r) = {} /\ r \notin reverted
  /\ \/ pool # r /\ UNCHANGED faults
     \/ pool = r /\ Fault
  /\ Go(r, "error")
  /\ UNCHANGED <<chainVars, rows, pageVars, encodes, getter, tallies, updates>>

\* elections(id): the verifier is its third value.
ReadElection(r) ==
  /\ requests[r].pc = "created"
  /\ Go(r, IF getter = 3 THEN "read" ELSE "error")
  /\ UNCHANGED <<chainVars, rows, pageVars, bounds>>

\* The metadata is the event's, which is what the request posted.
NewRow(r) == [meta |-> requests[r].meta, start |-> elections[requests[r].id + 1].start,
              status |-> "pending", tally |-> None]

Inserted(r) == [id \in DOMAIN rows \union {requests[r].id} |->
                  IF id \in DOMAIN rows THEN rows[id] ELSE NewRow(r)]

Taken(r) == requests[r].id \in DOMAIN rows
            \/ \E id \in DOMAIN rows : rows[id].meta = requests[r].meta

\* Mutant: the answer does not wait for the commit.
PersistUnchecked(r) ==
  /\ requests[r].pc = "read"
  /\ IF Taken(r) THEN UNCHANGED rows ELSE rows' = Inserted(r)
  /\ Go(r, "done")
  /\ UNCHANGED <<chainVars, pageVars, bounds>>

\* The commit: the id and the metadata are unique.  A row with this id is returned.
Persist(r) ==
  /\ requests[r].pc = "read"
  /\ IF Taken(r)
     THEN /\ Go(r, IF requests[r].id \in DOMAIN rows THEN "done" ELSE "error")
          /\ UNCHANGED rows
     ELSE /\ rows' = Inserted(r)
          /\ Go(r, "done")
  /\ UNCHANGED <<chainVars, pageVars, bounds>>

\* The row is committed, and its confirmation or db.refresh fails.
PersistFails(r) ==
  /\ requests[r].pc = "read" /\ ~ Taken(r) /\ Fault
  /\ rows' = Inserted(r)
  /\ Raise(r)
  /\ UNCHANGED <<chainVars, pageVars, encodes, getter, tallies, updates>>

Running(r) == requests[r].pc \notin {"done", "error", "dead"}

\* A call to the pinning service, the node or the database fails; those before and
\* behind the transaction are outside the try blocks.
CallFails(r) ==
  /\ Running(r) /\ Fault
  /\ IF requests[r].pc \in {"posted", "read"} THEN Raise(r) ELSE Go(r, "error")
  /\ UNCHANGED <<chainVars, rows, pageVars, encodes, getter, tallies, updates>>

\* The API is restarted.
ApiRestart ==
  /\ Fault
  /\ requests' = [r \in RequestIds |->
                    IF Running(r) THEN [requests[r] EXCEPT !.pc = "dead"] ELSE requests[r]]
  /\ editors' = [e \in Editors |-> IF editors[e].pc \in {"sent", "loaded"}
                                   THEN [editors[e] EXCEPT !.pc = "stuck"] ELSE editors[e]]
  /\ UNCHANGED <<chainVars, rows, clients, encodes, getter, tallies, updates>>

Handler(r) == Sign(r) \/ Send(r) \/ SendRefused(r) \/ Receipt(r) \/ ReadElection(r) \/ Persist(r)

-----------------------------------------------------------------------------
(* The pages that create *)

\* The form, with its button enabled, and metadata that parses
Post(c, meta) ==
  /\ clients[c].pc = "idle" /\ Len(requests) < MaxRequests
  /\ requests' = Append(requests, [pc |-> "posted", meta |-> meta, nonce |-> 0, id |-> 0])
  /\ clients' = [clients EXCEPT ![c] = [pc |-> "loading", request |-> Len(requests')]]
  /\ UNCHANGED <<chainVars, rows, editors, bounds>>

\* handleSubmit
Submit(c, meta) == c \in Forms /\ Post(c, meta)

\* submit of AdminElectionForm, which sends a verifier too
AdminSubmit(c, meta) == c \in AdminForms /\ Post(c, meta)

Answer(c) == requests[clients[c].request].pc

\* Mutant: the catch does not reset `loading'.
AnsweredOrStuck(c) ==
  /\ clients[c].pc = "loading" /\ Answer(c) \in {"done", "error"}
  /\ clients' = [clients EXCEPT ![c] =
                   IF Answer(c) = "done" THEN [clients[c] EXCEPT !.pc = "moved"] ELSE Idle]
  /\ UNCHANGED <<chainVars, requests, rows, editors, bounds>>

\* create.tsx: to the page of the election, or a toast.
Answered(c) ==
  /\ clients[c].pc = "loading" /\ ~ Running(clients[c].request)
  /\ clients' = [clients EXCEPT ![c] =
                   IF Answer(c) = "done" THEN [clients[c] EXCEPT !.pc = "moved"] ELSE Idle]
  /\ UNCHANGED <<chainVars, requests, rows, editors, bounds>>

\* AdminElectionForm: nothing catches a fetch that is rejected.
AdminAnswered(c) ==
  /\ clients[c].pc = "loading" /\ ~ Running(clients[c].request)
  /\ clients' = [clients EXCEPT ![c] =
       IF Answer(c) = "done" THEN [clients[c] EXCEPT !.pc = "moved"]
       ELSE IF Answer(c) = "error" THEN Idle
       ELSE [clients[c] EXCEPT !.pc = "stuck"]]
  /\ UNCHANGED <<chainVars, requests, rows, editors, bounds>>

\* The body of a 201 is cut off or does not parse: neither form catches that.
AnswerUnread(c) ==
  /\ clients[c].pc = "loading" /\ Answer(c) = "done" /\ Fault
  /\ clients' = [clients EXCEPT ![c].pc = "stuck"]
  /\ UNCHANGED <<chainVars, requests, rows, editors, encodes, getter, tallies, updates>>

\* The page of the election: jsonFetcher on get_election.  The creator has seen it
\* and goes back to the form.
Visit(c) ==
  /\ clients[c].pc = "moved"
  /\ clients' = [clients EXCEPT ![c] =
       IF requests[@.request].id \in DOMAIN rows THEN Idle ELSE [@ EXCEPT !.pc = "missing"]]
  /\ UNCHANGED <<chainVars, requests, rows, editors, bounds>>

\* The user reloads the form while its request runs on.
Reload(c) ==
  /\ clients[c].pc \in {"loading", "stuck"}
  /\ clients' = [clients EXCEPT ![c] = Idle]
  /\ UNCHANGED <<chainVars, requests, rows, editors, bounds>>

-----------------------------------------------------------------------------
(* update_election *)

\* Bound: the updates come after the creations, with which they share no column.
Quiet == /\ \A r \in RequestIds : ~ Running(r)
         /\ \A c \in Clients : clients[c] = Idle

\* submitUpdate, AdminStatusForm: what is filled in is sent.
SendUpdate(e, id, status, tally) ==
  /\ editors[e].pc = "idle" /\ updates < MaxUpdates
  /\ Len(requests) = MaxRequests /\ Quiet
  /\ status # None \/ tally # None
  /\ updates' = updates + 1
  /\ editors' = [editors EXCEPT ![e] =
       [pc |-> "sent", id |-> id, status |-> status, tally |-> tally, read |-> None]]
  /\ UNCHANGED <<chainVars, requests, rows, clients, encodes, getter, tallies, faults>>

ReadRow(e) ==
  /\ editors[e].pc = "sent"
  /\ editors' = [editors EXCEPT ![e] = [@ EXCEPT !.pc = "loaded", !.read = rows[editors[e].id]]]
  /\ UNCHANGED <<chainVars, requests, rows, clients, bounds>>

\* What is set differs from what was read, or it is not written.
Written(new, old, now) == IF new = None \/ new = old THEN now ELSE new

\* Mutant: the row that was read is written back with the changes.
CommitRow(e) ==
  /\ editors[e].pc = "loaded"
  /\ LET u == editors[e] IN
       rows' = [rows EXCEPT ![u.id].status = IF u.status = None THEN u.read.status ELSE u.status,
                            ![u.id].tally = IF u.tally = None THEN u.read.tally ELSE u.tally]
  /\ editors' = [editors EXCEPT ![e] = NoUpdate]
  /\ UNCHANGED <<chainVars, requests, clients, bounds>>

\* Mutant: what the form left out is set to null.
CommitUnset(e) ==
  /\ editors[e].pc = "loaded"
  /\ rows' = [rows EXCEPT ![editors[e].id].status = editors[e].status,
                          ![editors[e].id].tally = editors[e].tally]
  /\ editors' = [editors EXCEPT ![e] = NoUpdate]
  /\ UNCHANGED <<chainVars, requests, clients, bounds>>

Commit(e) ==
  /\ editors[e].pc = "loaded"
  /\ LET u == editors[e] IN
       rows' = [rows EXCEPT ![u.id].status = Written(u.status, u.read.status, @),
                            ![u.id].tally = Written(u.tally, u.read.tally, @)]
  /\ editors' = [editors EXCEPT ![e] = NoUpdate]
  /\ UNCHANGED <<chainVars, requests, clients, bounds>>

\* AdminStatusForm stays disabled after a rejected fetch; the page is reloaded.
ReloadEditor(e) ==
  /\ editors[e].pc = "stuck"
  /\ editors' = [editors EXCEPT ![e] = NoUpdate]
  /\ UNCHANGED <<chainVars, requests, rows, clients, bounds>>

-----------------------------------------------------------------------------
Next ==
  \/ Mine \/ OrchestratorSends \/ ApiRestart
  \/ \E r \in RequestIds : \/ Handler(r) \/ BadVerifier(r) \/ SendReplaces(r)
                           \/ Timeout(r) \/ CallFails(r) \/ PersistFails(r)
  \/ \E c \in Clients : \/ Visit(c) \/ Reload(c) \/ AnswerUnread(c)
                         \/ \E meta \in Metas : Submit(c, meta) \/ AdminSubmit(c, meta)
  \/ \E c \in Forms : Answered(c)
  \/ \E c \in AdminForms : AdminAnswered(c)
  \/ \E e \in Editors :
       \/ ReadRow(e) \/ Commit(e) \/ ReloadEditor(e)
       \/ \E id \in DOMAIN rows, s \in Statuses \union {None},
             t \in Tallies \union {None} : SendUpdate(e, id, s, t)

\* Transactions are mined, threads run, and a page handles the answer it gets.
Fairness ==
  /\ WF_vars(Mine)
  /\ \A r \in 1 .. MaxRequests :
       WF_vars(r \in RequestIds /\ (Handler(r) \/ Timeout(r)))
  /\ \A c \in Forms : WF_vars(Answered(c))

Spec == Init /\ [][Next]_vars /\ Fairness

-----------------------------------------------------------------------------
(***************************************************************************)
(* Properties                                                              *)
(***************************************************************************)

\* The chain, the requests, the table and the pages are what the code can make them.
TypeOK ==
  /\ encodes \in BOOLEAN /\ getter \in {2, 3}
  /\ elections \in Seq([meta : Metas, start : Nat, by : 1 .. MaxRequests])
  /\ count \in Nat /\ pool \in RequestIds \union {Tally, None} /\ reverted \subseteq RequestIds
  /\ requests \in Seq(Request) /\ Len(requests) <= MaxRequests
  /\ DOMAIN rows \subseteq Ids /\ \A id \in DOMAIN rows : rows[id] \in Row
  /\ clients \in [Clients -> Client] /\ editors \in [Editors -> Editor]
  /\ \A e \in Editors : editors[e].pc \in {"sent", "loaded"} => editors[e].id \in DOMAIN rows

\* Every row is the record of the election with its id: metadata and start block
\* are that election's, although several requests and the orchestrator share an
\* account and wait for receipts side by side.
RowsMatchChain ==
  \A id \in DOMAIN rows :
    /\ id < Len(elections)
    /\ rows[id].meta = elections[id + 1].meta
    /\ rows[id].start = elections[id + 1].start

\* An administrator who is told 201 finds the election under the id of the answer,
\* with the metadata that was posted.
CreatorFindsElection ==
  /\ \A c \in Clients : clients[c].pc # "missing"
  /\ \A r \in RequestIds :
       requests[r].pc = "done" =>
         /\ requests[r].id \in DOMAIN rows
         /\ rows[requests[r].id].meta = requests[r].meta

\* One request creates one election at most, however late its receipt is.
OneElectionPerRequest == \A r \in 1 .. MaxRequests : Cardinality(CreatedBy(r)) <= 1

AskedFor(e, id, asked, value) ==
  editors[e].pc = "loaded" /\ editors[e].id = id /\ asked = value /\ asked # None

\* A column changes to a value some request asked for: an update of the status does
\* not undo a tally that was stored after it had read the row, and vice versa.
UpdatesKeepOtherColumns ==
  [][\A id \in DOMAIN rows :
       /\ rows'[id].status # rows[id].status =>
            \E e \in Editors : AskedFor(e, id, editors[e].status, rows'[id].status)
       /\ rows'[id].tally # rows[id].tally =>
            \E e \in Editors : AskedFor(e, id, editors[e].tally, rows'[id].tally)]_rows

\* The button of create.tsx is released, whatever becomes of the transaction, the
\* other requests and the API.  The exception is a 201 whose body cannot be read: only
\* a request that was answered with one leaves its form stuck.
SubmitterReleased ==
  \A c \in Forms :
    clients[c].pc = "loading" ~>
      \/ clients[c].pc \in {"idle", "moved"}
      \/ clients[c].pc = "stuck" /\ Answer(c) = "done"

\* backend/tests/test_main.py:164: a creation is answered with 201.  A request whose
\* election is on the chain does not end in an error.
CreationIsAnswered ==
  \A r \in RequestIds : requests[r].pc = "error" => CreatedBy(r) = {}
=============================================================================
