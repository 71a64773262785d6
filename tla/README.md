# A verification project for Toting

Toting is a voting platform: Solidity contracts run elections and record
tallies on an EVM chain, a Python backend creates elections and makes
zero-knowledge proofs, a Python orchestrator tallies an election that is over,
a TypeScript daemon copies tallies to a Solana program, and a Next.js frontend
lets voters log in, prove eligibility and vote.

This directory holds TLA+ modules that model the parts of that system in which
order, failure and concurrency matter, the TLC configurations that check them
on small instances, and proofs that TLAPS checks for every instance.
`PROJECT.json` indexes the project: components, runs, mutants (one plausible
bug per property, which the property must catch), the source lines each
definition stands for, hazards, findings and theorems. Paths below are
relative to the repository's root.

Check a model with `tlc -config <cfg> <module>`, the proofs with
`tlapm <Module>Proofs.tla`.

## 1. Inventory

| Component | State it keeps | Operations | Hard because |
|---|---|---|---|
| **Election manager** `contracts/ElectionManagerV2.sol` (behind an ERC1967 proxy), with `OwnableUpgradeable`, `ParticipationBadge`, `MockMACI`, `QuadraticVotingStrategy`, `TallyVerifier` | elections (start, end block), strategy, tally result per id, `nextId`, V1's global `tallied` and `result`, owner, badges; event logs | `createElection` (2), `enqueueMessage`, `tallyVotes`, `performUpkeep`, `transferOwnership`, `upgradeTo`; views `checkUpkeep`, `elections` | many callers order transactions within one block; two entry points to the tally; block-height boundaries; ids that do not exist read as zeroes |
| **Relay daemon** `services/relay-daemon/index.ts` | Postgres: `relay_state.last_block`, `dead_letter_queue`; memory: `last`, the batch, the attempt, `latestElectionPDA` | start, poll, fetch logs, bridge, dead-letter, save | crashes and restarts anywhere, failing RPCs and queries, writes that commit although the caller saw an error, transactions that land late, chain reorganisations |
| **Solana mirror** `solana-programs/election/src/lib.rs` | an account per mirrored election | `initialise`, `set_tally` | used by the relay and by any other wallet; retries |
| **Orchestrator** `services/orchestrator/main.py` | position of the watch, end block, a transaction | watch, wait, prove, submit, await the receipt | reads overtaken by new blocks, swallowed errors, the race with `performUpkeep`, a shared nonce; not restarted |
| **Election API** `packages/backend/main.py`, `db.py`, with the forms `elections/create.tsx`, `AdminElectionForm.tsx`, `elections/[id].tsx`, `AdminStatusForm.tsx` | `elections` table; progress of each request | create, update, read | one request spans a nonce, a transaction, a receipt, a getter and an insert, side by side with other requests and with the orchestrator, which has the same account |
| **Proof service** `packages/backend/main.py`, `proof.py` | daily quota, Celery queue and results, per-process cache, audit rows | submit, run, poll, stream | quota against retries and cache hits, worker-local cache, clients giving up |
| **Voting client** `packages/frontend` (`vote.tsx`, `VoteHandler.tsx`, `ProgressOverlay.tsx`, ...) | job and user operation in progress | prove, poll, send | timeouts against late answers |
| **User operations** `mint.tsx`, `vote.tsx`, `lib/accountAbstraction.ts`, `lib/ProofWalletAPI.ts`, `WalletFactory.sol`, `SmartWallet.sol`, `VerifyingPaymaster.sol` | progress of a page; wallet per owner, nonce and deposit of a wallet, the bundler's pool | check, deposit, build, sign, send, mint, execute | a dozen awaits between the click and the operation; lost answers; two tabs with one wallet; direct mints |
| **QV and deposits** `contracts/QVManager.sol`, `DepositManager.sol` | seen ballots, nullifiers | submit, deposit | replay |
| **Circuits** `circuits/` | none | constraints over a field | rounding and range edges |
| **Sessions** `lib/AuthProvider.tsx`, `login.tsx`, `auth/callback.tsx`, `MockLoginModal.tsx`, `AccountMenu.tsx`, `withAuth.tsx` | token, eligibility and mode, in React state and in sessionStorage; the login page's banner, modal and intervals | login by popup, modal or redirect, logout, toggle, guards | late messages and answers, reloads, popups that share a name or are blocked |
| **Views of the mirror** `solana.tsx`, `elections/[id]/results.tsx`, and the relay's WebSocket server | sockets, subscriptions, what is shown | connect, reconnect, fetch, subscribe, leave | restarts of the relay, pages left with requests under way |
| V1 manager, governance, presentation-only pages, deployment scripts | | | replaced, configured from a library, or pure I/O |

How they interact: the backend and the orchestrator send transactions to the
manager with *the same key* (`ORCHESTRATOR_KEY`); voters reach it directly or
through smart wallets. The manager calls MACI, the badge contract (it is its
owner) and the election's voting strategy within one transaction. The
orchestrator finds election 0 by its `ElectionCreated` log and reads
`elections(0)`. The relay reads `Tally` logs and calls the Solana program with
its own wallet; it shares its Postgres server with the backend, which creates
the `dead_letter_queue` table. The frontend reads the contract's storage, the
backend's REST API and the relay's WebSocket.

What makes each component correct:

- *Manager*: ballots only inside the window, tallies only after it; one tally
  per election, with a proof its own strategy accepts; storage, events and V1's
  getters agree; ids without gaps.
- *Relay and mirror*: no confirmed tally is skipped whatever fails; nothing of
  a dropped block and nothing another wallet made up is mirrored; an account is
  written once; every confirmed tally is in the end mirrored or in the dead
  letter queue.
- *Orchestrator*: the creation of election 0 is not missed; the tally is never
  sent too early; success means that its transaction tallied the election.
- *Election API*: the table and the chain agree; one request, one election; an
  answer of 201 is true; an update does not undo another.
- *Proof service*: the quota bounds the jobs, an answer is audited and final, a
  client that waits gets an answer, a repeated request costs no second proof (it
  does: section 5).
- *User operations*: one wallet per owner, one ballot per click, every click is
  answered (but for the one case of section 5).
- *Sessions*: what is shown survives a reload, an eligibility belongs to its
  token, nobody with a session is sent to log in, a login that ends without one
  says so (but for the one case of section 5).
- *Views*: a page holds at most one connection, and nothing loads or streams for ever.

## 2. What is modelled, and where

```
ElectionLifecycle  <== refines ==  ElectionManager  <-- EXTENDS --  Orchestrator
                                        ^
                                        +-- ElectionManagerProofs  (a)

TallyBridge        <== refines ==  RelayDaemon  -- EXTENDS -->   EvmChain
                                                -- INSTANCE -->  ElectionMirror
                                   Views        -- INSTANCE -->  ElectionMirror

ProofService     Elections     Session     UserOps
```

Each detailed module `M` has its theorems in `MProofs`, which extends it;
`OrchestratorProofs` extends (a) too, and takes the contract's invariant from it.

### ElectionManager (abstract: ElectionLifecycle)

A transaction is atomic and a failing `require` undoes it, so an external
function is one action guarded by every `require` on its path, those of the
contracts it calls included (`EnqueueMessage` is the window, the MACI message
and `safeMint`, which refuses receivers without `onERC721Received`). `block`
is `block.number`; `Mine` is the only action that moves it, so any number of
transactions share a block in any order. Event logs are sequences with the
block of each event. `performUpkeep` may be sent by anybody; `tallyVotes` and
creation only by the owner. `Ids` has one id more than can be created, so
requests for an election that does not exist are always among those explored.

Abstracted: a Groth16 proof is the tally pair in its first two public signals,
and `Accepted[s]` the pairs for which strategy `s` has a proof that verifies.
Vote bytes and the metadata hash are never read by the contract.
`upgradeTo` changes the implementation slot; the code behind it is assumed to
stay V2's.

`ElectionLifecycle` is the promise without blocks and proofs: elections open in
order of their ids, take fresh badges while open, close, and are declared once.

### RelayDaemon, EvmChain, ElectionMirror (abstract: TallyBridge)

The daemon is one `async` function; others get ahead of it only where it
awaits. There is one `pc` value per awaited call and one action per outcome;
the code between two awaits belongs to the action before it. `memoryVars` is
lost in a crash, `tableVars` is not. `WriteLost` lets every failing write be
committed or not. A `set_tally` whose confirmation did not arrive stays in
`inflight`; it may land much later, during a retry, after the tally was
parked, or after a restart (`Settle`), or never (`Expire`). The chain drops up
to `MaxReorg` blocks in a reorganisation and puts other blocks with other
hashes, and other tallies, in their place.

`ElectionMirror` is the program: `initialise` creates an account at an address
whose key signs, `set_tally` demands an account, its authority's signature and
`!finalised`. `Premade` is the set of program-derived addresses (PDAs) that
hold an account of the relay from the start. *As deployed it is empty* (see
finding 1). The passing relay runs make it non-empty, as
`test/e2e/relayDaemon.test.ts` assumes it is, since with no account at all
most of what the daemon has to get right could not be seen.

`TallyBridge` is the relay's promise without heights, forks and processes: a
final tally is mirrored or parked, and left behind only after one of the two;
none of this is undone.

Abstracted: the metrics server and the WebSocket's five-second timer change no
state here (`Views` models it). One daemon runs. One RPC
endpoint answers. Rows of the dead letter queue for one log are one element.
Rollbacks of Solana's `confirmed` commitment are left out.

### Orchestrator

Extends the contract, so that its steps interleave with those of every other
account. One action stands for the code from one RPC (or the run of snarkjs) to
the next. The RPC shows sealed blocks; the head is read in `Watch`, the logs in
`Scan`, and blocks may be mined in between. `ReadFails` is the inner
`except: continue`, `ScanFails` the outer `except`, `Dies` any uncaught
exception or kill. `Lose` is the transaction whose nonce the backend took.

Two facts of the code shape the model. No contract of the repository emits
`VoteCast`, so the counted votes, and the tally pair, are always `[0, 0]`. And
`qv_tally.circom` as shipped has one public output where `TallyVerifier` takes
`uint256[7]`: with `PublicSignals # 7` the process ends in `submit`. The runs
use an artifact that fits (`PublicSignals = 7`).

### ProofService

The REST and WebSocket endpoints of `main.py`, the Celery task of `proof.py`,
and two clients whose requests meet in one quota: `vote.tsx` posts two requests
at once and polls, `eligibility.tsx` posts one and waits on a socket. A *leg*
is one request of a client, from the POST to the end of the wait.

The API is one asyncio process. `increment_quota` is one SQL statement
(Postgres; the SQLite branch is for tests), followed by the handler's only
`await`, for the body: `Charge`, then `AnswerFromCache`, `Enqueue` or
`RunInPlace`, with requests of other clients, midnight or a restart in between.
In the worker, a child of the pool takes a message (acknowledged at that
moment), proves and caches, commits the audit row, returns: a query may fail,
the child may be killed, or the container may end, after any of these steps.
`eager` is chosen once: `CELERY_TASK_ALWAYS_EAGER` runs the task inside the API.
Every process has its own `cache`.

Two clients' quirks are kept. A cache hit has no `job_id`: `vote.tsx` polls for
job `undefined` until it gives up, `eligibility.tsx` opens no overlay and shows
its spinner (`stuck`) until it is reloaded, as it does after any error but 429.
And `ProgressOverlay` takes a closed socket for the end of the job.

Abstracted: a snarkjs failure ends in the dummy proof, so a proof is always
made; nothing activates a circuit while a job runs; results do not expire; the
broker does not fail after it has accepted a job; a voter whose POST gets no
answer waits for the other one before trying again.

### Elections

`create_election` is a synchronous handler: FastAPI runs it in a thread, side by
side with others, and it goes on when its client has gone. One action stands
for the code from one call (node or database) to the next: `Sign` reads the
number of *mined* transactions as its nonce, `Send` is refused when that nonce
was taken meanwhile or when the pool holds another transaction with it,
`SendReplaces` takes its place when the gas price has risen, `Receipt`,
`Timeout`, `ReadElection`, `Persist` follow. `OrchestratorSends` is the tally
transaction of the same account, of which only the nonce matters here.
`PersistFails` is a commit whose confirmation, or what follows it, fails: the row
is there, the answer is an error. What raises outside the handler's `try` blocks
(`Raise`) is answered without CORS headers, which only a local deployment lets
the page read. `ApiRestart` kills every handler; its transactions go on. The forms
are both pages that create (`Answered`, `AdminAnswered` differ in what a rejected
fetch leaves behind; `AnswerUnread` is a 201 whose body cannot be read, which
neither catches), the editors both that update. An update is a read and a commit
of the columns that differ from what was read (SQLAlchemy), with another
update in between.

`encodes` and `getter` are facts of the deployment that the code leaves open:
whether web3's contract object has `encodeABI` (7.12, which
`packages/backend/requirements.txt` pins, has not, and `"0x"` is sent, which
reverts), and how many values `elections(id)` returns (the contract here: two;
the tests of the backend: three). `elections` explores all four combinations,
`elections_create` the one the handler's comments suppose.

Abstracted: the pin of the metadata before the transaction, the end block (a
function of the start), gas prices. The chain does not reorganise.

### Session

One tab, its popup and the backend's answers. `auth` is React's state,
`storage` is sessionStorage; a token is known by its user and the eligibility
issued with it. A new document (`Load`) loses the state, the requests and the
undelivered messages, not the storage and not the popup; the effects of a page
in the same document are `Follow`, `Back` and `Show`. Clicks on the eID button
have numbers, because each rendering of the login page has a `poll` of its own:
`Tick` clears the interval the rendering knows, which may not be the one that
ran. The browser may block the popup (`PopupBlocked`), which is opened after an
`await`: `window.open` gives null, and `startLogin` ends without an interval.
`login.blocked` remembers such clicks while the page is shown, for `FlowsEnd`.
`orphaned` are requests whose login page was left; their answer opens a
popup or saves the mode all the same. What navigates to a path drops the query
(`query`); a login that overtakes the router's first reading of the URL may or
may not. `real` is `USE_REAL_OAUTH`: what the
deployment does not do without a fault is guarded by `Needs`.

Abstracted: expiry of tokens, languages, analytics, the form of role changes
(it changes nothing in the tab). `Shown` says what a page shows, through
`withAuth` (`Protected`) or the creation page's own gates (`Gate`).

### UserOps

`mint.tsx` and `vote.tsx` share the way from the proofs to the operation. There
is one `pc` value per await or group of awaits that nothing else in the model
can tell apart. `home` says whose wallet extension is on the bundler's chain;
ethers' provider compares the network with each call, so a page that has seen
one chain fails when it meets another (`OnChain`). `ConnectFails` is a refusal
of `eth_requestAccounts` or a failing `getNetwork`: `mint.tsx` catches both,
`vote.tsx` is left with its buttons disabled (`stuck`). The bundler may keep or drop
what it accepted; the EntryPoint demands a matching nonce, code or a factory
that deploys, and a deposit, and takes the nonce and the price also when the
ballot reverts, as `enqueueMessage` does in a closed election. `DirectMint` is
`mintWallet` called without an operation, with any salt, as
`scripts/test_election_flow.tsx` does.

With `sponsored`, the paymaster signs only calldata that begins with
`0x7cb85bf8`; every operation's calldata is the wallet's `execute`, so `Paid` is
false and no sponsored operation is sent. That is why `VerifyingPaymaster`'s
accounting is not modelled: no code of the repository reaches it.

Abstracted: prices are in units (`Prefund`, `Cost`), every operation costs the
same, proofs are those of `ProofService` and valid.

### Views

The relay's WebSocket server (an interval per connection, cleared when it
closes), the chart's `connectWithRetry`, and the results page, which asks a
Solana node itself. A socket is `wired` when its handlers were set: the first
one of a page never is (section 5). `Ended` is the close event, which
calls `check` if somebody listens. A results page keeps its state and its
requests when only the id in the route changes (`OtherResults`), while SWR has
no data for the new key: answers meet the next election's state. The relay
writes accounts of block hashes (`BlockPda`), the results page reads accounts
of metadata hashes (`MetaPda`); `ViewsAssumption` says that they differ.

Abstracted: pauses before reconnections, pings.

## 3. Runs

All runs bound what would grow for ever; each bound is a constant of the module
and a conjunct of a guard.

| Run | Shows | Bounds, and why they are enough |
|---|---|---|
| `manager` | Storage, logs, ballots and tallies stay consistent for all interleavings of all callers; `ElectionManager` implements `ElectionLifecycle`. | 4 blocks, windows of 2 blocks, 2 elections, 2 messages: windows overlap, follow each other and end in one block, every boundary (`start`, `end`, `end + 1`) is met by every operation, tallies come in either order. 3 accounts: the owner, another wallet, a contract that refuses badges. One pair has no proof. |
| `relay` | No tally is skipped, none of a dropped block is mirrored, the cursor advances; `RelayDaemon` implements `TallyBridge`. | 2 tallies, at most 2 per block (they share an account), 4 blocks, one reorganisation exactly as deep as the confirmations awaited, 2 faults of any kind (so a fault during the recovery from a fault), 2 attempts (one retry), a pair that fits no `u64`. |
| `relay_live` | Under fairness every confirmed tally is in the end mirrored or parked. | As above with 3 blocks and 1 fault; only odd heights have an account; another wallet uses the program. |
| `relay_mirror` (violation) | Finding 1. | As deployed; no faults, no forks, no confirmations, as in the end-to-end test. |
| `orchestrator` | The creation of election 0 is seen, success means tallied, and without failures election 0 is tallied in the end. | 5 blocks, 2 elections (logs of another id after id 0's), 1 fault, another account that upkeeps and takes ownership. |
| `orchestrator_watch` (violation) | Finding 2. | 1 election, 1 fault. |
| `proof_service` | The quota bounds the jobs and each was charged to its day; a proof that is handed out has its audit row; answers are final; jobs are answered while the worker container stays up; the voting page never waits for ever. | One user with a voting page (two requests at once) and an eligibility page: any two of the three requests compete for the quota's last unit. Quota 2, so that a third request of a day is refused; 2 days; 3 jobs; 1 poll; a worker of one process (jobs do not share state within it); both modes; 1 fault of any kind. |
| `session` | State and storage agree, eligibility belongs to its token, a stored session is not sent to log in, a login that ends without a session says so, unless its popup was blocked. | Two users, one of them an admin, whose logins overlap; both deployments; 2 clicks on the eID button (two intervals, one popup or two), 1 redirect to go back to, 1 failing request; any popup may be blocked. |
| `elections` | Table and chain agree, 201 is true, one election per request, updates keep each other's columns, the form is released unless the body of its 201 is lost. | 2 creations with equal or different metadata from two kinds of form, 1 tally transaction between them, 2 overlapping updates, 1 fault (late receipt, failing call, failure after the commit, a body cut off, or restart). Updates come after the creations (`Quiet`), with which they share no column. |
| `elections_create` (violation) | Finding 3. | No faults. |
| `user_ops` | One wallet per owner, one ballot per click, every click answered, unless the voting page gets no account or chain. | One owner with both pages open (they compete for the wallet and its nonce), 2 salts, 2 clicks per page, a deposit of 3 that pays one operation and leaves a remainder, 2 faults. |
| `views` | Pages hold at most one connection; nothing loads or streams for ever. | One chart and one results tab over two elections, 2 visits, 3 sockets, 2 faults; one metadata and one block address hold an account. |

Deadlock is not checked: in every model something bounded comes to an end (the
chain at its last block, clicks, visits, requests), and the orchestrator is a
process that ends. A system that should go on and cannot
would show in the liveness properties.

`MirrorIsCanonical`, `NoTallySkipped` and `BridgeSpec` are claims about
reorganisations no deeper than `CONFIRMATIONS` (`SafeDepth`); the code awaits
confirmations for exactly that reason and promises nothing beyond.

### Fairness

- `WF(Daemon)`, relay: `docker-compose.yml` restarts the container, the loop
  sleeps and continues, an awaited call returns or throws. Faults are never
  fair, and bounded.
- `WF(CreateTables)`, relay: the backend is part of the same deployment and
  runs `create_all` when it starts. Until then the daemon ends in its first
  query and is restarted.
- `WF(Process)`, orchestrator: a process that is running takes its next step.
  Its death is a fault, after which nothing is promised: compose does not
  restart it.
- `WF(Mine)`, `WF(Execute)`: blocks are produced and a valid pending
  transaction is included.

- `WF` of each handler, poll and socket, and of each page's next step, proof
  service: asyncio resumes a handler whose body has arrived, timers fire,
  promises settle. A restart of the API (uvicorn runs with `--reload`) cuts its
  handlers and sockets; it is a fault.
- `WF(Work(w))`, proof service: a child of a running pool works. Nothing
  restarts the worker container, so `PoolUp` is not fair and `JobsAreAnswered`
  assumes that it stays up.

- `Elections`: pending transactions are mined, handlers' threads run (a wait for
  a receipt ends after 120 seconds), and `create.tsx` handles its answer; a body
  that cannot be read (`AnswerUnread`) is a fault. No fairness for `AdminElectionForm`, which is not promised anything.
- `Session`: effects, message handlers and intervals run, requests are answered
  or fail (`Initiated`: with the modal, with a popup, or with a blocked one), and a
  popup that opened ends (`PopupEnds`: the user answers, or closes it). The
  modal and the pages wait for the user and are not fair.
- `UserOps`: `WF(Step(p))`: a page's calls are answered or fail, and the user
  answers the extension's prompts, with a yes or a no. Bundler and EntryPoint are
  not fair: the page does not wait for them.
- `Views`: the relay is restarted (`docker-compose.yml`), accepts, streams and
  notices closed sockets; requests of the results page end. The chart's next
  connection is not fair.

No upkeep, no voter and no owner is assumed to do anything.

## 4. Proofs

### The election manager

`ElectionManagerProofs` proves, for all accounts, strategies, tallies, window
lengths and bounds, from `BoundsAssumption` (the numbers are naturals and the
deployment block is not 0) and `ValuesAssumption` (the owner is an account,
`address(0)` is none, no strategy is the zero address):

| Theorem | Property |
|---|---|
| `TypeCorrect` | `TypeOK` |
| `Invariance` | the inductive invariant `IInv` |
| `BallotsBeforeTally` | `BallotsPrecedeTally` |
| `TalliedOnce` | `OneTallyPerElection` |
| `TallyNeedsProof` | `TalliedWithProof` |
| `ResultIsLatest` | `GlobalResultIsLatest` |
| `CreationLogFaithful` | `CreationLogMatchesStorage` |
| `ImplementsLifecycle` | `LifecycleSpec`, the refinement |

Why `IInv` is stronger than the properties: that ballots precede tallies does
not follow from itself, because a step appends to one log and must be compared
with every entry of the other. `BallotWindow` says that each badge was minted
at or before its election's end block, `TallyWindow` that each tally came after
it and not in the future; the two meet in `end`, which never changes once set.
That needs `Uncreated` (an id not yet created has zeroes, no strategy and no
tally, and by the window invariants no badge: `createElection` must not move
the window of an election that already has ballots), `CreatedBefore` for the block order of creations, and
`Counted` (badges are at most messages) for the refinement, in which badge
numbers are tokens. `TalliedWithProof` is inductive only together with
`OneTallyPerElection` and `Uncreated`: the strategy check is what keeps ids that
do not exist from being tallied, since `block.number > 0` holds for their zero
end block.

Each action has a lemma, with one step for each conjunct it can disturb. The
refinement proof maps `Mine` to `Close(S)` for the set `S` of elections whose
last block it leaves, and every other action to its namesake or to a stutter.

### User operations

`UserOpsProofs` proves, for all owners, pages, salts, prices and bounds, from
`PagesAssumption` and `WalletAssumption`:

| Theorem | Property |
|---|---|
| `TypeCorrect` | `TypeOK` |
| `OneWallet` | `WalletsAreRegistered` |
| `OneBallot` | `OneBallotPerClick` |

`WalletsAreRegistered` is inductive with `TypeOK`: a wallet gets code only
together with its registration, and an operation is executed for the wallet with
`Index` only. `OneBallotPerClick` is not inductive: an operation in the pool is a
ballot to come, and so is a page that is still building one. `CastOnce` counts
them: for each page, ballots, plus the operations of it in the pool, plus one if
it is between `connect` and `send`, are at most its clicks. A click adds one to
both sides, sending moves the unit from the page to the pool whether the
answer arrives or not, execution moves it to the ballots, and dropping, failing
and reloading only give units up. That the pool never holds one operation of a
page twice as the same element is where the nonces come in.

### The relay

`RelayDaemonProofs` proves, for all heights, tallies, accounts, attempts and
faults, from `ChainAssumption` and `RelayAssumption` (the bounds are naturals,
at least one attempt is made, pairs that can be written are pairs, the relayer
is a signer, and a PDA has no key):

| Theorem | Property | Needs |
|---|---|---|
| `TypeCorrect` | `TypeOK` | |
| `CursorNeverBack` | `CursorAdvances` | |
| `Invariance` | the inductive invariant `IInv` | `SafeDepth` |
| `MirrorCanonical` | `MirrorIsCanonical` | states `SafeDepth` itself |
| `NothingSkipped` | `NoTallySkipped` | states `SafeDepth` itself |
| `ImplementsBridge` | `BridgeSpec`, the refinement | `SafeDepth` |

The cursor cannot go back because what is saved is the end of a range that
begins at the row (`CursorBehind`); nothing is asked of the chain for it.

The rest rests on one notion. A height is `Deep` when it is at least
`Confirmations` below the greatest height the chain ever had: no reorganisation
of a depth the relay awaits reaches it again (`DeepStays`). `IInv` says that
everything the daemon holds is deep: the end of the range, the block it counts
as done, the logs of its batch, the content of every transaction still in
flight, and of every written account of a block. That last one needs
`OwnAccounts`: no other wallet can create an account at the address of a block,
which has no key. Nothing is skipped because of `RangeAccounted`: while the
daemon is in its loop, each log of the range is still in the batch or has been
settled, so that when the batch is empty the cursor may move; at "recount" the
log that leaves the batch is in the table already. `BatchCanonical` makes that
last, because no new log can appear in a deep range.

For the refinement, a tally enters the abstract `final` when its height gets
deep, `mirrored` or `parked` when its account or row does, and `passed` when the
cursor is beyond it. What is not a stutter: blocks and the first row of the
cursor (`Finalise`), a `set_tally` that lands, at once or late (`Mirror`), the row
in the queue (`Park`), and later rows of the cursor (`Pass`).

### The orchestrator

`OrchestratorProofs` proves, from the manager's assumptions and
`OrchAssumption` (the orchestrator has an account):

| Theorem | Property |
|---|---|
| `RunsTheContract` | `Spec` of `ElectionManager`, which `OrchSpec` implements |
| `OrchInvariance` | `OrchIInv`, the manager's `IInv` with what the process knows |
| `OrchTypeCorrect` | `OrchTypeOK` |
| `WatchMissesNothing` | `NothingMissed` |
| `SuccessIsTallied` | `SuccessMeansTallied` |

`RunsTheContract` makes every theorem about the manager hold of the composition:
the process changes the contract by `tallyVotes` alone. `WatchMissesNothing` then
uses the contract's `CreatedBefore` (logs are in block order): the block the process
counts as scanned is the greatest of the logs it was given, or a head it read
before it asked for logs, so a log it has not seen is in a later block.
`SuccessMeansTallied` is inductive with `MinedMeansTallied`: a tally that is
recorded is never changed again.

### The elections of the backend

`ElectionsProofs`, from `ElectionsAssumption` (the forms differ, `None` is no
metadata, status, tally or request, the bounds are naturals):

| Theorem | Property |
|---|---|
| `TypeCorrect` | `TypeOK` |
| `Invariance` | the inductive invariant `IInv` |
| `ElectionPerRequest` | `OneElectionPerRequest` |
| `RowsAreOfTheChain` | `RowsMatchChain` |
| `CreatorFinds` | `CreatorFindsElection` |
| `OtherColumnsKept` | `UpdatesKeepOtherColumns` |

That a request creates one election is not inductive: what could break it is a
second transaction of the same request. `SentOnce` says that a request which has
not sent has nothing in the pool, and that one with an election has nothing
there any more, for every outcome of the race for the nonce. `OwnReceipt` ties
the id a request took from its receipt to its own event, which is what makes the
row it writes the chain's record; `AnswersKnown` ties a page to its request.

### The session

`SessionProofs`, from `SessionAssumption` (administrators are users, `None` is no
token, the bounds are naturals):

| Theorem | Property |
|---|---|
| `TypeCorrect` | `TypeOK` |
| `Invariance` | the inductive invariant `IInv` |
| `ReloadChangesNothing` | `SessionSurvivesReload` |
| `EligibilityIsOfToken` | `EligibilityOfToken` |
| `SessionNotDropped` | `SessionIsNotDropped` |

`SessionSurvivesReload` is about what a page shows and is not inductive; `Stored`
is: when the provider is ready, the storage is what it would save of its state,
and empty of a token when the state has none. `Unread` is what excuses the time
before the provider is ready: nothing has been asked and nobody has logged in.
The type of a window's number needs a count, `WindowsOfClicks`: the windows
opened and the requests that may still open one are together at most the clicks.

### The proof service

`ProofServiceProofs`, from `ServiceAssumption` (each client has a user, the API
is not a worker, at least one poll and one day, other numbers naturals):

| Theorem | Property |
|---|---|
| `TypeCorrect` | `TypeOK` |
| `Invariance` | the inductive invariant `IInv` |
| `QuotaHolds` | `JobsWithinQuota` |
| `SuccessIsAudited` | `SucceededIsAudited` |
| `AnswersStand` | `AnswerStands` |

`JobsWithinQuota` counts the jobs of a user and a day together with the requests
that were charged and wait for their body; so stated it is inductive, and each
step moves a unit from one count to the other, or gives one up. Beside it
`RoomKept` counts the POSTs on their way against the model's bound on jobs: a
page posts only if there is room, and other pages do not take it. That an answer
is final rests on who has the job: a job without an answer is in the queue once,
or with one worker (`QueueOwns`, `WorkersOwn`, `WorkersDiffer`), so no other
worker can answer it. That a success is audited is the same fact at the step
"return", where the row must have been committed.

### The views

`ViewsProofs`, from `ViewsAssumption` (the address of metadata is not one of a
block, `None` is not a value, a tally is not what an account is created with, the
relayer is a signer):

| Theorem | Property |
|---|---|
| `TypeCorrect` | `TypeOK`, with: a page is never sent the votes of an unwritten account |
| `Invariance` | the inductive invariant `IInv` |
| `OneConnection` | `PagesHoldOneConnection` |

That a tab has one live socket does not follow from itself: a new one is made
when the *last* one is closed, so the invariant is that no other than the last is
ever alive, and none when the page was left (`ChartOK`). `MirrorPart` says that
the account the relay streams was written, and `WrittenStays` that no wallet
writes it again. The listeners are, for each tab, those of the data it shows
(`Mine(t) = ListenersOf(t)`); a tab without a page has no data.

### How the invariants were found

Each inductive invariant was first checked by TLC on the run of its component,
as an `INVARIANT` beside the others, and then proved. The assumptions that name
facts of Solana and of the data (a PDA has no key, a tally is told apart from
the zeroes of a new account, `None` is no request's number) were found by the
proofs: the runs' constants had them all along.

### Only model-checked

Liveness (`EventuallySettled`, `TalliesInTheEnd`, `SubmitterReleased`,
`JobsAreAnswered`, `VotersAreReleased`, `FlowsEnd`, `PagesAreReleased`,
`ViewsSettle`): fairness is out of the prover's reach. Every invariant, action
property and refinement of the passing runs is proved. The runs that must fail
are TLC's alone.

## 5. Findings

Each of these is a run that must fail:

1. `relay_mirror`: the relay calls `set_tally` on the PDA of the block hash. No
   service calls `initialise`, which could not create an account at a PDA
   anyway. Every tally ends in the dead letter queue.
2. `orchestrator_watch`: when `elections(0)` fails once, the block of
   `ElectionCreated(0)` counts as scanned and the process polls for ever.
3. `elections_create`: a creation that is mined ends in a 500: the handler reads
   three values from a getter that returns two.

What else the models show, without a run of its own (the property would restate
one step):

- An election created by `createElection(bytes32)` has no strategy. `checkUpkeep`
  answers true for it for ever and `performUpkeep` always reverts.
- A `set_tally` that landed without its confirmation arriving, or one replayed
  after a crash, is refused ("already done") five times, and the mirrored tally
  is put in the queue of "events that failed to be bridged"
  (`packages/backend/db.py:84`).
- `PROOF_CACHE` is a dictionary of each process: the one that is asked (the
  API's) is never filled by the worker, so repeats are proved again
  (`docs/integration_pbis.md:30` plans a shared cache).
- web3 7.12 has no `encodeABI`: the backend sends `"0x"`, which reverts.
- A user who tries again after a late receipt (`main.py:482`) creates a second
  election; with the same metadata its row is refused, and only the chain has it.
- `AdminElectionForm` and `AdminStatusForm` do not catch a rejected fetch: their
  button stays disabled until the page is reloaded. So do those of `vote.tsx`
  when the user refuses to connect or the provider fails (`vote.tsx:120` and `:121`
  are before the `try`), and those of both creating forms when the body of a 201
  cannot be read (`create.tsx:50` is behind it).
- A popup that the browser blocks ends the eID login without a word: the interval,
  and with it the banner, is for a window that opened (`login.tsx:57`).
- A failure behind the commit (`main.py:555`) leaves the row of an election whose
  creation was answered with an error.
- The chart's first socket is made without handlers (`solana.tsx:12`) and is
  never closed or null when `check` looks at it (`:57`): the chart hears nothing
  and does not reconnect, where `docs/frontend_pbis.md:46` has it "updates within
  2 s of relay".
- The results page reads the account of the metadata hash, the relay writes the
  one of the block hash: the page never shows a tally.
- A sponsored operation is never sent (see UserOps). An unsponsored wallet whose
  deposit is neither zero nor enough for an operation is not topped up
  (`accountAbstraction.ts:63`), and an owner whose wallet was minted directly
  with another salt than 0 cannot send operations from the pages at all.

## 6. Plan

In order:

1. `ProofService`: an abstract specification of a metered job service (charged,
   then made, then answered once), with the proof that it is implemented, in the
   place of a shallower property.
2. `Elections`: an abstract ledger (elections are appended, rows follow their
   elections, updates touch one column), likewise.
3. `Views` and `RelayDaemon`: the facts about `ElectionMirror` that both proof
   modules establish for themselves, stated alike.

## 7. Not modelled, and why

Groth16, pairing checks, signatures and hashes: cryptography is a relation
("has an acceptable proof"). The V1 manager is replaced; only the storage V2
keeps is modelled. The DAO, token and timelock are OpenZeppelin contracts with
parameters. Pages that present data, deployment scripts and metrics keep no
state of the protocol. `QVManager` and `DepositManager` keep one mapping each,
checked and set within one transaction, and no service calls them. The circuits
are constraints without state; what they accept is the relation `Accepted`.
`VerifyingPaymaster`'s accounting is reached by no operation the code can send.
`VoteHandler.tsx` is rendered by no page, and the gRPC server started by nothing.
