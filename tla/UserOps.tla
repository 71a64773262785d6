------------------------------ MODULE UserOps ------------------------------
(***************************************************************************)
(* User operations: the wallet page (pages/mint.tsx) and the voting page   *)
(* (pages/vote.tsx) from the click on, the way they build and send an      *)
(* operation (lib/accountAbstraction.ts, lib/ProofWalletAPI.ts on top of   *)
(* SimpleAccountAPI of the account-abstraction SDK), the bundler and the   *)
(* EntryPoint they send it to, contracts/WalletFactory.sol, and the manager *)
(* that takes the ballot.                                                  *)
(*                                                                         *)
(* A page has one pc per point where it waits for others.                  *)
(*   idle      its button is enabled                                       *)
(*   connect   eth_requestAccounts, getNetwork                             *)
(*   proofs    the requests for proofs (module ProofService)               *)
(*   check     the chains, the factory, the verifier, the deposit          *)
(*   prefund   depositTo, until it is mined                                *)
(*   create    createUnsignedUserOp, up to the code of the wallet          *)
(*   nonce     getNonce                                                    *)
(*   send      the paymaster, the signature, eth_sendUserOperation         *)
(*   stuck     nothing runs and the button stays disabled                  *)
(*                                                                         *)
(* An owner's wallets are told apart by their salts; the SDK uses Index.   *)
(* There is one election, and the proofs a page gets are valid.  Prices    *)
(* are in a unit of their own; every operation costs the same.             *)
(***************************************************************************)
EXTENDS Naturals

CONSTANTS
  Owners,       \* externally owned accounts
  MintPages, VotePages,
  OwnerOf,      \* page -> the account its wallet extension offers
  Salts, Index, \* Index is SimpleAccountAPI's, 0
  None,
  Prefund,      \* 0.01 ETH
  Cost,         \* what the EntryPoint takes for an operation
  MaxClicks,    \* bound: clicks on one page
  MaxFaults     \* bound: reloads, lost answers, switches of the chain

Pages == MintPages \union VotePages

ASSUME PagesAssumption ==
  /\ MintPages \intersect VotePages = {}
  /\ OwnerOf \in [Pages -> Owners]

ASSUME WalletAssumption ==
  /\ Index \in Salts /\ None \notin Salts
  /\ {Prefund, Cost} \subseteq Nat \ {0}
  /\ {MaxClicks, MaxFaults} \subseteq Nat

VARIABLES
  sponsored,    \* NEXT_PUBLIC_PAYMASTER is set
  admitted,     \* owners for whom isEligible of the election's verifier is
                \* true: all without a verifier, none with the zero address
  walletOf,     \* of the factory: owner -> salt of the registered wallet
  deployed,     \* wallets with code: <<owner, salt>>
  nonce,        \* EntryPoint: operations of the wallet with Index
  deposit,      \* EntryPoint: what it may spend
  open,         \* the manager takes messages
  pool,         \* operations the bundler has accepted
  ballots,      \* messages published, by the page that cast them
  home,         \* owners whose extension is on the chain of the bundler
  pages, clicks, faults

factoryVars == <<walletOf, deployed>>
entryVars == <<nonce, deposit>>
clientVars == <<home, pages, clicks, faults>>
vars == <<sponsored, admitted, factoryVars, entryVars, open, pool, ballots, clientVars>>

Busy == {"connect", "proofs", "check", "prefund", "create", "nonce", "send"}

\* home: the chain the provider has seen was the bundler's
\* init, nonce: of the operation
Page == [pc : Busy \union {"idle", "stuck"}, home : BOOLEAN, init : BOOLEAN, nonce : Nat]

Operation == [page : Pages, init : BOOLEAN, nonce : Nat]

Idle == [pc |-> "idle", home |-> FALSE, init |-> FALSE, nonce |-> 0]

Init ==
  /\ sponsored \in BOOLEAN
  /\ admitted \in SUBSET Owners
  /\ walletOf = [o \in Owners |-> None] /\ deployed = {}
  /\ nonce = [o \in Owners |-> 0] /\ deposit = [o \in Owners |-> 0]
  /\ open = TRUE
  /\ pool = {}
  /\ ballots = [p \in Pages |-> 0]
  /\ home \in SUBSET Owners
  /\ pages = [p \in Pages |-> Idle]
  /\ clicks = [p \in Pages |-> 0]
  /\ faults = 0

Fault == faults < MaxFaults /\ faults' = faults + 1

-----------------------------------------------------------------------------
(* WalletFactory, the EntryPoint, the bundler *)

HasCode(o) == <<o, Index>> \in deployed

\* Mutant: `already minted' is not checked, and CREATE2 fails for one salt only.
MintWalletAgain(o, salt) ==
  /\ <<o, salt>> \notin deployed
  /\ deployed' = deployed \union {<<o, salt>>}
  /\ walletOf' = [walletOf EXCEPT ![o] = salt]

\* mintWallet with a valid proof; CREATE2 reverts for a salt that was used.
MintWallet(o, salt) ==
  /\ walletOf[o] = None
  /\ <<o, salt>> \notin deployed
  /\ deployed' = deployed \union {<<o, salt>>}
  /\ walletOf' = [walletOf EXCEPT ![o] = salt]

\* Called directly, as scripts/test_election_flow.tsx does, with any salt.
DirectMint(o, salt) ==
  /\ MintWallet(o, salt)
  /\ UNCHANGED <<sponsored, admitted, entryVars, open, pool, ballots, clientVars>>

\* What the EntryPoint asks of an operation before it executes it: with code
\* to deploy, that the factory deploys.
Valid(op) ==
  LET o == OwnerOf[op.page] IN
  /\ op.nonce = nonce[o]
  /\ IF op.init THEN walletOf[o] = None /\ ~ HasCode(o) ELSE HasCode(o)
  /\ deposit[o] >= Cost

\* handleOps: the wallet is deployed if it has to be, the nonce is used up, and
\* the deposit pays, also when the call inside, enqueueMessage, reverts.
Execute(op) ==
  LET o == OwnerOf[op.page] IN
  /\ op \in pool /\ Valid(op)
  /\ pool' = pool \ {op}
  /\ IF op.init THEN MintWallet(o, Index) ELSE UNCHANGED factoryVars
  /\ nonce' = [nonce EXCEPT ![o] = @ + 1]
  /\ deposit' = [deposit EXCEPT ![o] = @ - Cost]
  /\ ballots' = IF op.page \in VotePages /\ open
                THEN [ballots EXCEPT ![op.page] = @ + 1] ELSE ballots
  /\ UNCHANGED <<sponsored, admitted, open, clientVars>>

\* The bundler drops what is no longer valid, and what it likes.
Drop(op) ==
  /\ op \in pool
  /\ pool' = pool \ {op}
  /\ UNCHANGED <<sponsored, admitted, factoryVars, entryVars, open, ballots, clientVars>>

\* The election's last block.
Close ==
  /\ open
  /\ open' = FALSE
  /\ UNCHANGED <<sponsored, admitted, factoryVars, entryVars, pool, ballots, clientVars>>

-----------------------------------------------------------------------------
(* The pages *)

outside == <<sponsored, admitted, factoryVars, open, pool, ballots, nonce, home>>

Go(p, page) == pages' = [pages EXCEPT ![p] = page]

\* The handler throws inside its try block: a toast, and finally.
Fail(p) == Go(p, Idle)

\* The provider finds its chain unchanged; ethers throws otherwise.
OnChain(p) == pages[p].home /\ OwnerOf[p] \in home

\* onMint, cast
Click(p) ==
  /\ pages[p].pc = "idle" /\ clicks[p] < MaxClicks
  /\ clicks' = [clicks EXCEPT ![p] = @ + 1]
  /\ Go(p, [Idle EXCEPT !.pc = "connect"])
  /\ UNCHANGED <<outside, deposit, faults>>

Connect(p) ==
  /\ pages[p].pc = "connect"
  /\ Go(p, [pages[p] EXCEPT !.pc = "proofs", !.home = OwnerOf[p] \in home])
  /\ UNCHANGED <<outside, deposit, clicks, faults>>

\* The user does not connect the account (eth_requestAccounts), or the provider
\* does not name its chain (getNetwork): mint.tsx catches both, while cast of
\* vote.tsx has not entered its try block and leaves `loading' set.
ConnectFails(p) ==
  /\ pages[p].pc = "connect"
  /\ IF p \in MintPages THEN Fail(p) ELSE Go(p, [Idle EXCEPT !.pc = "stuck"])
  /\ UNCHANGED <<outside, deposit, clicks, faults>>

Proved(p) ==
  /\ pages[p].pc = "proofs"
  /\ Go(p, [pages[p] EXCEPT !.pc = "check"])
  /\ UNCHANGED <<outside, deposit, clicks, faults>>

\* No token, no quota, no proof in time.
ProofsFail(p) ==
  /\ pages[p].pc = "proofs"
  /\ Fail(p)
  /\ UNCHANGED <<outside, deposit, clicks, faults>>

\* getAccountAddress: mint.tsx passes no verifier.
Admitted(p) == p \in MintPages \/ OwnerOf[p] \in admitted

\* Mutant: the chains are not compared.
CheckAnyChain(p) ==
  /\ pages[p].pc = "check" /\ Admitted(p)
  /\ Go(p, [pages[p] EXCEPT !.pc =
       IF ~ sponsored /\ deposit[OwnerOf[p]] = 0 THEN "prefund" ELSE "create"])
  /\ UNCHANGED <<outside, deposit, clicks, faults>>

\* bundleUserOp up to ensurePrefund's look at the deposit, which it does not
\* take when there is a paymaster.
Check(p) ==
  /\ pages[p].pc = "check" /\ OnChain(p) /\ Admitted(p)
  /\ Go(p, [pages[p] EXCEPT !.pc =
       IF ~ sponsored /\ deposit[OwnerOf[p]] = 0 THEN "prefund" ELSE "create"])
  /\ UNCHANGED <<outside, deposit, clicks, faults>>

\* Mutant: the exception leaves the handler with its button disabled.
CheckFailsSilently(p) ==
  /\ pages[p].pc = "check" /\ ~ Admitted(p)
  /\ UNCHANGED <<outside, deposit, pages, clicks, faults>>

CheckFails(p) ==
  /\ pages[p].pc = "check" /\ ~ Admitted(p)
  /\ Fail(p)
  /\ UNCHANGED <<outside, deposit, clicks, faults>>

\* depositTo, and tx.wait
EnsurePrefund(p) ==
  /\ pages[p].pc = "prefund" /\ OnChain(p)
  /\ deposit' = [deposit EXCEPT ![OwnerOf[p]] = @ + Prefund]
  /\ Go(p, [pages[p] EXCEPT !.pc = "create"])
  /\ UNCHANGED <<outside, clicks, faults>>

\* The SDK estimates the gas of the call, which reverts in a wallet that exists
\* for a closed election, and of the factory, which reverts for an owner that
\* has another wallet.
Estimated(p) ==
  LET o == OwnerOf[p] IN
  IF HasCode(o) THEN p \in MintPages \/ open ELSE walletOf[o] = None

\* createUnsignedUserOp with getAccountInitCode
CreateOp(p) ==
  /\ pages[p].pc = "create" /\ OnChain(p) /\ Estimated(p)
  /\ Go(p, [pages[p] EXCEPT !.pc = "nonce", !.init = ~ HasCode(OwnerOf[p])])
  /\ UNCHANGED <<outside, deposit, clicks, faults>>

CreateFails(p) ==
  /\ pages[p].pc = "create" /\ ~ Estimated(p)
  /\ Fail(p)
  /\ UNCHANGED <<outside, deposit, clicks, faults>>

\* getNonce looks at the code again.
ReadNonce(p) ==
  /\ pages[p].pc = "nonce" /\ OnChain(p)
  /\ Go(p, [pages[p] EXCEPT !.pc = "send",
              !.nonce = IF HasCode(OwnerOf[p]) THEN nonce[OwnerOf[p]] ELSE 0])
  /\ UNCHANGED <<outside, deposit, clicks, faults>>

WrongChain(p) ==
  /\ pages[p].pc \in {"check", "prefund", "create", "nonce"} /\ ~ OnChain(p)
  /\ Fail(p)
  /\ UNCHANGED <<outside, deposit, clicks, faults>>

\* /api/paymaster signs calls that begin with one selector, to the manager.
\* The call of every operation is the wallet's execute, which is another.
PaymasterSigns(target, selector) == target = "manager" /\ selector = "enqueueMessage"

Paid(p) == sponsored => PaymasterSigns(IF p \in VotePages THEN "manager" ELSE "owner", "execute")

Op(p) == [page |-> p, init |-> pages[p].init, nonce |-> pages[p].nonce]

\* The bundler simulates the operation; it keeps one per nonce.
Accepts(op) ==
  /\ Valid(op)
  /\ \A q \in pool : OwnerOf[q.page] = OwnerOf[op.page] => q.nonce # op.nonce

\* signUserOp, sendUserOpToBundler; the page shows the hash it gets.
Send(p) ==
  /\ pages[p].pc = "send" /\ Paid(p) /\ Accepts(Op(p))
  /\ pool' = pool \union {Op(p)}
  /\ Go(p, Idle)
  /\ UNCHANGED <<sponsored, admitted, factoryVars, entryVars, open, ballots, home, clicks, faults>>

\* Mutant: an answer that does not come makes the client build it again.
SendLostRetries(p) ==
  /\ pages[p].pc = "send" /\ Paid(p) /\ Accepts(Op(p))
  /\ Fault
  /\ pool' = pool \union {Op(p)}
  /\ Go(p, [pages[p] EXCEPT !.pc = "create"])
  /\ UNCHANGED <<sponsored, admitted, factoryVars, entryVars, open, ballots, home, clicks>>

\* The bundler has accepted it, its answer is lost: the page tells of an error.
SendLost(p) ==
  /\ pages[p].pc = "send" /\ Paid(p) /\ Accepts(Op(p))
  /\ Fault
  /\ pool' = pool \union {Op(p)}
  /\ Fail(p)
  /\ UNCHANGED <<sponsored, admitted, factoryVars, entryVars, open, ballots, home, clicks>>

SendFails(p) ==
  /\ pages[p].pc = "send" /\ ~ (Paid(p) /\ Accepts(Op(p)))
  /\ Fail(p)
  /\ UNCHANGED <<outside, deposit, clicks, faults>>

\* The user does not sign the deposit or the operation.
RefuseSignature(p) ==
  /\ pages[p].pc \in {"prefund", "send"}
  /\ Fail(p)
  /\ UNCHANGED <<outside, deposit, clicks, faults>>

\* The user reloads the page; a deposit under way is mined all the same.
Reload(p) ==
  /\ pages[p].pc # "idle"
  /\ Fault
  /\ Go(p, Idle)
  /\ \/ UNCHANGED deposit
     \/ /\ pages[p].pc = "prefund" /\ OnChain(p)
        /\ deposit' = [deposit EXCEPT ![OwnerOf[p]] = @ + Prefund]
  /\ UNCHANGED <<outside, clicks>>

SwitchChain(o) ==
  /\ Fault
  /\ home' = IF o \in home THEN home \ {o} ELSE home \union {o}
  /\ UNCHANGED <<sponsored, admitted, factoryVars, entryVars, open, pool, ballots, pages, clicks>>

-----------------------------------------------------------------------------
Step(p) ==
  \/ Connect(p) \/ ConnectFails(p) \/ Proved(p) \/ ProofsFail(p)
  \/ Check(p) \/ CheckFails(p) \/ EnsurePrefund(p) \/ CreateOp(p) \/ CreateFails(p)
  \/ ReadNonce(p) \/ WrongChain(p)
  \/ Send(p) \/ SendFails(p) \/ RefuseSignature(p)

User(p) == Click(p) \/ SendLost(p) \/ Reload(p)

Network ==
  \/ \E op \in pool : Execute(op) \/ Drop(op)
  \/ \E o \in Owners : SwitchChain(o) \/ \E s \in Salts : DirectMint(o, s)
  \/ Close

Next == Network \/ \E p \in Pages : Step(p) \/ User(p)

\* A page's calls are answered, and the user answers the extension's prompts.
Fairness == \A p \in Pages : WF_vars(Step(p))

Spec == Init /\ [][Next]_vars /\ Fairness

-----------------------------------------------------------------------------
(***************************************************************************)
(* Properties                                                              *)
(***************************************************************************)

\* The contracts and the pages have the types the code gives them; a page
\* that has built its operation has seen the bundler's chain.
TypeOK ==
  /\ sponsored \in BOOLEAN /\ open \in BOOLEAN
  /\ admitted \subseteq Owners /\ home \subseteq Owners
  /\ walletOf \in [Owners -> Salts \union {None}]
  /\ deployed \subseteq Owners \X Salts
  /\ nonce \in [Owners -> Nat] /\ deposit \in [Owners -> Nat]
  /\ pool \subseteq Operation
  /\ ballots \in [Pages -> Nat]
  /\ pages \in [Pages -> Page]
  /\ clicks \in [Pages -> 0 .. MaxClicks] /\ faults \in 0 .. MaxFaults
  /\ \A p \in Pages : pages[p].pc \in {"prefund", "create", "nonce", "send"} => pages[p].home

\* An owner has one wallet, the one the factory registers, however the pages,
\* the bundler and direct calls of mintWallet interleave; only the wallet the
\* pages use ever executes operations, and ballots come from no other.
WalletsAreRegistered ==
  /\ \A w \in deployed : walletOf[w[1]] = w[2]
  /\ \A o \in Owners : walletOf[o] # None => <<o, walletOf[o]>> \in deployed
  /\ \A o \in Owners : nonce[o] > 0 => walletOf[o] = Index
  /\ \A p \in Pages : ballots[p] > 0 => walletOf[OwnerOf[p]] = Index

\* A click casts one ballot at most: neither an answer that was lost, nor a
\* reload, nor another tab that uses the same nonce makes two of it.
OneBallotPerClick == \A p \in Pages : ballots[p] <= clicks[p]

\* A click is answered: the page is ready for the next one.  The exception is the
\* voting page when the account or the chain it asks for first is not given.
PagesAreReleased == \A p \in Pages : (pages[p].pc \in Busy) ~> (pages[p].pc \in {"idle", "stuck"})
=============================================================================
