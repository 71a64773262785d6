--------------------------- MODULE UserOpsProofs ---------------------------
(***************************************************************************)
(* Theorems about UserOps, for any number of owners, pages, salts, clicks  *)
(* and faults: the type invariant, one wallet per owner, and one ballot    *)
(* per click at most.                                                      *)
(*                                                                         *)
(* WalletsAreRegistered is inductive given the types.  OneBallotPerClick   *)
(* is not: a click that has not become a ballot yet is a busy page or an   *)
(* operation in the bundler's pool, and CastOnce counts the three.         *)
(***************************************************************************)
EXTENDS UserOps, FiniteSets, FiniteSetTheorems, TLAPS

(***************************************************************************)
(* Types                                                                   *)
(***************************************************************************)

\* What a step may make of one page.
PageOK(page) ==
  page \in Page /\ (page.pc \in {"prefund", "create", "nonce", "send"} => page.home)

\* Setting a page to one that is well formed keeps all of them so.
LEMMA GoKeepsPages ==
  ASSUME TypeOK, NEW p \in Pages, NEW page, PageOK(page), Go(p, page)
  PROVE  /\ pages' \in [Pages -> Page]
         /\ \A q \in Pages : pages'[q].pc \in {"prefund", "create", "nonce", "send"} => pages'[q].home
  BY DEF TypeOK, Go, PageOK

\* A page that has done nothing is in order.
LEMMA IdleIsOK == PageOK(Idle)
  BY DEF PageOK, Idle, Page, Busy

\* An operation made from a page.
LEMMA OpType ==
  ASSUME TypeOK, NEW p \in Pages
  PROVE  Op(p) \in Operation
  BY DEF TypeOK, Op, Operation, Page

\* The steps of a page's handler keep the types.
LEMMA StepKeepsTypes ==
  ASSUME TypeOK, NEW p \in Pages, Step(p)
  PROVE  TypeOK'
<1> USE PagesAssumption, WalletAssumption
<1>1. ASSUME NEW page, PageOK(page), Go(p, page),
             UNCHANGED <<outside, deposit, clicks, faults>>
      PROVE  TypeOK'
  BY <1>1, GoKeepsPages DEF TypeOK, outside, factoryVars
<1>2. ASSUME Fail(p), UNCHANGED <<outside, deposit, clicks, faults>>
      PROVE  TypeOK'
  BY <1>1, <1>2, IdleIsOK DEF Fail
<1>3. pages[p] \in Page
  BY DEF TypeOK
<1>4. CASE Connect(p)
  <2> DEFINE h == OwnerOf[p] \in home
             page == [pages[p] EXCEPT !.pc = "proofs", !.home = h]
  <2>1. h \in BOOLEAN
    OBVIOUS
  <2>2. Go(p, page) /\ UNCHANGED <<outside, deposit, clicks, faults>>
    BY <1>4 DEF Connect
  <2> HIDE DEF h
  <2>3. PageOK(page)
    BY <1>3, <2>1 DEF PageOK, Page, Busy
  <2> HIDE DEF page
  <2> QED BY <1>1, <2>2, <2>3
<1>5. CASE ConnectFails(p)
  <2>1. PageOK([Idle EXCEPT !.pc = "stuck"])
    BY DEF PageOK, Page, Busy, Idle
  <2> QED BY <1>1, <1>2, <1>5, <2>1 DEF ConnectFails
<1>6. CASE Proved(p)
  <2>1. PageOK([pages[p] EXCEPT !.pc = "check"])
    BY <1>3 DEF PageOK, Page, Busy
  <2> QED BY <1>1, <1>6, <2>1 DEF Proved
<1>7. CASE Check(p)
  <2>1. PageOK([pages[p] EXCEPT !.pc =
          IF ~ sponsored /\ deposit[OwnerOf[p]] = 0 THEN "prefund" ELSE "create"])
    BY <1>3, <1>7 DEF Check, OnChain, PageOK, Page, Busy
  <2> QED BY <1>1, <1>7, <2>1 DEF Check
<1>8. CASE EnsurePrefund(p)
  <2>1. PageOK([pages[p] EXCEPT !.pc = "create"])
    BY <1>3, <1>8 DEF EnsurePrefund, OnChain, PageOK, Page, Busy
  <2>2. OwnerOf[p] \in Owners /\ deposit' \in [Owners -> Nat]
    BY <1>8 DEF EnsurePrefund, TypeOK
  <2> QED BY <1>8, <2>1, <2>2, GoKeepsPages DEF EnsurePrefund, TypeOK, outside, factoryVars
<1>9. CASE CreateOp(p)
  <2>1. PageOK([pages[p] EXCEPT !.pc = "nonce", !.init = ~ HasCode(OwnerOf[p])])
    BY <1>3, <1>9 DEF CreateOp, OnChain, PageOK, Page, Busy, HasCode
  <2> QED BY <1>1, <1>9, <2>1 DEF CreateOp
<1>10. CASE ReadNonce(p)
  <2>1. (IF HasCode(OwnerOf[p]) THEN nonce[OwnerOf[p]] ELSE 0) \in Nat
    BY DEF TypeOK
  <2>2. PageOK([pages[p] EXCEPT !.pc = "send",
          !.nonce = IF HasCode(OwnerOf[p]) THEN nonce[OwnerOf[p]] ELSE 0])
    BY <1>3, <1>10, <2>1 DEF ReadNonce, OnChain, PageOK, Page, Busy
  <2> QED BY <1>1, <1>10, <2>2 DEF ReadNonce
<1>11. CASE Send(p)
  <2>1. pool' \subseteq Operation
    BY <1>11, OpType DEF Send, TypeOK
  <2> QED
    BY <1>11, <2>1, GoKeepsPages, IdleIsOK DEF Send, TypeOK, factoryVars, entryVars
<1>12. CASE \/ ProofsFail(p) \/ CheckFails(p) \/ CreateFails(p) \/ WrongChain(p)
            \/ SendFails(p) \/ RefuseSignature(p)
  BY <1>2, <1>12 DEF ProofsFail, CheckFails, CreateFails, WrongChain, SendFails, RefuseSignature
<1> QED
  BY <1>4, <1>5, <1>6, <1>7, <1>8, <1>9, <1>10, <1>11, <1>12 DEF Step

\* So do clicks, reloads and lost answers.
LEMMA UserKeepsTypes ==
  ASSUME TypeOK, NEW p \in Pages, User(p)
  PROVE  TypeOK'
<1> USE PagesAssumption, WalletAssumption
<1>1. CASE Click(p)
  <2>1. PageOK([Idle EXCEPT !.pc = "connect"])
    BY DEF PageOK, Page, Busy, Idle
  <2>2. clicks' \in [Pages -> 0 .. MaxClicks]
    BY <1>1 DEF Click, TypeOK
  <2> QED BY <1>1, <2>1, <2>2, GoKeepsPages DEF Click, TypeOK, outside, factoryVars
<1>2. CASE SendLost(p)
  <2>1. pool' \subseteq Operation
    BY <1>2, OpType DEF SendLost, TypeOK
  <2>2. faults' \in 0 .. MaxFaults
    BY <1>2 DEF SendLost, Fault, TypeOK
  <2> QED
    BY <1>2, <2>1, <2>2, GoKeepsPages, IdleIsOK
    DEF SendLost, Fail, TypeOK, factoryVars, entryVars
<1>3. CASE Reload(p)
  <2>1. OwnerOf[p] \in Owners /\ deposit' \in [Owners -> Nat]
    BY <1>3 DEF Reload, TypeOK
  <2>2. faults' \in 0 .. MaxFaults
    BY <1>3 DEF Reload, Fault, TypeOK
  <2> QED
    BY <1>3, <2>1, <2>2, GoKeepsPages, IdleIsOK DEF Reload, TypeOK, outside, factoryVars
<1> QED BY <1>1, <1>2, <1>3 DEF User

\* And the contracts, the bundler and the user's extension.
LEMMA NetworkKeepsTypes ==
  ASSUME TypeOK, Network
  PROVE  TypeOK'
<1> USE PagesAssumption, WalletAssumption
<1>1. ASSUME NEW op \in pool, Execute(op)
      PROVE  TypeOK'
  <2> DEFINE o == OwnerOf[op.page]
  <2>1. op \in Operation /\ op.page \in Pages /\ o \in Owners
    BY <1>1 DEF TypeOK, Operation
  <2>2. walletOf' \in [Owners -> Salts \union {None}] /\ deployed' \subseteq Owners \X Salts
    BY <1>1, <2>1 DEF Execute, MintWallet, TypeOK, factoryVars
  <2>3. nonce' \in [Owners -> Nat]
    BY <1>1, <2>1 DEF Execute, TypeOK
  <2>4. deposit' \in [Owners -> Nat]
    <3>1. deposit[o] \in Nat /\ deposit[o] >= Cost
      BY <1>1, <2>1 DEF Execute, Valid, TypeOK
    <3>2. deposit[o] - Cost \in Nat
      BY <3>1
    <3>3. deposit' = [deposit EXCEPT ![o] = deposit[o] - Cost]
      BY <1>1 DEF Execute
    <3> QED BY <2>1, <3>2, <3>3 DEF TypeOK
  <2>5. ballots' \in [Pages -> Nat]
    BY <1>1, <2>1 DEF Execute, TypeOK
  <2> QED
    BY <1>1, <2>2, <2>3, <2>4, <2>5 DEF Execute, TypeOK, clientVars
<1>2. ASSUME NEW op \in pool, Drop(op)
      PROVE  TypeOK'
  BY <1>2 DEF Drop, TypeOK, factoryVars, entryVars, clientVars
<1>3. ASSUME NEW o \in Owners, SwitchChain(o)
      PROVE  TypeOK'
  BY <1>3 DEF SwitchChain, Fault, TypeOK, factoryVars, entryVars
<1>4. ASSUME NEW o \in Owners, NEW s \in Salts, DirectMint(o, s)
      PROVE  TypeOK'
  BY <1>4 DEF DirectMint, MintWallet, TypeOK, entryVars, clientVars
<1>5. CASE Close
  BY <1>5 DEF Close, TypeOK, factoryVars, entryVars, clientVars
<1> QED BY <1>1, <1>2, <1>3, <1>4, <1>5 DEF Network

\* Fresh pages and an empty pool have their types.
LEMMA InitTyped == Init => TypeOK
<1> USE PagesAssumption, WalletAssumption
<1> SUFFICES ASSUME Init PROVE TypeOK
  OBVIOUS
<1>1. pages \in [Pages -> Page] /\ \A p \in Pages : pages[p] = Idle
  BY IdleIsOK DEF Init, PageOK
<1> QED BY <1>1 DEF Init, TypeOK, Idle

\* Every reachable state has the types TypeOK gives it.
THEOREM TypeCorrect == Spec => []TypeOK
<1>1. Init => TypeOK
  BY InitTyped
<1>2. TypeOK /\ [Next]_vars => TypeOK'
  <2> SUFFICES ASSUME TypeOK, [Next]_vars PROVE TypeOK'
    OBVIOUS
  <2>1. CASE Next
    BY <2>1, StepKeepsTypes, UserKeepsTypes, NetworkKeepsTypes DEF Next
  <2>2. CASE UNCHANGED vars
    BY <2>2 DEF vars, factoryVars, entryVars, clientVars, TypeOK
  <2> QED BY <2>1, <2>2
<1> QED BY <1>1, <1>2, PTL DEF Spec

(***************************************************************************)
(* One wallet for an owner                                                 *)
(***************************************************************************)

\* mintWallet registers the wallet it deploys, and only the first one.
LEMMA MintKeepsWallets ==
  ASSUME TypeOK, WalletsAreRegistered, NEW o \in Owners, NEW salt \in Salts, MintWallet(o, salt)
  PROVE  /\ \A w \in deployed' : walletOf'[w[1]] = w[2]
         /\ \A q \in Owners : walletOf'[q] # None => <<q, walletOf'[q]>> \in deployed'
         /\ \A q \in Owners : walletOf[q] # None => walletOf'[q] = walletOf[q]
         /\ walletOf'[o] = salt
<1>1. walletOf' = [walletOf EXCEPT ![o] = salt] /\ walletOf[o] = None
  BY DEF MintWallet
<1>2. \A q \in Owners : walletOf'[q] = IF q = o THEN salt ELSE walletOf[q]
  BY <1>1 DEF TypeOK
<1>3. deployed' = deployed \union {<<o, salt>>}
  BY DEF MintWallet
<1>4. ASSUME NEW w \in deployed'
      PROVE  walletOf'[w[1]] = w[2]
  <2>1. CASE w \in deployed
    <3>1. w[1] \in Owners /\ w[2] \in Salts /\ walletOf[w[1]] = w[2]
      BY <2>1 DEF TypeOK, WalletsAreRegistered
    <3>2. w[1] # o
      BY <1>1, <3>1, WalletAssumption
    <3> QED BY <1>2, <3>1, <3>2
  <2>2. CASE w = <<o, salt>>
    BY <1>2, <2>2
  <2> QED BY <1>3, <1>4, <2>1, <2>2
<1> QED
  BY <1>1, <1>2, <1>3, <1>4 DEF WalletsAreRegistered

\* A step that leaves the wallets, the nonces and the ballots alone.
LEMMA WalletsUntouched ==
  ASSUME WalletsAreRegistered, UNCHANGED <<factoryVars, nonce, ballots>>
  PROVE  WalletsAreRegistered'
  BY DEF WalletsAreRegistered, factoryVars

\* An operation is executed by the registered wallet of its owner.
LEMMA ExecuteKeepsWallets ==
  ASSUME TypeOK, WalletsAreRegistered, NEW op \in pool, Execute(op)
  PROVE  WalletsAreRegistered'
<1> USE PagesAssumption, WalletAssumption
<1> DEFINE o == OwnerOf[op.page]
<1>1. op.page \in Pages /\ o \in Owners
  BY DEF TypeOK, Operation
<1>2. /\ \A w \in deployed' : walletOf'[w[1]] = w[2]
      /\ \A q \in Owners : walletOf'[q] # None => <<q, walletOf'[q]>> \in deployed'
      /\ \A q \in Owners : walletOf[q] # None => walletOf'[q] = walletOf[q]
      /\ walletOf'[o] = Index
  <2>1. CASE op.init
    BY <1>1, <2>1, MintKeepsWallets DEF Execute
  <2>2. CASE ~ op.init
    <3>1. UNCHANGED factoryVars /\ HasCode(o)
      BY <2>2 DEF Execute, Valid
    <3>2. walletOf[o] = Index
      BY <3>1 DEF HasCode, WalletsAreRegistered
    <3> QED BY <3>1, <3>2 DEF factoryVars, WalletsAreRegistered
  <2> QED BY <2>1, <2>2
<1>3. \A q \in Owners : q # o => nonce'[q] = nonce[q]
  BY <1>1 DEF Execute, TypeOK
<1>4. \A p \in Pages : p # op.page => ballots'[p] = ballots[p]
  BY <1>1 DEF Execute, TypeOK
<1>5. ASSUME NEW q \in Owners, nonce'[q] > 0
      PROVE  walletOf'[q] = Index
  <2>1. CASE q = o
    BY <1>2, <2>1
  <2>2. CASE q # o
    BY <1>2, <1>3, <1>5, <2>2 DEF WalletsAreRegistered
  <2> QED BY <2>1, <2>2
<1>6. ASSUME NEW p \in Pages, ballots'[p] > 0
      PROVE  walletOf'[OwnerOf[p]] = Index
  <2>1. CASE p = op.page
    BY <1>2, <2>1
  <2>2. CASE p # op.page
    <3>1. OwnerOf[p] \in Owners /\ walletOf[OwnerOf[p]] = Index
      BY <1>4, <1>6, <2>2 DEF WalletsAreRegistered
    <3> QED BY <1>2, <3>1
  <2> QED BY <2>1, <2>2
<1> QED BY <1>2, <1>5, <1>6 DEF WalletsAreRegistered

\* Every step keeps deployed, registered and used wallets in accord.
LEMMA NextKeepsWallets ==
  ASSUME TypeOK, WalletsAreRegistered, [Next]_vars
  PROVE  WalletsAreRegistered'
<1> USE PagesAssumption, WalletAssumption
<1>1. ASSUME NEW p \in Pages, Step(p)
      PROVE  WalletsAreRegistered'
  BY <1>1, WalletsUntouched
  DEF Step, outside, entryVars, Connect, ConnectFails, Proved, ProofsFail, Check, CheckFails,
      EnsurePrefund, CreateOp, CreateFails, ReadNonce, WrongChain, Send, SendFails, RefuseSignature
<1>2. ASSUME NEW p \in Pages, User(p)
      PROVE  WalletsAreRegistered'
  BY <1>2, WalletsUntouched DEF User, outside, entryVars, Click, SendLost, Reload
<1>3. ASSUME NEW o \in Owners, NEW s \in Salts, DirectMint(o, s)
      PROVE  WalletsAreRegistered'
  <2>1. UNCHANGED <<nonce, ballots>>
    BY <1>3 DEF DirectMint, entryVars
  <2>2. \A p \in Pages : OwnerOf[p] \in Owners
    OBVIOUS
  <2>3. Index # None
    OBVIOUS
  <2>4. MintWallet(o, s)
    BY <1>3 DEF DirectMint
  <2>5. /\ \A w \in deployed' : walletOf'[w[1]] = w[2]
        /\ \A q \in Owners : walletOf'[q] # None => <<q, walletOf'[q]>> \in deployed'
        /\ \A q \in Owners : walletOf[q] # None => walletOf'[q] = walletOf[q]
    BY <2>4, MintKeepsWallets
  <2> QED BY <2>1, <2>2, <2>3, <2>5 DEF WalletsAreRegistered
<1>4. ASSUME NEW op \in pool, Drop(op)
      PROVE  WalletsAreRegistered'
  BY <1>4, WalletsUntouched DEF Drop, entryVars
<1>5. ASSUME NEW o \in Owners, SwitchChain(o)
      PROVE  WalletsAreRegistered'
  BY <1>5, WalletsUntouched DEF SwitchChain, entryVars
<1>6. CASE Close
  BY <1>6, WalletsUntouched DEF Close, entryVars
<1>7. CASE UNCHANGED vars
  BY <1>7, WalletsUntouched DEF vars, entryVars
<1> QED
  BY <1>1, <1>2, <1>3, <1>4, <1>5, <1>6, <1>7, ExecuteKeepsWallets DEF Next, Network

\* An owner never has two wallets, and operations and ballots come from the
\* registered one.
THEOREM OneWallet == Spec => []WalletsAreRegistered
<1>1. Init => WalletsAreRegistered
  BY PagesAssumption DEF Init, WalletsAreRegistered
<1>2. TypeOK /\ WalletsAreRegistered /\ [Next]_vars => WalletsAreRegistered'
  BY NextKeepsWallets
<1> QED BY <1>1, <1>2, TypeCorrect, PTL DEF Spec

(***************************************************************************)
(* One ballot for a click                                                  *)
(***************************************************************************)

\* The operations of a page the bundler holds, and whether a click is at work.
Held(p) == {op \in pool : op.page = p}
AtWork(p) == IF pages[p].pc \in Busy THEN 1 ELSE 0

\* A click is a ballot, an operation in the pool, a handler at work, or lost.
CastOnce ==
  /\ IsFiniteSet(pool)
  /\ \A p \in Pages : ballots[p] + Cardinality(Held(p)) + AtWork(p) <= clicks[p]

\* What a page has in the pool can be counted.
LEMMA HeldIsFinite ==
  ASSUME IsFiniteSet(pool)
  PROVE  \A p \in Pages : IsFiniteSet(Held(p)) /\ Cardinality(Held(p)) \in Nat
  BY FS_Subset, FS_CardinalityType DEF Held

\* A step of one page that sends nothing, and makes it busy at a click only.
LEMMA PageStepKeepsCount ==
  ASSUME TypeOK, CastOnce, NEW p \in Pages,
         UNCHANGED <<pool, ballots>>,
         \A q \in Pages : q # p => pages'[q] = pages[q] /\ clicks'[q] = clicks[q],
         clicks'[p] \in Nat,
         AtWork(p)' - AtWork(p) <= clicks'[p] - clicks[p]
  PROVE  CastOnce'
<1>1. \A q \in Pages : Held(q)' = Held(q)
  BY DEF Held
<1>2. \A q \in Pages : ballots[q] \in Nat /\ clicks[q] \in Nat
  BY WalletAssumption DEF TypeOK
<1>3. \A q \in Pages : Cardinality(Held(q)) \in Nat
  BY HeldIsFinite DEF CastOnce
<1>4. ballots'[p] + Cardinality(Held(p)') + AtWork(p)' <= clicks'[p]
  <2>1. AtWork(p) \in {0, 1} /\ AtWork(p)' \in {0, 1}
    BY DEF AtWork
  <2>2. ballots[p] + Cardinality(Held(p)) + AtWork(p) <= clicks[p]
    BY DEF CastOnce
  <2> QED BY <1>1, <1>2, <1>3, <2>1, <2>2
<1>5. ASSUME NEW q \in Pages, q # p
      PROVE  ballots'[q] + Cardinality(Held(q)') + AtWork(q)' <= clicks'[q]
  <2>1. AtWork(q)' = AtWork(q)
    BY <1>5 DEF AtWork
  <2> QED BY <1>1, <1>5, <2>1 DEF CastOnce
<1> QED BY <1>4, <1>5 DEF CastOnce

\* A handler that has its operation accepted is at work no longer.
LEMMA SendKeepsCount ==
  ASSUME TypeOK, CastOnce, NEW p \in Pages, pages[p].pc = "send", Accepts(Op(p)),
         pool' = pool \union {Op(p)}, Go(p, Idle), UNCHANGED <<ballots, clicks>>
  PROVE  CastOnce'
<1>1. Op(p).page = p
  BY DEF Op
<1>2. Op(p) \notin pool
  BY <1>1 DEF Accepts
<1>3. Held(p)' = Held(p) \union {Op(p)} /\ Op(p) \notin Held(p)
  BY <1>1, <1>2 DEF Held
<1>4. \A q \in Pages : q # p => Held(q)' = Held(q)
  BY <1>1 DEF Held
<1>5. IsFiniteSet(pool') /\ IsFiniteSet(Held(p)) /\ Cardinality(Held(p)) \in Nat
  BY FS_AddElement, HeldIsFinite DEF CastOnce
<1>6. Cardinality(Held(p)') = Cardinality(Held(p)) + 1
  BY <1>3, <1>5, FS_AddElement
<1>7. AtWork(p) = 1 /\ AtWork(p)' = 0
  BY DEF AtWork, Busy, Go, Idle, TypeOK
<1>8. \A q \in Pages : q # p => AtWork(q)' = AtWork(q)
  BY DEF AtWork, Go, TypeOK
<1>9. ballots[p] \in Nat /\ clicks[p] \in Nat
  BY WalletAssumption DEF TypeOK
<1>10. ballots'[p] + Cardinality(Held(p)') + AtWork(p)' <= clicks'[p]
  BY <1>5, <1>6, <1>7, <1>9 DEF CastOnce
<1>11. ASSUME NEW q \in Pages, q # p
       PROVE  ballots'[q] + Cardinality(Held(q)') + AtWork(q)' <= clicks'[q]
  BY <1>4, <1>8, <1>11 DEF CastOnce
<1> QED BY <1>5, <1>10, <1>11 DEF CastOnce

\* An operation leaves the pool, as a ballot or not.
LEMMA TakenKeepsCount ==
  ASSUME TypeOK, CastOnce, NEW op \in pool, pool' = pool \ {op},
         \A q \in Pages : q # op.page => ballots'[q] = ballots[q],
         ballots'[op.page] \in {ballots[op.page], ballots[op.page] + 1},
         UNCHANGED <<pages, clicks>>
  PROVE  CastOnce'
<1> DEFINE p == op.page
<1>1. p \in Pages
  BY DEF TypeOK, Operation
<1>2. Held(p)' = Held(p) \ {op} /\ op \in Held(p)
  BY DEF Held
<1>3. \A q \in Pages : q # p => Held(q)' = Held(q)
  BY DEF Held
<1>4. IsFiniteSet(pool') /\ IsFiniteSet(Held(p)) /\ Cardinality(Held(p)) \in Nat
  BY <1>1, FS_RemoveElement, HeldIsFinite DEF CastOnce
<1>5. Cardinality(Held(p)') = Cardinality(Held(p)) - 1
  BY <1>2, <1>4, FS_RemoveElement
<1>6. \A q \in Pages : AtWork(q)' = AtWork(q) /\ AtWork(q) \in {0, 1}
  BY DEF AtWork
<1>7. ballots[p] \in Nat /\ clicks[p] \in Nat
  BY <1>1, WalletAssumption DEF TypeOK
<1>8. ballots'[p] + Cardinality(Held(p)') + AtWork(p)' <= clicks'[p]
  <2>1. ballots[p] + Cardinality(Held(p)) + AtWork(p) <= clicks[p]
    BY <1>1 DEF CastOnce
  <2>2. AtWork(p)' = AtWork(p) /\ AtWork(p) \in {0, 1}
    BY <1>1, <1>6
  <2> QED BY <1>4, <1>5, <1>7, <2>1, <2>2
<1>9. ASSUME NEW q \in Pages, q # p
      PROVE  ballots'[q] + Cardinality(Held(q)') + AtWork(q)' <= clicks'[q]
  BY <1>3, <1>6, <1>9 DEF CastOnce
<1> QED BY <1>4, <1>8, <1>9 DEF CastOnce

\* Every step keeps the count of ballots.
LEMMA NextKeepsCount ==
  ASSUME TypeOK, CastOnce, [Next]_vars
  PROVE  CastOnce'
<1> USE PagesAssumption, WalletAssumption
<1>1. \A p \in Pages : AtWork(p) \in {0, 1} /\ AtWork(p)' \in {0, 1}
  BY DEF AtWork
<1>2. ASSUME NEW p \in Pages, pages[p].pc \in Busy, NEW page, Go(p, page),
             UNCHANGED <<pool, ballots, clicks>>
      PROVE  CastOnce'
  <2>1. \A q \in Pages : q # p => pages'[q] = pages[q] /\ clicks'[q] = clicks[q]
    BY <1>2 DEF Go, TypeOK
  <2>2. AtWork(p) = 1 /\ clicks[p] \in Nat /\ clicks'[p] = clicks[p]
    BY <1>2 DEF AtWork, TypeOK
  <2> QED BY <1>1, <1>2, <2>1, <2>2, PageStepKeepsCount
<1>3. ASSUME NEW p \in Pages, Step(p), ~ Send(p)
      PROVE  CastOnce'
  BY <1>2, <1>3
  DEF Step, outside, Fail, Busy, Connect, ConnectFails, Proved, ProofsFail, Check, CheckFails,
      EnsurePrefund, CreateOp, CreateFails, ReadNonce, WrongChain, SendFails, RefuseSignature
<1>4. ASSUME NEW p \in Pages, Send(p) \/ SendLost(p)
      PROVE  CastOnce'
  BY <1>4, SendKeepsCount DEF Send, SendLost, Fail
<1>5. ASSUME NEW p \in Pages, Click(p)
      PROVE  CastOnce'
  <2>1. \A q \in Pages : q # p => pages'[q] = pages[q] /\ clicks'[q] = clicks[q]
    BY <1>5 DEF Click, Go, TypeOK
  <2>2. AtWork(p) = 0
    BY <1>5 DEF Click, AtWork, Busy
  <2>3. clicks[p] \in Nat /\ clicks'[p] = clicks[p] + 1
    BY <1>5 DEF Click, TypeOK
  <2> QED BY <1>1, <1>5, <2>1, <2>2, <2>3, PageStepKeepsCount DEF Click, outside
<1>6. ASSUME NEW p \in Pages, Reload(p)
      PROVE  CastOnce'
  <2>1. \A q \in Pages : q # p => pages'[q] = pages[q] /\ clicks'[q] = clicks[q]
    BY <1>6 DEF Reload, Go, TypeOK
  <2>2. AtWork(p)' = 0 /\ clicks[p] \in Nat /\ clicks'[p] = clicks[p]
    BY <1>6 DEF Reload, Go, Idle, AtWork, Busy, TypeOK
  <2> QED BY <1>1, <1>6, <2>1, <2>2, PageStepKeepsCount DEF Reload, outside
<1>7. ASSUME NEW op \in pool, Execute(op) \/ Drop(op)
      PROVE  CastOnce'
  <2>1. op.page \in Pages
    BY DEF TypeOK, Operation
  <2>2. /\ pool' = pool \ {op} /\ UNCHANGED <<pages, clicks>>
        /\ \A q \in Pages : q # op.page => ballots'[q] = ballots[q]
        /\ ballots'[op.page] \in {ballots[op.page], ballots[op.page] + 1}
    BY <1>7, <2>1 DEF Execute, Drop, clientVars, TypeOK
  <2> QED BY <2>2, TakenKeepsCount
<1>8. CASE UNCHANGED <<pool, ballots, pages, clicks>>
  BY <1>8 DEF CastOnce, Held, AtWork
<1>9. ASSUME NEW o \in Owners, SwitchChain(o) \/ \E s \in Salts : DirectMint(o, s)
      PROVE  CastOnce'
  BY <1>8, <1>9 DEF SwitchChain, DirectMint, clientVars
<1>10. CASE Close
  BY <1>8, <1>10 DEF Close, clientVars
<1>11. CASE UNCHANGED vars
  BY <1>8, <1>11 DEF vars, clientVars
<1> QED
  BY <1>3, <1>4, <1>5, <1>6, <1>7, <1>9, <1>10, <1>11 DEF Next, Network, User

\* A click casts one ballot at most, whatever is lost, repeated or reloaded.
THEOREM OneBallot == Spec => []OneBallotPerClick
<1>1. Init => CastOnce
  <2> SUFFICES ASSUME Init PROVE CastOnce
    OBVIOUS
  <2>1. \A p \in Pages : Held(p) = {} /\ AtWork(p) = 0 /\ ballots[p] = 0 /\ clicks[p] = 0
    BY DEF Init, Held, AtWork, Busy, Idle
  <2> QED BY <2>1, FS_EmptySet DEF Init, CastOnce
<1>2. TypeOK /\ CastOnce /\ [Next]_vars => CastOnce'
  BY NextKeepsCount
<1>3. TypeOK /\ CastOnce => OneBallotPerClick
  <2> SUFFICES ASSUME TypeOK, CastOnce, NEW p \in Pages PROVE ballots[p] <= clicks[p]
    BY DEF OneBallotPerClick
  <2>1. Cardinality(Held(p)) \in Nat /\ AtWork(p) \in {0, 1}
    BY HeldIsFinite DEF CastOnce, AtWork
  <2>2. ballots[p] \in Nat /\ clicks[p] \in Nat
    BY WalletAssumption DEF TypeOK
  <2> QED BY <2>1, <2>2 DEF CastOnce
<1> QED BY <1>1, <1>2, <1>3, TypeCorrect, PTL DEF Spec
=============================================================================
