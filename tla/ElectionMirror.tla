--------------------------- MODULE ElectionMirror ---------------------------
(***************************************************************************)
(* The Solana program election_mirror: one account per mirrored election,  *)
(* created by initialise and written once by set_tally.  An instruction is *)
(* atomic and a failing constraint aborts it, so each handler is an action *)
(* guarded by its constraints.                                             *)
(*                                                                         *)
(* `#[account(init)]' without seeds creates the account at an address      *)
(* whose key signs the transaction: a program-derived address (PDA) has no *)
(* key, so initialise reaches only Keys.  Premade is the set of PDAs that  *)
(* hold an unwritten account of the relayer from the start (accounts a     *)
(* validator is started with); nothing in the repository fills it, so {}   *)
(* is the system as deployed.  The metadata hash is never read and is left *)
(* out.                                                                    *)
(***************************************************************************)
CONSTANTS Keys,        \* addresses with a key pair
          Pdas,        \* program-derived addresses
          Signers,     \* wallets that sign transactions
          NoSigner,
          Relayer,     \* the relay's wallet, SOLANA_BRIDGE_SK
          Premade,
          Values,      \* tally pairs that fit two u64
          NoValue      \* the zeroes of a new account

VARIABLE mirror        \* address -> account data

Addresses == Keys \union Pdas

Account == [authority : Signers \union {NoSigner},
            votes     : Values \union {NoValue},
            finalised : BOOLEAN]

Fresh(signer) == [authority |-> signer, votes |-> NoValue, finalised |-> FALSE]

Absent == Fresh(NoSigner)

MirrorInit ==
  mirror = [a \in Addresses |-> IF a \in Premade THEN Fresh(Relayer) ELSE Absent]

MirrorTypeOK == mirror \in [Addresses -> Account]

Initialise(signer, address) ==
  /\ address \in Keys
  /\ mirror[address] = Absent
  /\ mirror' = [mirror EXCEPT ![address] = Fresh(signer)]

\* Mutant: whoever signs may write.
CanSetTallyAnyone(signer, address) ==
  /\ mirror[address] # Absent
  /\ ~ mirror[address].finalised

\* The constraints of set_tally.
CanSetTally(signer, address) ==
  /\ mirror[address] # Absent
  /\ mirror[address].authority = signer
  /\ ~ mirror[address].finalised

SetTally(signer, address, value) ==
  /\ CanSetTally(signer, address)
  /\ mirror' = [mirror EXCEPT ![address].votes = value, ![address].finalised = TRUE]

\* Every other wallet may send any instruction with its own signature.
Others == Signers \ {Relayer}

MirrorUse ==
  \/ \E s \in Signers, a \in Keys : Initialise(s, a)
  \/ \E s \in Others, a \in Addresses, v \in Values : SetTally(s, a, v)
=============================================================================
