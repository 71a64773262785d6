------------------------- MODULE ElectionLifecycle -------------------------
(***************************************************************************)
(* What ElectionManagerV2 promises its voters, its tally submitters and    *)
(* the services that read its events, with blocks, owners and proofs left  *)
(* out.  An election is opened once, in the order of the ids; ballots are  *)
(* accepted while it is open and never again; it closes; an outcome may    *)
(* then be declared, once and for ever.  ElectionManager implements this   *)
(* specification (ElectionManager!Lifecycle).                              *)
(***************************************************************************)
EXTENDS Naturals

CONSTANTS Ids,         \* election ids, an initial segment of Nat
          Tokens,      \* participation badges, one per accepted ballot
          Outcomes     \* tally pairs

VARIABLES phase,       \* none -> open -> closed -> declared, per election
          ballots,     \* the badges handed out for each election
          outcome      \* the declared outcome of each election, {} before

vars == <<phase, ballots, outcome>>

Phases == {"none", "open", "closed", "declared"}

Init == /\ phase   = [id \in Ids |-> "none"]
        /\ ballots = [id \in Ids |-> {}]
        /\ outcome = [id \in Ids |-> {}]

Open(id) == /\ phase[id] = "none"
            /\ \A j \in Ids : j < id => phase[j] # "none"
            /\ phase' = [phase EXCEPT ![id] = "open"]
            /\ UNCHANGED <<ballots, outcome>>

\* A badge is fresh: it belongs to no election yet.
Cast(id, t) == /\ phase[id] = "open"
               /\ \A j \in Ids : t \notin ballots[j]
               /\ ballots' = [ballots EXCEPT ![id] = @ \union {t}]
               /\ UNCHANGED <<phase, outcome>>

\* One block may be the last of several elections.
Close(S) == /\ \A id \in S : phase[id] = "open"
            /\ phase' = [id \in Ids |-> IF id \in S THEN "closed" ELSE phase[id]]
            /\ UNCHANGED <<ballots, outcome>>

Declare(id, o) == /\ phase[id] = "closed"
                  /\ phase'   = [phase EXCEPT ![id] = "declared"]
                  /\ outcome' = [outcome EXCEPT ![id] = {o}]
                  /\ UNCHANGED ballots

Next == \/ \E id \in Ids : Open(id)
        \/ \E id \in Ids, t \in Tokens : Cast(id, t)
        \/ \E S \in SUBSET Ids : Close(S)
        \/ \E id \in Ids, o \in Outcomes : Declare(id, o)

Spec == Init /\ [][Next]_vars
=============================================================================
