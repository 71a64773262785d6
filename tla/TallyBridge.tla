----------------------------- MODULE TallyBridge -----------------------------
(***************************************************************************)
(* What the relay promises the readers of the Solana mirror and the        *)
(* operator of its dead letter queue, with heights, forks, processes and   *)
(* transactions left out.  Tallies become final; a final tally may be      *)
(* mirrored, or parked for the operator, or both; the relay leaves a tally *)
(* behind only when one of the two was done; nothing of this is ever       *)
(* undone.  RelayDaemon implements this specification (RelayDaemon!Bridge).*)
(***************************************************************************)
CONSTANT Tallies

VARIABLES final,     \* tallies the relay answers for
          mirrored,  \* tallies an account of the mirror carries
          parked,    \* tallies in the dead letter queue
          passed     \* tallies the relay does not look at again

vars == <<final, mirrored, parked, passed>>

Init == final = {} /\ mirrored = {} /\ parked = {} /\ passed = {}

Finalise == /\ final \subseteq final' /\ final' \subseteq Tallies
            /\ UNCHANGED <<mirrored, parked, passed>>

\* Equal tallies of one block share an account, so several may appear at once.
Mirror == /\ mirrored \subseteq mirrored' /\ mirrored' \subseteq final
          /\ UNCHANGED <<final, parked, passed>>

Park(t) == /\ t \in final
           /\ parked' = parked \union {t}
           /\ UNCHANGED <<final, mirrored, passed>>

Pass == /\ passed \subseteq passed' /\ passed' \subseteq mirrored \union parked
        /\ UNCHANGED <<final, mirrored, parked>>

Next == Finalise \/ Mirror \/ Pass \/ \E t \in Tallies : Park(t)

Spec == Init /\ [][Next]_vars
=============================================================================
