------------------------------- MODULE Lockstep -------------------------------
(***************************************************************************)
(* What the barrier shared by all peers of a run promises: every peer goes *)
(* through the same rounds, and none enters a round before every other has *)
(* finished the one before.  A peer may stop for good at any time; then    *)
(* nobody gets more than one round ahead of it.                            *)
(***************************************************************************)
EXTENDS Naturals

CONSTANTS Peers, Rounds

VARIABLES
    round,      \* round[p]: how many rounds p has entered
    finished    \* finished[p]: p has finished its round and waits

LockstepInit == /\ round = [p \in Peers |-> 0]
                /\ finished = [p \in Peers |-> FALSE]

FinishRound(p) ==
    /\ ~finished[p]
    /\ finished' = [finished EXCEPT ![p] = TRUE]
    /\ UNCHANGED round

\* The last peer to finish enters the next round at once.
EnterRound(p) ==
    /\ round[p] < Rounds
    /\ \A q \in Peers \ {p} : \/ round[q] > round[p]
                              \/ round[q] = round[p] /\ finished[q]
    /\ round' = [round EXCEPT ![p] = @ + 1]
    /\ finished' = [finished EXCEPT ![p] = FALSE]

LockstepNext == \E p \in Peers : FinishRound(p) \/ EnterRound(p)

LockstepSpec == LockstepInit /\ [][LockstepNext]_<<round, finished>>
===============================================================================
