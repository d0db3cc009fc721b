--------------------------- MODULE MCLogThread ---------------------------
(* Instances of LogThread for TLC. *)
EXTENDS LogThread, TLC

\* Bound of the liveness run: a release of the host id meets no replay.
Undisturbed == plan' = PlanOf.release => lag' = 0 /\ ~lt'.replay_wait
LiveSpec == Init /\ [][Next /\ Undisturbed]_vars /\ Fairness

Symmetry == Permutations(Clients)
===========================================================================
