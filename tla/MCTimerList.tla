---------------------------- MODULE MCTimerList ----------------------------
(* An instance of TimerList for TLC, with a clock that is never set back. *)
EXTENDS TimerList, TLC

Forward == {1, 2}

Symmetry == Permutations(Nodes)

============================================================================
