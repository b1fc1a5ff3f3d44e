------------------------------ MODULE MCUsers ------------------------------
(* Instances of Users for TLC. *)
EXTENDS Users, TLC

\* No action tells one thread, connection, name or password from another.
Symmetry ==
    Permutations(Threads) \cup Permutations(Conns)
      \cup Permutations(Names) \cup Permutations(Passwords)

============================================================================
