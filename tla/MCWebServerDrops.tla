-------------------------- MODULE MCWebServerDrops --------------------------
(* Instances of WebServerDrops for TLC. *)
EXTENDS WebServerDrops, TLC

\* No action tells one client, descriptor or worker from another.
Symmetry ==
    Permutations(Clients) \cup Permutations(Fds) \cup Permutations(Workers)

=============================================================================
