---------------------------- MODULE MCWebServer ----------------------------
(* Instances of WebServer for TLC. *)
EXTENDS WebServer, TLC

\* No action tells one client, descriptor or worker from another.
Symmetry ==
    Permutations(Clients) \cup Permutations(Fds) \cup Permutations(Workers)

============================================================================
