------------------------------- MODULE MCTeams -------------------------------
(* Model values of organizations for TLC, and their symmetry.               *)
EXTENDS Teams, TLC

Symmetry == Permutations(People) \cup Permutations(Links) \cup Permutations(Sessions)
            \cup Permutations(Requests) \cup Permutations(Jobs) \cup Permutations(Emails)
=============================================================================
