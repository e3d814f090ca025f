------------------------------ MODULE MCGitRoutes ------------------------------
(* One repository on each git provider. *)
EXTENDS GitRoutes, TLC

CONSTANTS onGitLab, onGitHub

MCHome == [x \in Repos |-> IF x = onGitLab THEN "GITLAB" ELSE "GITHUB"]

\* For the runs without liveness.
GitSymmetry == Permutations(Requests) \cup Permutations(EnvProviders)
===============================================================================
