----------------------------- MODULE MCSdkRequests -----------------------------
(* Two providers in one account and one in another (entities.md: several providers may *)
(* share an account and region). *)
EXTENDS SdkRequests, TLC

CONSTANTS p1, p2, p3

MCAccount == [p \in Providers |-> IF p \in {p1, p2} THEN "A" ELSE "B"]

\* No definition tells one request from another; for the runs without liveness.
RequestSymmetry == Permutations(Requests)
===============================================================================
