------------------------------ MODULE MCScaffolder ------------------------------
(* A provider of every kind that comes and goes, one beside another that stays, and *)
(* two applications of one name.                                                   *)
EXTENDS Scaffolder

CONSTANTS p1, p2, t1, t2

Setting(k1, k2, providers, settled, tasks, times) ==
  [kind |-> [p \in Providers |-> IF p = p1 THEN k1 ELSE k2],
   providers |-> providers, settled |-> settled, tasks |-> tasks, clicks |-> times]

MCSettings ==
  {Setting(k, "ecs", {p1}, {}, {t1}, 0) : k \in Kinds}
    \cup {Setting("ecs", "eks", {p1}, {p2}, {t1}, 1),
          Setting("ecs", "eks", {}, {p1}, {t1, t2}, 2)}
===============================================================================
