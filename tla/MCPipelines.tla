------------------------------ MODULE MCPipelines ------------------------------
(* An application in an environment with two providers, which may be promoted to *)
(* one whose name is the beginning of the first one's, and to another one.       *)
EXTENDS Pipelines

CONSTANTS p1, p2, p3, p4, dev, dev2, prod, db, db2

MCEnvOf ==
  [p \in Provs |-> IF p \in {p1, p2} THEN dev2 ELSE IF p = p3 THEN dev ELSE prod]
MCFileOrder == <<p3, p1, p2, p4>>
MCNameBegins == {<<dev, dev2>>, <<db, db2>>}
\* A database and a bucket.
MCPoliciesFor == [r \in Resources |-> IF r = db THEN {"bind", "unbind"} ELSE {"bind"}]
===============================================================================
