-------------------------------- MODULE MCPortal -------------------------------
(* An application in two environments, one in one of them, a serverless one, and an *)
(* environment or a provider.                                                     *)
EXTENDS Portal

CONSTANTS two, sam, one, host, twoDev, twoProd, samDev, oneDev, hostDep, c1, c2, n1, n2

MCAppOf == [d \in Deps |-> IF d \in {twoDev, twoProd} THEN two
                           ELSE IF d = samDev THEN sam ELSE IF d = oneDev THEN one ELSE host]
MCEnvOf == [d \in Deps |-> IF d = twoProd THEN "prod" ELSE "dev"]
MCLowest == [x \in Apps |-> IF x = two THEN twoDev
                            ELSE IF x = sam THEN samDev ELSE IF x = one THEN oneDev ELSE hostDep]

Setting(v, k, pages, loads, clicks) ==
  [view |-> v, kind |-> k, pages |-> pages, loads |-> loads, clicks |-> clicks]

MCSettings ==
  {Setting("ecs", "cdk", {one}, {n1}, {c1, c2}),
   Setting("ecs", "cdk", {sam}, {n1, n2}, {c1}), Setting("ecs", "cdk", {one}, {n1, n2}, {c1}),
   Setting("details", "cdk", {two, sam}, {n1, n2}, {c1}),
   Setting("management", "terraformEks", {one}, {n1, n2}, {c1}),
   Setting("management", "terraformEks", {two}, {n1}, {c1}),
   Setting("management", "cdk", {two}, {n1}, {c1}),
   Setting("management", "cdkEks", {one}, {n1}, {c1}),
   Setting("environment", "cdk", {host}, {n1, n2}, {c1})}
    \cup {Setting("provider", k, {host}, {n1}, {c1}) : k \in {"cdk", "terraform", "other"}}

\* An application on EKS in two environments.
MCEksSettings == {Setting("management", "cdkEks", {two}, {n1}, {c1})}
===============================================================================
