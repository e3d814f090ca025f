---------------------------- MODULE GitRoutesProofs ----------------------------
(***************************************************************************)
(* Proofs of the safety properties of GitRoutes, for any requests,         *)
(* repositories, environment providers and routes.  Inv is inductive: the  *)
(* types, how far each handler is, where its calls go, what its answer     *)
(* says of the change, and what its reading of an entity is worth.         *)
(***************************************************************************)
EXTENDS GitRoutes, TLAPS

-------------------------------------------------------------------------------
(* The inductive invariant. *)

Active(r) == phase[r] \in {"token", "call"}

\* What the handler of a git route still awaits.
Course(r) ==
  \/ op[r] = "read" /\ todo[r] = <<"get">>
  \/ op[r] \in {"promote", "bind", "unbind", "destroy"} /\ todo[r] = <<"commit">>
  \/ op[r] = "deleteRepo" /\ todo[r] = <<"delete">>
  \/ op[r] \in Updates /\ todo[r] = <<"get", "commit">>
  \/ op[r] \in Updates /\ todo[r] = <<"commit">>

\* How far the handler is.
ShapeOf(r) ==
  /\ phase[r] = "idle" => repo[r] = None /\ api[r] = None /\ ~crossed[r]
  /\ phase[r] # "done" => fate[r] = "none" /\ answer[r] = "none"
  /\ phase[r] = "token" => repo[r] # None
  /\ Active(r) /\ repo[r] # None =>
       /\ Course(r)
       /\ op[r] \in Updates \cup {"promote"} => env[r] # None
  /\ phase[r] = "call" /\ repo[r] = None => todo[r] = <<"aws">> /\ op[r] = "platform"
  /\ phase[r] = "call" /\ op[r] \in Updates /\ todo[r] = <<"commit">> => snapshot[r] # None
  /\ snapshot[r] # None => repo[r] # None /\ HomeOf(r) = "GITHUB"

\* Where the handler's calls go.
RoutedOf(r) ==
  ~crossed[r] => /\ InService(r) => gitProvider = HomeOf(r)
                 /\ repo[r] # None => api[r] \in {None, HomeOf(r)}

\* What the answer says of the change.
ToldOf(r) ==
  /\ answer[r] = "SUCCESS" => fate[r] = "heard"
  /\ fate[r] = "heard" /\ ~crossed[r] /\ op[r] # "unbind" => answer[r] = "SUCCESS"

\* A reading that no update has outdated is what the entity holds.
FreshOf(r) ==
  InService(r) /\ snapshot[r] # None /\ ~stale[r] => snapshot[r] = dependsOn[repo[r]]

Shape == \A r \in Requests : ShapeOf(r)
Routed == \A r \in Requests : RoutedOf(r)
Told == \A r \in Requests : ToldOf(r)
Fresh == \A r \in Requests : FreshOf(r)

Inv == TypeOK /\ Shape /\ Routed /\ Told /\ Fresh /\ FreshUpdatesKept

-------------------------------------------------------------------------------
(* The routes' courses and their responses. *)

Statuses == {"SUCCESS", "FAILURE", "200", "500"}

\* The calls of each git route are a course from its beginning.
LEMMA CoursesStart ==
  ASSUME NEW o \in Ops \ {"platform"}
  PROVE  /\ GitCalls[o] \in Seq({"get", "commit", "delete", "aws"})
         /\ \/ o = "read" /\ GitCalls[o] = <<"get">>
            \/ o \in {"promote", "bind", "unbind", "destroy"} /\ GitCalls[o] = <<"commit">>
            \/ o = "deleteRepo" /\ GitCalls[o] = <<"delete">>
            \/ o \in Updates /\ GitCalls[o] = <<"get", "commit">>
<1>1. o \in DOMAIN GitCalls
  BY OpsAssumption
<1>2. o \in {"read", "promote", "bind", "unbind", "destroy", "deleteRepo", "add", "remove"}
  BY <1>1 DEF GitCalls
<1>3. /\ GitCalls["read"] = <<"get">>
      /\ \A x \in {"promote", "bind", "unbind", "destroy"} : GitCalls[x] = <<"commit">>
      /\ GitCalls["deleteRepo"] = <<"delete">>
      /\ GitCalls["add"] = <<"get", "commit">> /\ GitCalls["remove"] = <<"get", "commit">>
  BY DEF GitCalls
<1>4. \/ o = "read" /\ GitCalls[o] = <<"get">>
      \/ o \in {"promote", "bind", "unbind", "destroy"} /\ GitCalls[o] = <<"commit">>
      \/ o = "deleteRepo" /\ GitCalls[o] = <<"delete">>
      \/ o \in Updates /\ GitCalls[o] = <<"get", "commit">>
  BY <1>2, <1>3 DEF Updates
<1>5. GitCalls[o] \in Seq({"get", "commit", "delete", "aws"})
  <2> DEFINE C == {"get", "commit", "delete", "aws"}
  <2>1. <<"get">> \in Seq(C) /\ <<"commit">> \in Seq(C) /\ <<"delete">> \in Seq(C)
    OBVIOUS
  <2>2. <<"get", "commit">> \in Seq(C)
    OBVIOUS
  <2> QED
    BY <1>4, <2>1, <2>2
<1> QED
  BY <1>4, <1>5

\* The calls of a course, as their handlers look at them.
LEMMA CourseFacts ==
  /\ Head(<<"get">>) = "get" /\ Head(<<"commit">>) = "commit"
  /\ Head(<<"delete">>) = "delete" /\ Head(<<"aws">>) = "aws"
  /\ Head(<<"get", "commit">>) = "get" /\ Tail(<<"get", "commit">>) = <<"commit">>
  /\ <<"commit">> # <<"get", "commit">>
OBVIOUS

\* A served commit belongs to a handler that has nothing else to do.
LEMMA ServedCommit ==
  ASSUME TypeOK, Shape, NEW r \in Requests, Served(r, "commit")
  PROVE  /\ repo[r] \in Repos /\ todo[r] = <<"commit">> /\ api[r] = HomeOf(r)
         /\ op[r] \in Updates => snapshot[r] \in Entity /\ HomeOf(r) = "GITHUB"
         /\ op[r] \in Updates \cup {"promote", "bind", "unbind", "destroy"}
         /\ op[r] \in Updates \cup {"promote"} => env[r] \in EnvProviders
<1>1. phase[r] = "call" /\ Head(todo[r]) = "commit" /\ api[r] = HomeOf(r)
  BY DEF Served
<1>2. ShapeOf(r)
  BY DEF Shape
<1>3. repo[r] # None
  BY <1>1, <1>2, CourseFacts DEF ShapeOf
<1>4. Course(r) /\ (op[r] \in Updates \cup {"promote"} => env[r] # None)
  BY <1>1, <1>2, <1>3 DEF ShapeOf, Active
<1>5. /\ todo[r] = <<"commit">>
      /\ op[r] \in Updates \cup {"promote", "bind", "unbind", "destroy"}
  BY <1>1, <1>4, CourseFacts DEF Course
<1>6. op[r] \in Updates => snapshot[r] # None /\ HomeOf(r) = "GITHUB"
  BY <1>1, <1>2, <1>5 DEF ShapeOf
<1> QED
  BY <1>1, <1>3, <1>4, <1>5, <1>6 DEF TypeOK

\* A served reading of an update is the first of its two calls.
LEMMA ServedUpdateGet ==
  ASSUME TypeOK, Shape, NEW r \in Requests, Served(r, "get"), op[r] \in Updates
  PROVE  /\ repo[r] \in Repos /\ todo[r] = <<"get", "commit">> /\ api[r] = HomeOf(r)
         /\ env[r] # None
<1>1. phase[r] = "call" /\ Head(todo[r]) = "get" /\ api[r] = HomeOf(r)
  BY DEF Served
<1>2. ShapeOf(r)
  BY DEF Shape
<1>3. repo[r] # None
  BY <1>1, <1>2, CourseFacts DEF ShapeOf
<1>4. Course(r) /\ env[r] # None
  BY <1>1, <1>2, <1>3 DEF ShapeOf, Active
<1>5. todo[r] = <<"get", "commit">>
  BY <1>1, <1>4, CourseFacts DEF Course, Updates
<1> QED
  BY <1>1, <1>3, <1>4, <1>5 DEF TypeOK

\* Only delete-repository deletes, and only the platform routes call AWS.
LEMMA ServedOther ==
  ASSUME TypeOK, Shape, NEW r \in Requests
  PROVE  /\ Served(r, "delete") => op[r] = "deleteRepo" /\ repo[r] \in Repos
         /\ Served(r, "aws") => op[r] = "platform"
<1>1. ShapeOf(r)
  BY DEF Shape
<1>2. ASSUME Served(r, "delete") PROVE op[r] = "deleteRepo" /\ repo[r] \in Repos
  <2>1. phase[r] = "call" /\ Head(todo[r]) = "delete"
    BY <1>2 DEF Served
  <2>2. repo[r] # None
    BY <1>1, <2>1, CourseFacts DEF ShapeOf
  <2>3. Course(r)
    BY <1>1, <2>1, <2>2 DEF ShapeOf, Active
  <2> QED
    BY <2>1, <2>2, <2>3, CourseFacts DEF Course, TypeOK
<1>3. ASSUME Served(r, "aws") PROVE op[r] = "platform"
  <2>1. phase[r] = "call" /\ Head(todo[r]) = "aws"
    BY <1>3 DEF Served
  <2>2. CASE repo[r] = None
    BY <1>1, <2>1, <2>2 DEF ShapeOf
  <2>3. CASE repo[r] # None
    <3>1. Course(r)
      BY <1>1, <2>1, <2>3 DEF ShapeOf, Active
    <3> QED
      BY <2>1, <3>1, CourseFacts DEF Course
  <2> QED
    BY <2>2, <2>3
<1> QED
  BY <1>2, <1>3

\* A response has one of the statuses, and SUCCESS answers nothing but a change that is ok.
LEMMA ResponseFacts ==
  ASSUME TypeOK, NEW r \in Requests, NEW outcome \in {"ok", "rejected", "threw"}
  PROVE  /\ Response(r, outcome) \in Statuses
         /\ outcome # "ok" => Response(r, outcome) # "SUCCESS"
         /\ op[r] \in {"read", "platform"} => Response(r, outcome) # "SUCCESS"
<1>1. gitProvider \in {"UNSET", "GITLAB", "GITHUB"}
  BY DEF TypeOK, Providers
<1>2. /\ UpdateAnswer(r, outcome = "ok") \in Statuses
      /\ outcome # "ok" => UpdateAnswer(r, outcome = "ok") # "SUCCESS"
  BY <1>1 DEF UpdateAnswer, Statuses
<1> HIDE DEF UpdateAnswer
<1>3. CASE Thrown(r, outcome)
  BY <1>3 DEF Response, Statuses
<1>4. CASE ~Thrown(r, outcome)
  <2>1. CASE op[r] \in Updates
    BY <1>2, <1>4, <2>1 DEF Response, Statuses, Updates
  <2>2. CASE op[r] \notin Updates
    BY <1>4, <2>2 DEF Response, Statuses
  <2> QED
    BY <2>1, <2>2
<1> QED
  BY <1>3, <1>4

\* A file commit or a deletion that is ok is answered with SUCCESS, but for unbind.
LEMMA ChangeIsTold ==
  ASSUME NEW r \in Requests, op[r] \in {"promote", "bind", "destroy", "deleteRepo"}
  PROVE  Response(r, "ok") = "SUCCESS"
BY DEF Response, Thrown, Updates

\* The commit of an update that is ok is answered with SUCCESS while the service is GitHub's.
LEMMA UpdateIsTold ==
  ASSUME NEW r \in Requests, op[r] \in Updates, todo[r] = <<"commit">>, gitProvider = "GITHUB"
  PROVE  Response(r, "ok") = "SUCCESS"
<1>1. UpdateAnswer(r, TRUE) = "SUCCESS"
  BY DEF UpdateAnswer
<1>2. Head(todo[r]) = "commit"
  BY CourseFacts
<1> HIDE DEF UpdateAnswer
<1> QED
  BY <1>1, <1>2 DEF Response, Thrown, Updates

-------------------------------------------------------------------------------
(* What the pieces of a continuation do. *)

\* The step changes nothing of the handler of q, nor what became of the change q asked for.
Alone(q) ==
  /\ phase'[q] = phase[q] /\ op'[q] = op[q] /\ repo'[q] = repo[q] /\ env'[q] = env[q]
  /\ todo'[q] = todo[q] /\ api'[q] = api[q] /\ snapshot'[q] = snapshot[q]
  /\ answer'[q] = answer[q] /\ fate'[q] = fate[q]

\* A request that is left alone stays where it is.
LEMMA AloneShape ==
  ASSUME NEW q \in Requests, ShapeOf(q), Alone(q), phase[q] = "idle" => crossed'[q] = crossed[q]
  PROVE  ShapeOf(q)'
BY DEF ShapeOf, Alone, Active, Course, HomeOf

\* While the service stays as it is, a request that is left alone is still routed well.
LEMMA AloneRouted ==
  ASSUME NEW q \in Requests, RoutedOf(q), Alone(q), crossed'[q] = crossed[q],
         gitProvider' = gitProvider
  PROVE  RoutedOf(q)'
BY DEF RoutedOf, Alone, InService, HomeOf

\* When the service is set to another provider, a request that is left alone is either
\* crossed or one of that provider's.
LEMMA CrossedRouted ==
  ASSUME TypeOK, NEW q \in Requests, RoutedOf(q), Alone(q), Crosses(gitProvider')
  PROVE  RoutedOf(q)'
<1>1. crossed'[q] <=> crossed[q] \/ (InService(q) /\ HomeOf(q) # gitProvider')
  BY DEF Crosses
<1>2. (InService(q)' <=> InService(q)) /\ HomeOf(q)' = HomeOf(q)
  BY DEF Alone, InService, HomeOf
<1> QED
  BY <1>1, <1>2 DEF RoutedOf, Alone

\* What the answer of a request that is left alone says stays true.
LEMMA AloneTold ==
  ASSUME NEW q \in Requests, ToldOf(q), Alone(q), crossed[q] => crossed'[q]
  PROVE  ToldOf(q)'
BY DEF ToldOf, Alone

\* Finish ends the request it is for, and leaves the others alone.
LEMMA FinishEffect ==
  ASSUME TypeOK, NEW r \in Requests, NEW status, Finish(r, status), NEW what, Record(r, what)
  PROVE  /\ phase'[r] = "done" /\ answer'[r] = status /\ fate'[r] = what
         /\ op'[r] = op[r] /\ repo'[r] = repo[r] /\ api'[r] = api[r] /\ snapshot'[r] = snapshot[r]
         /\ \A q \in Requests \ {r} : Alone(q)
BY DEF TypeOK, Finish, Record, Alone, request

\* A request that ends is well typed.
LEMMA FinishType ==
  ASSUME TypeOK, NEW r \in Requests, NEW status \in Statuses, Finish(r, status)
  PROVE  /\ gitProvider' \in Providers
         /\ phase' \in [Requests -> {"idle", "token", "call", "done"}]
         /\ op' \in [Requests -> Ops \cup {None}]
         /\ repo' \in [Requests -> Repos \cup {None}]
         /\ env' \in [Requests -> EnvProviders \cup {None}]
         /\ todo' \in [Requests -> Seq({"get", "commit", "delete", "aws"})]
         /\ api' \in [Requests -> Providers \cup {None}]
         /\ snapshot' \in [Requests -> Entity \cup {None}]
         /\ answer' \in [Requests -> {"none", "SUCCESS", "FAILURE", "200", "500"}]
<1>1. <<>> \in Seq({"get", "commit", "delete", "aws"})
  OBVIOUS
<1>2. todo' \in [Requests -> Seq({"get", "commit", "delete", "aws"})]
  BY <1>1 DEF TypeOK, Finish
<1>3. UNCHANGED <<gitProvider, op, repo, env, api, snapshot>>
  BY DEF Finish, request
<1>4. phase' = [phase EXCEPT ![r] = "done"] /\ answer' = [answer EXCEPT ![r] = status]
  BY DEF Finish
<1> QED
  BY <1>2, <1>3, <1>4 DEF TypeOK, Statuses

\* A request that ends with an answer that tells what became of its change keeps all that
\* the invariant says of the requests.
LEMMA FinishKeeps ==
  ASSUME TypeOK, Shape, Routed, Told, NEW r \in Requests, phase[r] \in {"token", "call"},
         NEW status \in Statuses, Finish(r, status),
         NEW what \in {"none", "failed", "lost", "heard"}, Record(r, what), UNCHANGED crossed,
         status = "SUCCESS" => what = "heard",
         what = "heard" /\ ~crossed[r] /\ op[r] # "unbind" => status = "SUCCESS"
  PROVE  Shape' /\ Routed' /\ Told'
<1>1. /\ phase'[r] = "done" /\ answer'[r] = status /\ fate'[r] = what
      /\ op'[r] = op[r] /\ repo'[r] = repo[r] /\ api'[r] = api[r] /\ snapshot'[r] = snapshot[r]
      /\ \A q \in Requests \ {r} : Alone(q)
  BY FinishEffect
<1>2. gitProvider' = gitProvider /\ crossed' = crossed
  BY DEF Finish
<1>3. ShapeOf(r) /\ RoutedOf(r)
  BY DEF Shape, Routed
<1>4. ShapeOf(r)' /\ RoutedOf(r)' /\ ToldOf(r)'
  <2>1. ShapeOf(r)'
    BY <1>1, <1>3 DEF ShapeOf, Active, HomeOf
  <2>2. RoutedOf(r)'
    BY <1>1, <1>2, <1>3 DEF RoutedOf, InService, HomeOf
  <2>3. ToldOf(r)'
    BY <1>1, <1>2 DEF ToldOf
  <2> QED
    BY <2>1, <2>2, <2>3
<1>5. ASSUME NEW q \in Requests \ {r} PROVE ShapeOf(q)' /\ RoutedOf(q)' /\ ToldOf(q)'
  BY <1>1, <1>2, AloneShape, AloneRouted, AloneTold DEF Shape, Routed, Told
<1> QED
  BY <1>4, <1>5 DEF Shape, Routed, Told

\* A request that ends without touching an entity keeps what is known of the readings.
LEMMA FinishFresh ==
  ASSUME TypeOK, Shape, Fresh, FreshUpdatesKept, NEW r \in Requests,
         phase[r] \in {"token", "call"}, NEW status, Finish(r, status), NEW what, Record(r, what),
         UNCHANGED <<dependsOn, stale, ledger>>
  PROVE  Fresh' /\ FreshUpdatesKept'
<1>1. phase'[r] = "done" /\ \A q \in Requests \ {r} : Alone(q)
  BY FinishEffect
<1>2. fate[r] = "none"
  BY DEF Shape, ShapeOf
<1>3. Fresh'
  BY <1>1 DEF Fresh, FreshOf, InService, Alone
<1>4. FreshUpdatesKept'
  <2> SUFFICES ASSUME NEW x \in Repos, dependsOn[x] # ledger[x]
               PROVE  \E q \in Requests :
                        repo'[q] = x /\ stale'[q] /\ fate'[q] \in {"lost", "heard"}
    BY DEF FreshUpdatesKept
  <2>1. PICK q \in Requests : repo[q] = x /\ stale[q] /\ fate[q] \in {"lost", "heard"}
    BY DEF FreshUpdatesKept
  <2>2. q # r
    BY <1>2, <2>1
  <2> QED
    BY <1>1, <2>1, <2>2 DEF Alone
<1> QED
  BY <1>3, <1>4

\* A step that leaves what happened alone records what was recorded.
LEMMA Unrecorded ==
  ASSUME TypeOK, NEW r \in Requests, UNCHANGED fate
  PROVE  Record(r, fate[r])
BY DEF TypeOK, Record

-------------------------------------------------------------------------------
(* Inv is inductive: one lemma for each action. *)

\* Initially nothing has come.
LEMMA InitInv == Init => Inv
<1> SUFFICES ASSUME Init
             PROVE  Inv
  OBVIOUS
<1>1. TypeOK
  <2>1. <<>> \in Seq({"get", "commit", "delete", "aws"})
    OBVIOUS
  <2>2. todo \in [Requests -> Seq({"get", "commit", "delete", "aws"})]
    BY <2>1 DEF Init
  <2>3. dependsOn \in [Repos -> Entity] /\ ledger \in [Repos -> Entity]
    BY DEF Init, Entity
  <2>4. slot \in [Repos -> [Files -> Requests \cup {None}]]
    BY DEF Init
  <2> QED
    BY <2>2, <2>3, <2>4 DEF Init, TypeOK, Providers
<1>2. Shape
  BY DEF Init, Shape, ShapeOf, Active
<1>3. Routed /\ Told /\ Fresh
  BY DEF Init, Routed, RoutedOf, Told, ToldOf, Fresh, FreshOf, InService
<1>4. FreshUpdatesKept
  BY DEF Init, FreshUpdatesKept
<1> QED
  BY <1>1, <1>2, <1>3, <1>4 DEF Inv

\* An answer that ends a handler without a change in a repository.
LEMMA FinishInv ==
  ASSUME Inv, NEW r \in Requests, phase[r] \in {"token", "call"},
         NEW status \in Statuses, Finish(r, status), status # "SUCCESS",
         NEW what \in {"none", "failed"}, Record(r, what),
         UNCHANGED <<remote, crossed, stale, ledger>>
  PROVE  Inv'
<1>1. Shape' /\ Routed' /\ Told'
  BY FinishKeeps DEF Inv
<1>2. Fresh' /\ FreshUpdatesKept'
  BY FinishFresh DEF Inv, remote
<1>3. TypeOK'
  BY FinishType DEF Inv, TypeOK, Record, remote
<1> QED
  BY <1>1, <1>2, <1>3 DEF Inv

\* The same, of the actions that record nothing.
LEMMA FinishSilently ==
  ASSUME Inv, NEW r \in Requests, phase[r] \in {"token", "call"},
         NEW status \in Statuses, Finish(r, status), status # "SUCCESS",
         UNCHANGED <<remote, past>>
  PROVE  Inv'
<1>1. fate[r] = "none" /\ Record(r, fate[r])
  BY Unrecorded DEF Inv, Shape, ShapeOf, past
<1> QED
  BY <1>1, FinishInv DEF past

\* A token that cannot be had ends the request with a 500.
LEMMA TokenFailedInv ==
  ASSUME Inv, NEW r \in Requests, TokenFailed(r)
  PROVE  Inv'
BY FinishInv DEF TokenFailed, Statuses

\* An entity without a spec, or an unset provider, ends the request with a 500.
LEMMA TokenWastedInv ==
  ASSUME Inv, NEW r \in Requests, TokenWasted(r)
  PROVE  Inv'
BY FinishSilently DEF TokenWasted, Statuses

\* A platform request ends with the answer of its one call.
LEMMA PlatformAnsweredInv ==
  ASSUME Inv, NEW r \in Requests, PlatformAnswered(r)
  PROVE  Inv'
<1>1. op[r] = "platform" /\ phase[r] = "call"
  BY ServedOther DEF Inv, PlatformAnswered, Served
<1>2. Response(r, "ok") \in Statuses /\ Response(r, "ok") # "SUCCESS"
  BY <1>1, ResponseFacts DEF Inv
<1> QED
  BY <1>1, <1>2, FinishSilently DEF PlatformAnswered

\* A reading ends with the file or with a 500.
LEMMA FileReadInv ==
  ASSUME Inv, NEW r \in Requests, FileRead(r)
  PROVE  Inv'
<1>1. op[r] = "read" /\ phase[r] = "call"
  BY DEF FileRead, Served
<1>2. Response(r, "ok") \in Statuses /\ Response(r, "ok") # "SUCCESS"
  BY <1>1, ResponseFacts DEF Inv
<1> QED
  BY <1>1, <1>2, FinishSilently DEF FileRead

\* A call that is refused or throws never ends with SUCCESS.
LEMMA CallFailedInv ==
  ASSUME Inv, NEW r \in Requests, CallFailed(r)
  PROVE  Inv'
<1>1. PICK outcome \in {"rejected", "threw"} : Finish(r, Response(r, outcome))
  BY DEF CallFailed
<1>2. Response(r, outcome) \in Statuses /\ Response(r, outcome) # "SUCCESS"
  BY ResponseFacts DEF Inv
<1> QED
  BY <1>1, <1>2, FinishInv DEF CallFailed

\* A call to the wrong git provider never ends with SUCCESS.
LEMMA MisroutedInv ==
  ASSUME Inv, NEW r \in Requests, Misrouted(r)
  PROVE  Inv'
<1>1. Response(r, "threw") \in Statuses /\ Response(r, "threw") # "SUCCESS"
  BY ResponseFacts DEF Inv
<1> QED
  BY <1>1, FinishSilently DEF Misrouted

\* What a change is answered with, heard or lost, tells what became of it.
LEMMA ChangedTells ==
  ASSUME Inv, NEW r \in Requests, phase[r] = "call", Changed(r), UNCHANGED crossed,
         ~crossed[r] /\ op[r] # "unbind" => Response(r, "ok") = "SUCCESS"
  PROVE  /\ Shape' /\ Routed' /\ Told'
         /\ \E status \in Statuses, what \in {"lost", "heard"} :
              Finish(r, status) /\ Record(r, what)
<1>1. /\ Response(r, "ok") \in Statuses /\ Response(r, "threw") \in Statuses
      /\ Response(r, "threw") # "SUCCESS"
  BY ResponseFacts DEF Inv
<1>2. CASE Record(r, "heard") /\ Finish(r, Response(r, "ok"))
  BY <1>1, <1>2, FinishKeeps DEF Inv
<1>3. CASE Record(r, "lost") /\ Finish(r, Response(r, "threw"))
  BY <1>1, <1>3, FinishKeeps DEF Inv
<1> QED
  BY <1>2, <1>3 DEF Changed

\* A file that is committed is answered by what became of the commit.
LEMMA FileCommittedInv ==
  ASSUME Inv, NEW r \in Requests, FileCommitted(r)
  PROVE  Inv'
<1>1. /\ phase[r] = "call" /\ op[r] \in {"promote", "bind", "unbind", "destroy"}
      /\ repo[r] \in Repos /\ (op[r] = "promote" => env[r] \in EnvProviders)
  BY ServedCommit DEF Inv, FileCommitted, Served
<1>2. /\ Shape' /\ Routed' /\ Told'
      /\ \E status \in Statuses, what \in {"lost", "heard"} :
           Finish(r, status) /\ Record(r, what)
  BY <1>1, ChangeIsTold, ChangedTells DEF FileCommitted
<1>3. PICK status \in Statuses, what \in {"lost", "heard"} : Finish(r, status) /\ Record(r, what)
  BY <1>2
<1>4. Fresh' /\ FreshUpdatesKept'
  BY <1>1, <1>3, FinishFresh DEF Inv, FileCommitted
<1>5. TypeOK'
  <2>1. WrittenFile(r) \in Files
    BY <1>1 DEF WrittenFile, Files
  <2>2. slot' \in [Repos -> [Files -> Requests \cup {None}]]
    BY <1>1, <2>1 DEF FileCommitted, Inv, TypeOK
  <2> QED
    BY <1>3, <2>2, FinishType DEF Inv, TypeOK, FileCommitted, Record
<1> QED
  BY <1>2, <1>4, <1>5 DEF Inv

\* A repository that is deleted is answered by what became of the deletion.
LEMMA RepositoryDeletedInv ==
  ASSUME Inv, NEW r \in Requests, RepositoryDeleted(r)
  PROVE  Inv'
<1>1. phase[r] = "call" /\ op[r] = "deleteRepo" /\ repo[r] \in Repos
  BY ServedOther DEF Inv, RepositoryDeleted, Served
<1>2. /\ Shape' /\ Routed' /\ Told'
      /\ \E status \in Statuses, what \in {"lost", "heard"} :
           Finish(r, status) /\ Record(r, what)
  BY <1>1, ChangeIsTold, ChangedTells DEF RepositoryDeleted
<1>3. PICK status \in Statuses, what \in {"lost", "heard"} : Finish(r, status) /\ Record(r, what)
  BY <1>2
<1>4. Fresh' /\ FreshUpdatesKept'
  BY <1>1, <1>3, FinishFresh DEF Inv, RepositoryDeleted
<1>5. TypeOK'
  BY <1>1, <1>3, FinishType DEF Inv, TypeOK, RepositoryDeleted, Record
<1> QED
  BY <1>2, <1>4, <1>5 DEF Inv

\* An entity is written: readings of the others are outdated, and the writer's own may have
\* been, which is the one way in which the ledger and the entity part.
LEMMA EntityCommittedInv ==
  ASSUME Inv, NEW r \in Requests, EntityCommitted(r)
  PROVE  Inv'
<1>1. /\ phase[r] = "call" /\ op[r] \in Updates /\ todo[r] = <<"commit">>
      /\ repo[r] \in Repos /\ HomeOf(r) = "GITHUB"
      /\ snapshot[r] \in Entity /\ env[r] \in EnvProviders
  BY ServedCommit DEF Inv, EntityCommitted, Served
<1>2. repo[r] # None /\ InService(r)
  BY <1>1, NoneIsNothing DEF InService
<1>3. ~crossed[r] => Response(r, "ok") = "SUCCESS"
  BY <1>1, <1>2, UpdateIsTold DEF Inv, Routed, RoutedOf
<1>4. /\ Shape' /\ Routed' /\ Told'
      /\ \E status \in Statuses, what \in {"lost", "heard"} :
           Finish(r, status) /\ Record(r, what)
  BY <1>1, <1>3, ChangedTells DEF EntityCommitted
<1>5. PICK status \in Statuses, what \in {"lost", "heard"} : Finish(r, status) /\ Record(r, what)
  BY <1>4
<1>6. /\ phase'[r] = "done" /\ repo'[r] = repo[r] /\ fate'[r] \in {"lost", "heard"}
      /\ \A q \in Requests \ {r} : Alone(q)
  BY <1>5, FinishEffect DEF Inv
<1>7. /\ dependsOn'[repo[r]] = Updated(r, snapshot[r])
      /\ ledger'[repo[r]] = Updated(r, ledger[repo[r]])
      /\ \A x \in Repos : x # repo[r] => dependsOn'[x] = dependsOn[x] /\ ledger'[x] = ledger[x]
      /\ \A q \in Requests :
           stale'[q] <=>
             stale[q] \/ (q # r /\ repo[q] = repo[r] /\ snapshot[q] # None /\ InService(q))
  BY <1>1 DEF EntityCommitted, Inv, TypeOK
<1>8. Fresh'
  <2> SUFFICES ASSUME NEW q \in Requests, InService(q)', snapshot'[q] # None, ~stale'[q]
               PROVE  snapshot'[q] = dependsOn'[repo'[q]]
    BY DEF Fresh, FreshOf
  <2>1. q # r
    BY <1>6 DEF InService
  <2>2. Alone(q) /\ InService(q) /\ snapshot[q] # None /\ ~stale[q]
    BY <1>6, <1>7, <2>1 DEF Alone, InService
  <2>3. repo[q] # repo[r] /\ repo[q] \in Repos
    BY <1>7, <2>1, <2>2 DEF InService, Inv, TypeOK
  <2>4. snapshot[q] = dependsOn[repo[q]]
    BY <2>2 DEF Inv, Fresh, FreshOf
  <2> QED
    BY <1>7, <2>2, <2>3, <2>4 DEF Alone
<1>9. FreshUpdatesKept'
  <2> SUFFICES ASSUME NEW x \in Repos, dependsOn'[x] # ledger'[x]
               PROVE  \E q \in Requests :
                        repo'[q] = x /\ stale'[q] /\ fate'[q] \in {"lost", "heard"}
    BY DEF FreshUpdatesKept
  <2>1. CASE x = repo[r] /\ stale[r]
    BY <1>6, <1>7, <2>1
  <2>2. CASE x # repo[r] \/ ~stale[r]
    <3>1. dependsOn[x] # ledger[x]
      <4>1. CASE x # repo[r]
        BY <1>7, <4>1
      <4>2. CASE x = repo[r] /\ ~stale[r]
        <5>1. snapshot[r] # None
          BY <1>1 DEF Inv, Shape, ShapeOf
        <5>2. snapshot[r] = dependsOn[x]
          BY <1>2, <4>2, <5>1 DEF Inv, Fresh, FreshOf
        <5> QED
          BY <1>7, <4>2, <5>2
      <4> QED
        BY <2>2, <4>1, <4>2
    <3>2. PICK q \in Requests : repo[q] = x /\ stale[q] /\ fate[q] \in {"lost", "heard"}
      BY <3>1 DEF Inv, FreshUpdatesKept
    <3>3. fate[r] = "none"
      BY <1>1 DEF Inv, Shape, ShapeOf
    <3>4. Alone(q) /\ stale'[q]
      BY <1>6, <1>7, <3>2, <3>3
    <3> QED
      BY <3>2, <3>4 DEF Alone
  <2> QED
    BY <2>1, <2>2
<1>10. TypeOK'
  <2>1. \A entity \in Entity : Updated(r, entity) \in Entity
    BY <1>1 DEF Updated, Entity
  <2>2. dependsOn' \in [Repos -> Entity] /\ ledger' \in [Repos -> Entity]
    BY <1>1, <2>1 DEF EntityCommitted, Inv, TypeOK
  <2>3. stale' \in [Requests -> BOOLEAN]
    <3>1. \A q \in Requests : stale[q] \in BOOLEAN
      BY DEF Inv, TypeOK
    <3> QED
      BY <3>1 DEF EntityCommitted
  <2> QED
    BY <1>5, <2>2, <2>3, FinishType DEF Inv, TypeOK, EntityCommitted, Record
<1> QED
  BY <1>4, <1>8, <1>9, <1>10 DEF Inv

\* A step that moves one request on, and touches neither an entity nor what became of a
\* change, leaves the ledger in order.
LEMMA LedgerKept ==
  ASSUME Inv, UNCHANGED <<dependsOn, ledger, stale, fate>>,
         NEW r \in Requests, phase[r] # "done", \A q \in Requests \ {r} : repo'[q] = repo[q]
  PROVE  FreshUpdatesKept'
<1> SUFFICES ASSUME NEW x \in Repos, dependsOn[x] # ledger[x]
             PROVE  \E q \in Requests :
                      repo'[q] = x /\ stale'[q] /\ fate'[q] \in {"lost", "heard"}
  BY DEF FreshUpdatesKept
<1>1. PICK q \in Requests : repo[q] = x /\ stale[q] /\ fate[q] \in {"lost", "heard"}
  BY DEF Inv, FreshUpdatesKept
<1>2. q # r
  BY <1>1 DEF Inv, Shape, ShapeOf
<1> QED
  BY <1>1, <1>2

\* The implementation a handler takes is the one of its repository's provider, unless it
\* was crossed while it waited for the token.
LEMMA TokenGotInv ==
  ASSUME Inv, NEW r \in Requests, TokenGot(r)
  PROVE  Inv'
<1>1. /\ phase[r] = "token" /\ phase'[r] = "call" /\ api'[r] = gitProvider
      /\ op'[r] = op[r] /\ repo'[r] = repo[r] /\ env'[r] = env[r] /\ todo'[r] = todo[r]
      /\ snapshot'[r] = snapshot[r] /\ answer'[r] = answer[r] /\ fate'[r] = fate[r]
      /\ \A q \in Requests \ {r} : Alone(q)
  BY DEF TokenGot, Inv, TypeOK, Alone, request, past
<1>2. UNCHANGED <<gitProvider, dependsOn, fate, crossed, stale, ledger>>
  BY DEF TokenGot, remote, past
<1>3. ShapeOf(r) /\ RoutedOf(r) /\ ToldOf(r) /\ FreshOf(r)
  BY DEF Inv, Shape, Routed, Told, Fresh
<1>4. repo[r] # None
  BY <1>1, <1>3 DEF ShapeOf
<1>5. ShapeOf(r)'
  <2>1. op[r] \in Updates /\ todo[r] = <<"commit">> => snapshot[r] # None
    BY CourseFacts DEF TokenGot, NoSpec
  <2> QED
    BY <1>1, <1>3, <1>4, <2>1 DEF ShapeOf, Active, Course, HomeOf
<1>6. RoutedOf(r)'
  BY <1>1, <1>2, <1>3, <1>4 DEF RoutedOf, InService, HomeOf
<1>7. ToldOf(r)' /\ FreshOf(r)'
  BY <1>1, <1>2, <1>3 DEF ToldOf, FreshOf, InService
<1>8. ASSUME NEW q \in Requests \ {r} PROVE ShapeOf(q)' /\ RoutedOf(q)' /\ ToldOf(q)' /\ FreshOf(q)'
  <2>1. ShapeOf(q)' /\ RoutedOf(q)' /\ ToldOf(q)'
    BY <1>1, <1>2, AloneShape, AloneRouted, AloneTold DEF Inv, Shape, Routed, Told
  <2>2. FreshOf(q)'
    BY <1>1, <1>2 DEF Inv, Fresh, FreshOf, Alone, InService
  <2> QED
    BY <2>1, <2>2
<1>9. FreshUpdatesKept'
  BY <1>1, <1>2, LedgerKept DEF Alone
<1>10. TypeOK'
  BY DEF TokenGot, Inv, TypeOK, request, remote, past
<1> QED
  BY <1>5, <1>6, <1>7, <1>8, <1>9, <1>10 DEF Inv, Shape, Routed, Told, Fresh

\* What is read of an entity is what it holds, and only GitHub's entities are understood.
LEMMA EntityReadInv ==
  ASSUME Inv, NEW r \in Requests, EntityRead(r)
  PROVE  Inv'
<1>1. /\ phase[r] = "call" /\ op[r] \in Updates /\ todo[r] = <<"get", "commit">>
      /\ repo[r] \in Repos /\ api[r] = HomeOf(r) /\ env[r] # None
  BY ServedUpdateGet DEF Inv, EntityRead, Served
<1>2. /\ phase'[r] = "token" /\ todo'[r] = <<"commit">> /\ api'[r] = api[r]
      /\ op'[r] = op[r] /\ repo'[r] = repo[r] /\ env'[r] = env[r]
      /\ answer'[r] = answer[r] /\ fate'[r] = fate[r]
      /\ snapshot'[r] = IF HomeOf(r) = "GITHUB" THEN dependsOn[repo[r]] ELSE None
      /\ \A q \in Requests \ {r} : Alone(q)
  BY <1>1, CourseFacts DEF EntityRead, Inv, TypeOK, Alone, request, past
<1>3. UNCHANGED <<gitProvider, dependsOn, fate, crossed, stale, ledger>>
  BY DEF EntityRead, remote, past
<1>4. ShapeOf(r) /\ RoutedOf(r) /\ ToldOf(r)
  BY DEF Inv, Shape, Routed, Told
<1>5. repo[r] # None
  BY <1>1, NoneIsNothing
<1>6. ShapeOf(r)'
  BY <1>1, <1>2, <1>4, <1>5 DEF ShapeOf, Active, Course, HomeOf
<1>7. RoutedOf(r)'
  BY <1>1, <1>2, <1>3, <1>4 DEF RoutedOf, InService, HomeOf
<1>8. ToldOf(r)' /\ FreshOf(r)'
  BY <1>2, <1>3, <1>4 DEF ToldOf, FreshOf
<1>9. ASSUME NEW q \in Requests \ {r} PROVE ShapeOf(q)' /\ RoutedOf(q)' /\ ToldOf(q)' /\ FreshOf(q)'
  <2>1. ShapeOf(q)' /\ RoutedOf(q)' /\ ToldOf(q)'
    BY <1>2, <1>3, AloneShape, AloneRouted, AloneTold DEF Inv, Shape, Routed, Told
  <2>2. FreshOf(q)'
    BY <1>2, <1>3 DEF Inv, Fresh, FreshOf, Alone, InService
  <2> QED
    BY <2>1, <2>2
<1>10. FreshUpdatesKept'
  BY <1>1, <1>2, <1>3, LedgerKept DEF Alone
<1>11. TypeOK'
  <2>1. Tail(todo[r]) \in Seq({"get", "commit", "delete", "aws"})
    BY <1>1, CourseFacts
  <2>2. todo' \in [Requests -> Seq({"get", "commit", "delete", "aws"})]
    BY <2>1 DEF EntityRead, Inv, TypeOK
  <2>3. snapshot' \in [Requests -> Entity \cup {None}]
    BY <1>1 DEF EntityRead, Inv, TypeOK
  <2> QED
    BY <2>2, <2>3 DEF EntityRead, Inv, TypeOK, request, remote, past
<1> QED
  BY <1>6, <1>7, <1>8, <1>9, <1>10, <1>11 DEF Inv, Shape, Routed, Told, Fresh

\* What entering does to the requests that are there already.
LEMMA EnterKeepsOthers ==
  ASSUME Inv, NEW r \in Requests, phase[r] = "idle", \A q \in Requests \ {r} : Alone(q),
         Crosses(gitProvider'), UNCHANGED <<dependsOn, stale>>
  PROVE  /\ ~crossed[r] /\ ~crossed'[r]
         /\ \A q \in Requests \ {r} : ShapeOf(q)' /\ RoutedOf(q)' /\ ToldOf(q)' /\ FreshOf(q)'
<1>1. ~crossed[r] /\ ~crossed'[r]
  BY DEF Inv, Shape, ShapeOf, Crosses, InService
<1>2. ASSUME NEW q \in Requests \ {r} PROVE ShapeOf(q)' /\ RoutedOf(q)' /\ ToldOf(q)' /\ FreshOf(q)'
  <2>1. crossed'[q] <=> crossed[q] \/ (InService(q) /\ HomeOf(q) # gitProvider')
    BY DEF Crosses
  <2>2. phase[q] = "idle" => crossed'[q] = crossed[q]
    BY <2>1 DEF InService, Inv, TypeOK, Crosses
  <2>3. ShapeOf(q)' /\ RoutedOf(q)' /\ ToldOf(q)'
    BY <2>1, <2>2, AloneShape, CrossedRouted, AloneTold DEF Inv, Shape, Routed, Told
  <2>4. FreshOf(q)'
    BY DEF Inv, Fresh, FreshOf, Alone, InService
  <2> QED
    BY <2>3, <2>4
<1> QED
  BY <1>1, <1>2

\* A request that enters starts its course and crosses those of the other provider.
LEMMA EnterInv ==
  ASSUME Inv, NEW r \in Requests, Enter(r)
  PROVE  Inv'
<1>1. PICK o \in Ops \ {"platform"}, x \in Repos, e \in EnvProviders :
        /\ op' = [op EXCEPT ![r] = o]
        /\ repo' = [repo EXCEPT ![r] = x]
        /\ env' = [env EXCEPT ![r] = e]
        /\ todo' = [todo EXCEPT ![r] = GitCalls[o]]
        /\ gitProvider' = Home[x]
        /\ Crosses(Home[x])
  BY DEF Enter
<1>2. /\ phase[r] = "idle"
      /\ phase' = [phase EXCEPT ![r] = "token"]
      /\ UNCHANGED <<api, snapshot, answer, exists, slot, dependsOn, taken, fate, stale, ledger>>
  BY DEF Enter, remote
<1>3. /\ phase'[r] = "token" /\ op'[r] = o /\ repo'[r] = x /\ env'[r] = e
      /\ todo'[r] = GitCalls[o] /\ api'[r] = api[r] /\ snapshot'[r] = snapshot[r]
      /\ answer'[r] = answer[r] /\ fate'[r] = fate[r]
      /\ \A q \in Requests \ {r} : Alone(q)
  BY <1>1, <1>2 DEF Inv, TypeOK, Alone
<1>4. x # None /\ e # None
  BY NoneIsNothing
<1>5. /\ ~crossed[r] /\ ~crossed'[r]
      /\ \A q \in Requests \ {r} : ShapeOf(q)' /\ RoutedOf(q)' /\ ToldOf(q)' /\ FreshOf(q)'
  BY <1>1, <1>2, <1>3, EnterKeepsOthers
<1>6. api[r] = None /\ snapshot[r] = None /\ fate[r] = "none" /\ answer[r] = "none"
  BY <1>2 DEF Inv, Shape, ShapeOf
<1>7. ShapeOf(r)'
  <2>1. Course(r)'
    BY <1>3, CoursesStart DEF Course
  <2> QED
    BY <1>3, <1>4, <1>6, <2>1 DEF ShapeOf, Active
<1>8. RoutedOf(r)' /\ ToldOf(r)' /\ FreshOf(r)'
  BY <1>1, <1>3, <1>6 DEF RoutedOf, ToldOf, FreshOf, HomeOf
<1>9. FreshUpdatesKept'
  BY <1>2, <1>3, LedgerKept DEF Alone
<1>10. TypeOK'
  <2>1. todo' \in [Requests -> Seq({"get", "commit", "delete", "aws"})]
    BY <1>1, CoursesStart DEF Inv, TypeOK
  <2>2. gitProvider' \in Providers
    BY <1>1, HomeAssumption DEF Providers
  <2>3. crossed' \in [Requests -> BOOLEAN]
    <3>1. \A q \in Requests : crossed[q] \in BOOLEAN
      BY DEF Inv, TypeOK
    <3> QED
      BY <1>1, <3>1 DEF Crosses
  <2> QED
    BY <1>1, <1>2, <2>1, <2>2, <2>3 DEF Inv, TypeOK
<1> QED
  BY <1>5, <1>7, <1>8, <1>9, <1>10 DEF Inv, Shape, Routed, Told, Fresh

\* A platform request that enters crosses every git request in flight.
LEMMA EnterPlatformInv ==
  ASSUME Inv, NEW r \in Requests, EnterPlatform(r)
  PROVE  Inv'
<1>1. /\ phase[r] = "idle" /\ "platform" \in Ops
      /\ op' = [op EXCEPT ![r] = "platform"]
      /\ todo' = [todo EXCEPT ![r] = <<"aws">>]
      /\ gitProvider' = "UNSET" /\ Crosses(gitProvider')
      /\ phase' = [phase EXCEPT ![r] = "call"]
      /\ UNCHANGED <<repo, env, api, snapshot, answer, exists, slot, dependsOn, taken>>
      /\ UNCHANGED <<fate, stale, ledger>>
  BY DEF EnterPlatform, GitCalls, PlatformCall, remote
<1>2. /\ phase'[r] = "call" /\ op'[r] = "platform" /\ repo'[r] = repo[r] /\ todo'[r] = <<"aws">>
      /\ api'[r] = api[r] /\ snapshot'[r] = snapshot[r]
      /\ answer'[r] = answer[r] /\ fate'[r] = fate[r]
      /\ \A q \in Requests \ {r} : Alone(q)
  BY <1>1 DEF Inv, TypeOK, Alone
<1>3. /\ ~crossed[r] /\ ~crossed'[r]
      /\ \A q \in Requests \ {r} : ShapeOf(q)' /\ RoutedOf(q)' /\ ToldOf(q)' /\ FreshOf(q)'
  BY <1>1, <1>2, EnterKeepsOthers
<1>4. repo[r] = None /\ snapshot[r] = None /\ fate[r] = "none" /\ answer[r] = "none"
  BY <1>1 DEF Inv, Shape, ShapeOf
<1>5. ShapeOf(r)'
  BY <1>2, <1>4 DEF ShapeOf, Active, Updates
<1>6. RoutedOf(r)' /\ ToldOf(r)' /\ FreshOf(r)'
  BY <1>2, <1>4 DEF RoutedOf, ToldOf, FreshOf, InService
<1>7. FreshUpdatesKept'
  BY <1>1, <1>2, LedgerKept DEF Alone
<1>8. TypeOK'
  <2>1. <<"aws">> \in Seq({"get", "commit", "delete", "aws"})
    OBVIOUS
  <2>2. todo' \in [Requests -> Seq({"get", "commit", "delete", "aws"})]
    BY <1>1, <2>1 DEF Inv, TypeOK
  <2>3. crossed' \in [Requests -> BOOLEAN]
    <3>1. \A q \in Requests : crossed[q] \in BOOLEAN
      BY DEF Inv, TypeOK
    <3> QED
      BY <1>1, <3>1 DEF Crosses
  <2> QED
    BY <1>1, <2>2, <2>3 DEF Inv, TypeOK, Providers
<1> QED
  BY <1>3, <1>5, <1>6, <1>7, <1>8 DEF Inv, Shape, Routed, Told, Fresh

\* What the pipeline takes concerns no handler.
LEMMA PipelineTakesInv ==
  ASSUME Inv, NEW x \in Repos, NEW f \in {"binding", "destroy"}, PipelineTakes(x, f)
  PROVE  Inv'
<1>1. UNCHANGED <<gitProvider, phase, op, repo, env, todo, api, snapshot, answer,
                  exists, dependsOn, fate, crossed, stale, ledger>>
  BY DEF PipelineTakes, request, past
<1>2. slot' \in [Repos -> [Files -> Requests \cup {None}]] /\ taken' \in SUBSET Requests
  <2>1. f \in Files
    BY DEF Files
  <2> QED
    BY <2>1 DEF PipelineTakes, Inv, TypeOK
<1>3. TypeOK'
  BY <1>1, <1>2 DEF Inv, TypeOK
<1>4. Shape' /\ Routed' /\ Told'
  BY <1>1 DEF Inv, Shape, ShapeOf, Active, Course, HomeOf, Routed, RoutedOf, InService, Told, ToldOf
<1>5. Fresh' /\ FreshUpdatesKept'
  BY <1>1 DEF Inv, Fresh, FreshOf, InService, FreshUpdatesKept
<1> QED
  BY <1>3, <1>4, <1>5 DEF Inv

\* Every step keeps Inv.
LEMMA InvStep == Inv /\ [Next]_vars => Inv'
<1> SUFFICES ASSUME Inv, [Next]_vars
             PROVE  Inv'
  OBVIOUS
<1>1. CASE UNCHANGED vars
  <2>1. TypeOK'
    BY <1>1 DEF vars, Inv, TypeOK
  <2>2. Shape' /\ Routed' /\ Told'
    BY <1>1 DEF vars, Inv, Shape, ShapeOf, Active, Course, HomeOf, Routed, RoutedOf, InService,
                Told, ToldOf
  <2>3. Fresh' /\ FreshUpdatesKept'
    BY <1>1 DEF vars, Inv, Fresh, FreshOf, InService, FreshUpdatesKept
  <2> QED
    BY <2>1, <2>2, <2>3 DEF Inv
<1>2. ASSUME NEW r \in Requests, Enter(r) \/ EnterPlatform(r) PROVE Inv'
  BY <1>2, EnterInv, EnterPlatformInv
<1>3. ASSUME NEW r \in Requests, Continue(r) PROVE Inv'
  BY <1>3, TokenFailedInv, TokenGotInv, TokenWastedInv, PlatformAnsweredInv, FileReadInv,
     EntityReadInv, FileCommittedInv, EntityCommittedInv, RepositoryDeletedInv, CallFailedInv,
     MisroutedInv
     DEF Continue
<1>4. ASSUME NEW x \in Repos, NEW f \in {"binding", "destroy"}, PipelineTakes(x, f) PROVE Inv'
  BY <1>4, PipelineTakesInv
<1> QED
  BY <1>1, <1>2, <1>3, <1>4 DEF Next, AllDone

\* The invariant of the git routes.
THEOREM InvHolds == Spec => []Inv
BY InitInv, InvStep, PTL DEF Spec

-------------------------------------------------------------------------------
(* The properties. *)

\* Every variable of the routes has its type in every state.
THEOREM TypeCorrect == Spec => []TypeOK
<1>1. Inv => TypeOK
  BY DEF Inv
<1> QED
  BY <1>1, InvHolds, PTL

\* A request that no request of another git provider crosses talks to the provider that
\* hosts its repository, however many requests share the one GitService.
THEOREM ReachesHome == Spec => []UncrossedReachesHome
<1>1. Inv => UncrossedReachesHome
  BY DEF Inv, Routed, RoutedOf, UncrossedReachesHome
<1> QED
  BY <1>1, InvHolds, PTL

\* SUCCESS is answered only for a change that is in the repository.
THEOREM SuccessCommitted == Spec => []SuccessIsCommitted
<1>1. Inv => SuccessIsCommitted
  BY DEF Inv, Told, ToldOf, SuccessIsCommitted
<1> QED
  BY <1>1, InvHolds, PTL

\* A change that was made and acknowledged is answered with SUCCESS, unless the request was
\* crossed or is an unbinding.
THEOREM UncrossedTold == Spec => []UncrossedIsTold
<1>1. Inv => UncrossedIsTold
  BY DEF Inv, Told, ToldOf, UncrossedIsTold
<1> QED
  BY <1>1, InvHolds, PTL

\* No update of an entity is undone by one written from a reading that is not outdated.
THEOREM UpdatesKeptFresh == Spec => []FreshUpdatesKept
<1>1. Inv => FreshUpdatesKept
  BY DEF Inv
<1> QED
  BY <1>1, InvHolds, PTL

-------------------------------------------------------------------------------
(* What may end without SUCCESS although nothing failed. *)

\* Why a handler ends without a change, and what the two routes never come to.
SettledOf(r) ==
  /\ phase[r] = "call" /\ repo[r] # None /\ ~crossed[r] => api[r] = HomeOf(r)
  /\ phase[r] = "token" /\ op[r] \in Updates /\ todo[r] = <<"commit">> /\ snapshot[r] = None =>
       HomeOf(r) = "GITLAB"
  /\ Undisturbed(r) /\ fate[r] = "none" => op[r] \in Updates /\ HomeOf(r) = "GITLAB"
  /\ op[r] = "unbind" => answer[r] # "SUCCESS"
  /\ op[r] \in Updates /\ HomeOf(r) = "GITLAB" => fate[r] # "heard"

Settled == \A r \in Requests : SettledOf(r)

\* A step of one request leaves the handlers of the others alone, and crosses them at most.
LEMMA OthersAlone ==
  ASSUME TypeOK, NEW r \in Requests, Enter(r) \/ EnterPlatform(r) \/ Continue(r),
         NEW q \in Requests \ {r}
  PROVE  Alone(q) /\ (crossed[q] => crossed'[q])
<1>1. CASE Enter(r) \/ EnterPlatform(r)
  <2>1. Alone(q)
    BY <1>1 DEF Enter, EnterPlatform, TypeOK, Alone, remote
  <2>2. crossed[q] => crossed'[q]
    BY <1>1 DEF Enter, EnterPlatform, Crosses
  <2> QED
    BY <2>1, <2>2
<1>2. CASE TokenGot(r) \/ EntityRead(r)
  BY <1>2 DEF TokenGot, EntityRead, TypeOK, Alone, request, past
<1>3. ASSUME NEW status, Finish(r, status), NEW what, Record(r, what), UNCHANGED crossed
      PROVE  Alone(q) /\ (crossed[q] => crossed'[q])
  BY <1>3, FinishEffect
<1>4. CASE TokenFailed(r) \/ CallFailed(r)
  BY <1>3, <1>4 DEF TokenFailed, CallFailed
<1>5. CASE TokenWasted(r) \/ PlatformAnswered(r) \/ FileRead(r) \/ Misrouted(r)
  <2>1. Record(r, fate[r])
    BY <1>5, Unrecorded DEF TokenWasted, PlatformAnswered, FileRead, Misrouted, past
  <2> QED
    BY <1>3, <1>5, <2>1 DEF TokenWasted, PlatformAnswered, FileRead, Misrouted, past
<1>6. CASE FileCommitted(r) \/ EntityCommitted(r) \/ RepositoryDeleted(r)
  BY <1>3, <1>6 DEF FileCommitted, EntityCommitted, RepositoryDeleted, Changed
<1> QED
  BY <1>1, <1>2, <1>4, <1>5, <1>6 DEF Continue

\* What is settled of a request stays settled while it is left alone.
LEMMA AloneSettled ==
  ASSUME NEW q \in Requests, SettledOf(q), Alone(q), crossed[q] => crossed'[q]
  PROVE  SettledOf(q)'
BY DEF SettledOf, Undisturbed, Alone, HomeOf

\* How a request may end.
LEMMA FinishSettles ==
  ASSUME TypeOK, NEW r \in Requests, NEW status, Finish(r, status), NEW what, Record(r, what),
         UNCHANGED crossed,
         op[r] = "unbind" => status # "SUCCESS",
         op[r] \in Updates /\ HomeOf(r) = "GITLAB" => what # "heard",
         what = "none" /\ ~crossed[r] /\ op[r] \notin {"read", "platform"} =>
           op[r] \in Updates /\ HomeOf(r) = "GITLAB"
  PROVE  SettledOf(r)'
<1>1. /\ phase'[r] = "done" /\ answer'[r] = status /\ fate'[r] = what
      /\ op'[r] = op[r] /\ repo'[r] = repo[r] /\ crossed'[r] = crossed[r]
  BY FinishEffect
<1> QED
  BY <1>1 DEF SettledOf, Undisturbed, HomeOf

\* Of a request that is not answered after a step only two things are to be shown: where its
\* call goes and what an empty reading says of its provider.
LEMMA UnansweredSettled ==
  ASSUME NEW r \in Requests, ShapeOf(r)', phase'[r] # "done",
         phase'[r] = "call" /\ repo'[r] # None /\ ~crossed'[r] => api'[r] = HomeOf(r)',
         phase'[r] = "token" /\ op'[r] \in Updates /\ todo'[r] = <<"commit">>
           /\ snapshot'[r] = None => HomeOf(r)' = "GITLAB"
  PROVE  SettledOf(r)'
BY DEF ShapeOf, SettledOf, Undisturbed

\* A request that enters has read nothing and called nothing.
LEMMA EnterSettled ==
  ASSUME Inv, Inv', NEW r \in Requests, Enter(r) \/ EnterPlatform(r)
  PROVE  SettledOf(r)'
<1>1. ShapeOf(r) /\ ShapeOf(r)' /\ phase[r] = "idle"
  BY DEF Inv, Shape, Enter, EnterPlatform
<1>2. CASE Enter(r)
  <2>1. phase'[r] = "token" /\ todo'[r] = GitCalls[op'[r]] /\ op'[r] \in Ops \ {"platform"}
    BY <1>2 DEF Enter, Inv, TypeOK
  <2>2. ~(op'[r] \in Updates /\ todo'[r] = <<"commit">>)
    BY <2>1, CoursesStart, CourseFacts DEF Updates
  <2> QED
    BY <1>1, <2>1, <2>2, UnansweredSettled
<1>3. CASE EnterPlatform(r)
  <2>1. phase'[r] = "call" /\ repo'[r] = None
    BY <1>1, <1>3 DEF EnterPlatform, Inv, TypeOK, ShapeOf
  <2> QED
    BY <1>1, <2>1, UnansweredSettled
<1> QED
  BY <1>2, <1>3

\* The token: an uncrossed handler takes the implementation of its repository's provider,
\* and gives up only when GitLab's entity has no spec.
LEMMA TokenSettled ==
  ASSUME Inv, Inv', NEW r \in Requests, SettledOf(r),
         TokenFailed(r) \/ TokenGot(r) \/ TokenWasted(r)
  PROVE  SettledOf(r)'
<1>1. ShapeOf(r) /\ ShapeOf(r)' /\ RoutedOf(r) /\ phase[r] = "token"
  BY DEF Inv, Shape, Routed, TokenFailed, TokenGot, TokenWasted
<1>2. repo[r] # None /\ repo[r] \in Repos /\ Course(r) /\ fate[r] = "none"
  BY <1>1 DEF ShapeOf, Active, Inv, TypeOK
<1>3. ~crossed[r] => gitProvider = HomeOf(r) /\ gitProvider # "UNSET"
  BY <1>1, <1>2, HomeAssumption DEF RoutedOf, InService, HomeOf
<1>4. CASE TokenFailed(r)
  BY <1>4, FinishSettles DEF TokenFailed, Inv
<1>5. CASE TokenGot(r)
  <2>1. /\ phase'[r] = "call" /\ api'[r] = gitProvider /\ repo'[r] = repo[r]
        /\ crossed'[r] = crossed[r]
    BY <1>5 DEF TokenGot, Inv, TypeOK, request, past
  <2> QED
    BY <1>1, <1>3, <2>1, UnansweredSettled DEF HomeOf
<1>6. CASE TokenWasted(r)
  <2>1. Record(r, "none") /\ UNCHANGED crossed
    BY <1>2, <1>6, Unrecorded DEF TokenWasted, past, Inv
  <2>2. ASSUME ~crossed[r] PROVE op[r] \in Updates /\ HomeOf(r) = "GITLAB"
    <3>1. NoSpec(r)
      BY <1>3, <1>6, <2>2 DEF TokenWasted
    <3>2. op[r] \in Updates /\ snapshot[r] = None /\ todo[r] = <<"commit">>
      BY <1>2, <3>1, CourseFacts DEF NoSpec, Course, Updates
    <3> QED
      BY <1>1, <3>2 DEF SettledOf
  <2> QED
    BY <1>6, <2>1, <2>2, FinishSettles DEF TokenWasted, Inv
<1> QED
  BY <1>4, <1>5, <1>6

\* The call: what ends here without a change was crossed, and of the two routes one is
\* answered 500 whatever came of its commit and the other commits nothing.
LEMMA CallSettled ==
  ASSUME Inv, Inv', NEW r \in Requests, SettledOf(r), Continue(r),
         ~(TokenFailed(r) \/ TokenGot(r) \/ TokenWasted(r))
  PROVE  SettledOf(r)'
<1>1. ShapeOf(r) /\ ShapeOf(r)' /\ phase[r] = "call" /\ fate[r] = "none"
  BY DEF Inv, Shape, ShapeOf, Continue, PlatformAnswered, FileRead, EntityRead, FileCommitted,
         EntityCommitted, RepositoryDeleted, CallFailed, Misrouted, Served
<1>2. \A outcome : op[r] = "unbind" => Response(r, outcome) # "SUCCESS"
  BY DEF Response
<1>3. ASSUME UNCHANGED past PROVE Record(r, "none") /\ UNCHANGED crossed
  BY <1>1, <1>3, Unrecorded DEF past, Inv
<1>4. CASE PlatformAnswered(r) \/ FileRead(r)
  <2>1. op[r] \in {"read", "platform"}
    BY <1>4, ServedOther DEF PlatformAnswered, FileRead, Inv
  <2>2. Record(r, "none") /\ UNCHANGED crossed /\ Finish(r, Response(r, "ok"))
    BY <1>3, <1>4 DEF PlatformAnswered, FileRead
  <2> QED
    BY <2>1, <2>2, FinishSettles DEF Inv, Updates
<1>5. CASE EntityRead(r)
  <2>1. repo[r] \in Repos /\ api[r] = HomeOf(r)
    BY <1>5, ServedUpdateGet DEF EntityRead, Inv
  <2>2. /\ phase'[r] = "token" /\ repo'[r] = repo[r]
        /\ snapshot'[r] = IF api[r] = "GITHUB" THEN dependsOn[repo[r]] ELSE None
    BY <1>5 DEF EntityRead, Inv, TypeOK, request
  <2>3. CASE api[r] = "GITHUB"
    <3>1. snapshot'[r] # None
      BY <2>1, <2>2, <2>3, NoneIsNothing DEF Inv, TypeOK, Entity
    <3> QED
      BY <1>1, <2>2, <3>1, UnansweredSettled
  <2>4. CASE api[r] # "GITHUB"
    <3>1. HomeOf(r)' = "GITLAB"
      BY <2>1, <2>2, <2>4, HomeAssumption DEF HomeOf
    <3> QED
      BY <1>1, <2>2, <3>1, UnansweredSettled
  <2> QED
    BY <2>3, <2>4
<1>6. CASE FileCommitted(r) \/ EntityCommitted(r) \/ RepositoryDeleted(r)
  <2>1. Changed(r) /\ UNCHANGED crossed
    BY <1>6 DEF FileCommitted, EntityCommitted, RepositoryDeleted
  <2>2. ~(op[r] \in Updates /\ HomeOf(r) = "GITLAB")
    BY <1>6, ServedCommit, ServedOther
       DEF FileCommitted, EntityCommitted, RepositoryDeleted, Inv, Updates
  <2>3. CASE Record(r, "heard") /\ Finish(r, Response(r, "ok"))
    BY <1>2, <2>1, <2>2, <2>3, FinishSettles DEF Inv
  <2>4. CASE Record(r, "lost") /\ Finish(r, Response(r, "threw"))
    BY <1>2, <2>1, <2>2, <2>4, FinishSettles DEF Inv
  <2> QED
    BY <2>1, <2>3, <2>4 DEF Changed
<1>7. CASE CallFailed(r)
  BY <1>2, <1>7, FinishSettles DEF CallFailed, Inv
<1>8. CASE Misrouted(r)
  <2>1. crossed[r]
    BY <1>1, <1>8 DEF Misrouted, SettledOf
  <2> QED
    BY <1>2, <1>3, <1>8, <2>1, FinishSettles DEF Misrouted, Inv
<1> QED
  BY <1>4, <1>5, <1>6, <1>7, <1>8 DEF Continue

\* Every step keeps what is settled.
LEMMA SettledStep == Inv /\ Settled /\ [Next]_vars /\ Inv' => Settled'
<1> SUFFICES ASSUME Inv, Settled, [Next]_vars, Inv', NEW q \in Requests
             PROVE  SettledOf(q)'
  BY DEF Settled
<1>1. SettledOf(q)
  BY DEF Settled
<1>2. ASSUME NEW r \in Requests, Enter(r) \/ EnterPlatform(r) \/ Continue(r)
      PROVE  SettledOf(q)'
  <2>1. CASE q # r
    BY <1>1, <1>2, <2>1, OthersAlone, AloneSettled DEF Inv
  <2>2. CASE q = r
    BY <1>1, <1>2, <2>2, EnterSettled, TokenSettled, CallSettled
  <2> QED
    BY <2>1, <2>2
<1>3. ASSUME NEW x \in Repos, NEW f \in {"binding", "destroy"}, PipelineTakes(x, f)
      PROVE  SettledOf(q)'
  <2>1. Alone(q) /\ crossed'[q] = crossed[q]
    BY <1>3 DEF PipelineTakes, Alone, request, past
  <2> QED
    BY <1>1, <2>1, AloneSettled
<1>4. CASE UNCHANGED vars
  <2>1. Alone(q) /\ crossed'[q] = crossed[q]
    BY <1>4 DEF vars, Alone
  <2> QED
    BY <1>1, <2>1, AloneSettled
<1> QED
  BY <1>2, <1>3, <1>4 DEF Next, AllDone

\* The two routes are the only ones: of the requests that nothing disturbs and nobody
\* crosses, those that ask for a change are answered with SUCCESS, except for unbind-resource
\* on either provider and update-provider on GitLab, which never are.
THEOREM DoomedAreTheTwo == Spec => []OnlyTheDoomedFail
<1>1. Init => Settled
  BY DEF Init, Settled, SettledOf, Undisturbed
<1>2. Inv /\ Settled => OnlyTheDoomedFail
  <2> SUFFICES ASSUME Inv, Settled, NEW r \in Requests, Undisturbed(r)
               PROVE  answer[r] = "SUCCESS" <=> ~Doomed(r)
    BY DEF OnlyTheDoomedFail
  <2>1. SettledOf(r) /\ ToldOf(r)
    BY DEF Inv, Told, Settled
  <2>2. CASE Doomed(r)
    BY <2>1, <2>2 DEF Doomed, SettledOf, ToldOf
  <2>3. CASE ~Doomed(r)
    BY <2>1, <2>3 DEF Doomed, SettledOf, ToldOf, Undisturbed
  <2> QED
    BY <2>2, <2>3
<1> QED
  BY <1>1, <1>2, SettledStep, InvHolds, PTL DEF Spec

-------------------------------------------------------------------------------
(* What becomes of the files the routes schedule work with. *)

Committed(r) == fate[r] \in {"lost", "heard"}

\* A file in a repository is its request's only one, and has not been taken; on GitLab a
\* committed file is still there or has been taken.
CarriedOf(r) ==
  /\ op[r] \in Scheduling => repo[r] \in Repos /\ WrittenFile(r) \in Files
  /\ r \in taken => Committed(r)
  /\ \A x \in Repos, f \in Files : slot[x][f] = r =>
       Committed(r) /\ r \notin taken /\ x = repo[r] /\ f = WrittenFile(r)
  /\ op[r] \in Scheduling /\ HomeOf(r) = "GITLAB" /\ Committed(r) =>
       answer[r] # "FAILURE" /\ (Waits(r) \/ r \in taken)

Carried == \A r \in Requests : CarriedOf(r)

\* A request that has committed nothing and is left without a file has nothing to show.
LEMMA NothingCarried ==
  ASSUME NEW r \in Requests, ~Committed(r), CarriedOf(r), ~Committed(r)' \/ op'[r] \notin Scheduling,
         UNCHANGED <<slot, taken>>,
         op'[r] \in Scheduling => repo'[r] \in Repos /\ WrittenFile(r)' \in Files
  PROVE  CarriedOf(r)'
BY DEF CarriedOf

\* What a request that is left alone has scheduled stays where it is while nothing is
\* committed or taken.
LEMMA AloneCarried ==
  ASSUME NEW q \in Requests, CarriedOf(q), Alone(q), UNCHANGED <<slot, taken>>
  PROVE  CarriedOf(q)'
BY DEF CarriedOf, Alone, Committed, Waits, WrittenFile, HomeOf

\* The request that takes a step other than the commit of a file.
LEMMA OwnCarried ==
  ASSUME Inv, NEW r \in Requests, CarriedOf(r), ~FileCommitted(r),
         Enter(r) \/ EnterPlatform(r) \/ Continue(r)
  PROVE  CarriedOf(r)' /\ UNCHANGED <<slot, taken>>
<1>1. UNCHANGED <<slot, taken>>
  BY DEF Enter, EnterPlatform, Continue, TokenFailed, TokenGot, TokenWasted, PlatformAnswered,
         FileRead, EntityRead, EntityCommitted, RepositoryDeleted, CallFailed, Misrouted, remote
<1>2. ~Committed(r)
  BY DEF Inv, Shape, ShapeOf, Committed, Enter, EnterPlatform, Continue, TokenFailed, TokenGot,
         TokenWasted, PlatformAnswered, FileRead, EntityRead, EntityCommitted,
         RepositoryDeleted, CallFailed, Misrouted, Served
<1>3. CASE Enter(r)
  <2>1. fate'[r] = fate[r] /\ repo'[r] \in Repos /\ env'[r] \in EnvProviders
    BY <1>3 DEF Enter, Inv, TypeOK
  <2>2. WrittenFile(r)' \in Files
    BY <2>1 DEF WrittenFile, Files
  <2> QED
    BY <1>1, <1>2, <2>1, <2>2, NothingCarried DEF Committed
<1>4. CASE EnterPlatform(r)
  <2>1. op'[r] = "platform"
    BY <1>4 DEF EnterPlatform, Inv, TypeOK
  <2> QED
    BY <1>1, <1>2, <2>1, NothingCarried DEF Scheduling
<1>5. CASE Continue(r)
  <2>1. op' = op /\ repo' = repo /\ env' = env
    BY <1>5 DEF Continue, TokenFailed, TokenGot, TokenWasted, PlatformAnswered, FileRead,
       EntityRead, FileCommitted, EntityCommitted, RepositoryDeleted, Changed, CallFailed,
       Misrouted, Finish, request
  <2>2. ~Committed(r)' \/ op[r] \notin Scheduling
    <3>1. CASE EntityCommitted(r) \/ RepositoryDeleted(r)
      BY <3>1, ServedOther DEF EntityCommitted, RepositoryDeleted, Updates, Scheduling, Inv
    <3>2. CASE TokenFailed(r) \/ CallFailed(r)
      BY <3>2 DEF TokenFailed, CallFailed, Record, Committed, Inv, TypeOK
    <3> QED
      BY <1>2, <1>5, <3>1, <3>2
         DEF Continue, TokenGot, TokenWasted, PlatformAnswered, FileRead, EntityRead, Misrouted,
             Committed, past
  <2> QED
    BY <1>1, <1>2, <2>1, <2>2, NothingCarried DEF CarriedOf, WrittenFile
<1> QED
  BY <1>1, <1>3, <1>4, <1>5

\* A file is committed: it is its request's only one, and on GitLab nobody's was there.
LEMMA FileCarried ==
  ASSUME Inv, Carried, NEW r \in Requests, FileCommitted(r), NEW q \in Requests
  PROVE  CarriedOf(q)'
<1>1. /\ repo[r] \in Repos /\ op[r] \in Scheduling /\ ~Committed(r) /\ api[r] = HomeOf(r)
      /\ WrittenFile(r) \in Files /\ TypeOK /\ todo[r] = <<"commit">>
  BY ServedCommit
     DEF Inv, Shape, ShapeOf, FileCommitted, Served, Committed, Scheduling, Updates, Carried, CarriedOf
<1>2. /\ taken' = taken
      /\ \A x \in Repos, f \in Files :
           slot'[x][f] = IF x = repo[r] /\ f = WrittenFile(r) THEN r ELSE slot[x][f]
  BY <1>1 DEF FileCommitted, TypeOK
<1>3. PICK status \in {Response(r, "ok"), Response(r, "threw")}, what \in {"lost", "heard"} :
        Finish(r, status) /\ Record(r, what)
  BY DEF FileCommitted, Changed
<1>4. /\ op' = op /\ repo' = repo /\ env' = env
      /\ answer'[r] = status /\ fate'[r] = what
      /\ \A p \in Requests \ {r} : Alone(p)
  BY <1>1, <1>3, FinishEffect DEF Finish, request
<1>5. CASE q = r
  <2>1. HomeOf(r) = "GITLAB" => status # "FAILURE"
    BY <1>1, <1>3 DEF Response, Thrown, Scheduling, Updates
  <2>2. Committed(r)' /\ Waits(r)'
    BY <1>1, <1>2, <1>4 DEF Committed, Waits, WrittenFile
  <2>3. r \notin taken /\ \A x \in Repos, f \in Files : slot[x][f] # r
    BY <1>1 DEF Carried, CarriedOf
  <2> QED
    BY <1>1, <1>2, <1>4, <1>5, <2>1, <2>2, <2>3 DEF CarriedOf, WrittenFile, HomeOf
<1>6. CASE q # r
  <2>1. CarriedOf(q) /\ Alone(q) /\ q # None
    BY <1>4, <1>6, NoneIsNothing DEF Carried
  <2>2. /\ Committed(q)' <=> Committed(q)
        /\ WrittenFile(q)' = WrittenFile(q)
        /\ HomeOf(q)' = HomeOf(q)
    BY <2>1 DEF Alone, Committed, WrittenFile, HomeOf
  <2>3. ASSUME op[q] \in Scheduling, HomeOf(q) = "GITLAB", Waits(q) PROVE Waits(q)'
    <3>1. repo[q] \in Repos /\ WrittenFile(q) \in Files
      BY <2>1, <2>3 DEF CarriedOf
    <3>2. ~(repo[q] = repo[r] /\ WrittenFile(q) = WrittenFile(r))
      BY <2>1, <2>3 DEF FileCommitted, HomeOf, Waits
    <3> QED
      BY <1>2, <2>1, <2>2, <2>3, <3>1, <3>2 DEF Waits, Alone
  <2> QED
    BY <1>2, <1>6, <2>1, <2>2, <2>3 DEF CarriedOf, Alone
<1> QED
  BY <1>5, <1>6

\* A job takes a file: its request has no other, and will have none again.
LEMMA TakenCarried ==
  ASSUME Inv, Carried, NEW x \in Repos, NEW f \in {"binding", "destroy"}, PipelineTakes(x, f),
         NEW q \in Requests
  PROVE  CarriedOf(q)'
<1>1. CarriedOf(q) /\ Alone(q) /\ q # None /\ f \in Files /\ TypeOK
  BY NoneIsNothing DEF Carried, PipelineTakes, Alone, request, past, Files, Inv
<1>2. /\ taken' = taken \cup {slot[x][f]}
      /\ \A y \in Repos, g \in Files :
           slot'[y][g] = IF y = x /\ g = f THEN None ELSE slot[y][g]
  BY <1>1 DEF PipelineTakes, TypeOK
<1>3. /\ Committed(q)' <=> Committed(q)
      /\ WrittenFile(q)' = WrittenFile(q)
      /\ HomeOf(q)' = HomeOf(q)
  BY <1>1 DEF Alone, Committed, WrittenFile, HomeOf
<1>4. CASE slot[x][f] = q
  BY <1>1, <1>2, <1>3, <1>4 DEF CarriedOf, Alone
<1>5. CASE slot[x][f] # q
  <2>1. q \in taken' <=> q \in taken
    BY <1>2, <1>5
  <2>2. op[q] \in Scheduling => (Waits(q)' <=> Waits(q))
    BY <1>1, <1>2, <1>3, <1>5 DEF CarriedOf, Waits, Alone
  <2>3. \A y \in Repos, g \in Files : slot'[y][g] = q => slot[y][g] = q
    BY <1>1, <1>2
  <2> QED
    BY <1>1, <1>3, <2>1, <2>2, <2>3 DEF CarriedOf, Alone
<1> QED
  BY <1>4, <1>5

\* Every step keeps what is known of the files.
LEMMA CarriedStep == Inv /\ Carried /\ [Next]_vars => Carried'
<1> SUFFICES ASSUME Inv, Carried, [Next]_vars, NEW q \in Requests
             PROVE  CarriedOf(q)'
  BY DEF Carried
<1>1. CarriedOf(q) /\ TypeOK
  BY DEF Carried, Inv
<1>2. ASSUME NEW r \in Requests, Enter(r) \/ EnterPlatform(r) \/ Continue(r)
      PROVE  CarriedOf(q)'
  <2>1. CASE FileCommitted(r)
    BY <2>1, FileCarried
  <2>2. CASE ~FileCommitted(r)
    <3>1. CarriedOf(r)' /\ UNCHANGED <<slot, taken>>
      BY <1>2, <2>2, OwnCarried DEF Carried
    <3>2. q # r => Alone(q)
      BY <1>1, <1>2, OthersAlone
    <3> QED
      BY <1>1, <3>1, <3>2, AloneCarried
  <2> QED
    BY <2>1, <2>2
<1>3. ASSUME NEW x \in Repos, NEW f \in {"binding", "destroy"}, PipelineTakes(x, f)
      PROVE  CarriedOf(q)'
  BY <1>3, TakenCarried
<1>4. CASE UNCHANGED vars
  BY <1>1, <1>4, AloneCarried DEF vars, Alone
<1> QED
  BY <1>2, <1>3, <1>4 DEF Next, AllDone

\* On GitLab a change that was committed waits for the pipeline until a job takes it, once,
\* and a change that was not, or was answered with FAILURE, is never carried out.
THEOREM CarriedOut == Spec => []ScheduledIsCarriedOut
<1>1. Init => Carried
  <2> SUFFICES ASSUME Init, NEW r \in Requests
               PROVE  CarriedOf(r)
    BY DEF Carried
  <2>1. op[r] = None /\ fate[r] = "none" /\ taken = {} /\ r # None
    BY NoneIsNothing DEF Init
  <2>2. op[r] \notin Scheduling
    BY <2>1, OpsAssumption DEF Scheduling, GitCalls
  <2>3. \A x \in Repos, f \in Files : slot[x][f] # r
    BY <2>1 DEF Init
  <2> QED
    BY <2>1, <2>2, <2>3 DEF CarriedOf, Committed
<1>2. Carried => ScheduledIsCarriedOut
  BY DEF Carried, CarriedOf, ScheduledIsCarriedOut, Committed, Waits
<1> QED
  BY <1>1, <1>2, CarriedStep, InvHolds, PTL DEF Spec
===============================================================================
