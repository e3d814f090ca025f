-------------------------------- MODULE EksCard --------------------------------
(***************************************************************************)
(* The application state card of an EKS application (K8sAppStateCard.tsx)  *)
(* with the promises of useCancellablePromise.ts: it loads the state of    *)
(* the deployment, starts it or stops it, and polls until the cluster has  *)
(* done so.                                                                *)
(*                                                                         *)
(* A mount is one time the card is on a page: two of them together are two *)
(* tabs or two users, one after the other a user who leaves and returns.   *)
(* Mounts share nothing but the cluster.  A mount's handlers see React's   *)
(* state as it was rendered when the user clicked, whatever is set later.  *)
(*                                                                         *)
(* One action is one continuation, from the answer of one awaited call or  *)
(* timer to the next await.                                                *)
(***************************************************************************)
EXTENDS Naturals

CONSTANT Mounts   \* the mounts of the card

-------------------------------------------------------------------------------
VARIABLES
  \* of the cluster
  replicas,    \* 1 if the deployment is to run, 0 if it is scaled down
  ready,       \* 1 if its pods are ready
  mute,        \* the kubectl Lambda function's answers hold no Data.Value
  \* of each mount, React's state
  stage,       \* whether it is on a page
  loading,     \* it shows "Loading current state..." in place of its buttons
  error,       \* it shows an error in place of its buttons
  appStarted, appStopped,
  shown,       \* the state it shows of the deployment
  \* of each mount, its asynchronous function
  run,         \* which one is under way: the effect of mounting, or a handler
  at,          \* what it awaits
  skips,       \* appStarted or appStopped, as the handler's closure holds it
  seen,        \* the state of the deployment it has fetched, "none" if it has not
  timer,       \* whether the timer of timerRef is set
  canceled,    \* whether the promise it awaits was cancelled
  \* what happened, for the properties
  begun,       \* the handlers that have run
  again        \* whether the last one had run before

vars == <<replicas, ready, mute, stage, loading, error, appStarted, appStopped, shown,
          run, at, skips, seen, timer, canceled, begun, again>>

cluster == <<replicas, ready, mute>>
past == <<skips, begun, again>>

\* "none" is a state not fetched, "empty" the state that an answer without Data.Value gives.
States == {"none", "empty", "RUNNING", "STOPPED", "UPDATING"}
Calls == {"update", "poll", "state", "config"}
Handlers == {"start", "stop"}

TypeOK ==
  /\ replicas \in {0, 1} /\ ready \in {0, 1} /\ mute \in BOOLEAN
  /\ stage \in [Mounts -> {"new", "mounted", "gone"}]
  /\ loading \in [Mounts -> BOOLEAN] /\ error \in [Mounts -> BOOLEAN]
  /\ appStarted \in [Mounts -> BOOLEAN] /\ appStopped \in [Mounts -> BOOLEAN]
  /\ shown \in [Mounts -> States] /\ seen \in [Mounts -> States]
  /\ run \in [Mounts -> Handlers \cup {"none", "load"}]
  /\ at \in [Mounts -> Calls \cup {"rest", "sleep"}]
  /\ skips \in [Mounts -> BOOLEAN] /\ timer \in [Mounts -> BOOLEAN]
  /\ canceled \in [Mounts -> BOOLEAN]
  /\ begun \in [Mounts -> SUBSET Handlers] /\ again \in [Mounts -> BOOLEAN]

Init ==
  /\ replicas \in {0, 1} /\ ready = replicas /\ mute \in BOOLEAN
  /\ stage = [m \in Mounts |-> "new"]
  /\ loading = [m \in Mounts |-> TRUE] /\ error = [m \in Mounts |-> FALSE]
  /\ appStarted = [m \in Mounts |-> FALSE] /\ appStopped = [m \in Mounts |-> FALSE]
  /\ shown = [m \in Mounts |-> "none"] /\ seen = [m \in Mounts |-> "none"]
  /\ run = [m \in Mounts |-> "none"] /\ at = [m \in Mounts |-> "rest"]
  /\ skips = [m \in Mounts |-> FALSE] /\ timer = [m \in Mounts |-> FALSE]
  /\ canceled = [m \in Mounts |-> FALSE]
  /\ begun = [m \in Mounts |-> {}] /\ again = [m \in Mounts |-> FALSE]

-------------------------------------------------------------------------------
(* Pieces. *)

\* parseState: a deployment whose ready pods are not those it should have is being updated.
Present ==
  IF ready # replicas THEN "UPDATING" ELSE IF ready = 1 THEN "RUNNING" ELSE "STOPPED"

\* What fetchAppState returns: an answer without Data.Value is no error, but no deployment.
Fetched == IF mute THEN "empty" ELSE Present

\* One replica more.
SlipTarget(m) == IF run[m] = "start" THEN replicas + 1 ELSE 0

\* The replicas the handler asks for.
Target(m) == IF run[m] = "start" THEN 1 ELSE 0

\* A poll finds the deployment, with the pods asked for.
Reached(m) == ~mute /\ ready = Target(m)

\* A call of the mount is answered, with a result or an error, and was not cancelled.
Answered(m, call) == at[m] = call /\ ~canceled[m]

Rest(m) == run' = [run EXCEPT ![m] = "none"] /\ at' = [at EXCEPT ![m] = "rest"]
Await(m, call) == at' = [at EXCEPT ![m] = call] /\ UNCHANGED run
Sleep(m) == Await(m, "sleep") /\ timer' = [timer EXCEPT ![m] = TRUE]

\* Of the loop: its condition reads the closure's state.
EnterLoop(m) == IF skips[m] THEN Rest(m) /\ UNCHANGED timer ELSE Sleep(m)

\* The buttons of the card, of which one can be clicked.
Enabled(m, handler) ==
  /\ stage[m] = "mounted" /\ ~loading[m] /\ ~error[m] /\ shown[m] \notin {"none", "empty"}
  /\ handler = "start" <=> shown[m] = "STOPPED"

-------------------------------------------------------------------------------
(* Mounting and unmounting. *)

\* The effect of mounting fetches the deployment's state.
Mount(m) ==
  /\ stage[m] = "new"
  /\ stage' = [stage EXCEPT ![m] = "mounted"]
  /\ run' = [run EXCEPT ![m] = "load"]
  /\ at' = [at EXCEPT ![m] = "state"]
  /\ UNCHANGED <<cluster, loading, error, appStarted, appStopped, shown, seen, timer, canceled, past>>

\* The promises are cancelled, and the timer runs on.
SlipUnmount(m) ==
  /\ stage[m] = "mounted"
  /\ stage' = [stage EXCEPT ![m] = "gone"]
  /\ canceled' = [canceled EXCEPT ![m] = at[m] \in Calls]
  /\ UNCHANGED <<cluster, loading, error, appStarted, appStopped, shown, run, at, seen, timer, past>>

\* The clean-up of two effects: the promises are cancelled, and the timer is cleared.  What
\* it sets of React's state is lost with the component.
Unmount(m) ==
  /\ stage[m] = "mounted"
  /\ stage' = [stage EXCEPT ![m] = "gone"]
  /\ canceled' = [canceled EXCEPT ![m] = at[m] \in Calls]
  /\ timer' = [timer EXCEPT ![m] = FALSE]
  /\ UNCHANGED <<cluster, loading, error, appStarted, appStopped, shown, run, at, seen, past>>

\* A cancelled promise rejects when its call is answered, and the function ends: it sets
\* nothing that anybody sees.  An update may have been made all the same.
CancelledSettles(m) ==
  /\ at[m] \in Calls /\ canceled[m]
  /\ replicas' \in IF at[m] = "update" THEN {replicas, Target(m)} ELSE {replicas}
  /\ Rest(m)
  /\ UNCHANGED <<ready, mute, stage, loading, error, appStarted, appStopped, shown, seen, timer, canceled, past>>

-------------------------------------------------------------------------------
(* getData, of the effect and of the start handler. *)

StateRead(m) ==
  /\ Answered(m, "state")
  /\ seen' = [seen EXCEPT ![m] = Fetched]
  /\ Await(m, "config")
  /\ UNCHANGED <<cluster, stage, loading, error, appStarted, appStopped, shown, timer, canceled, past>>

\* The start handler leaves it to getData to end the loading.
SlipConfigRead(m) ==
  /\ Answered(m, "config")
  /\ shown' = [shown EXCEPT ![m] = seen[m]]
  /\ loading' = [loading EXCEPT ![m] = @ /\ run[m] # "load"]
  /\ Rest(m)
  /\ UNCHANGED <<cluster, stage, error, appStarted, appStopped, seen, timer, canceled, past>>

ConfigRead(m) ==
  /\ Answered(m, "config")
  /\ shown' = [shown EXCEPT ![m] = seen[m]]
  /\ loading' = [loading EXCEPT ![m] = FALSE]
  /\ Rest(m)
  /\ UNCHANGED <<cluster, stage, error, appStarted, appStopped, seen, timer, canceled, past>>

\* getData sets the error and returns; the effect, which takes that for success, unsets it.
DataFailed(m) ==
  /\ \E call \in {"state", "config"} : Answered(m, call)
  /\ error' = [error EXCEPT ![m] = run[m] # "load"]
  /\ loading' = [loading EXCEPT ![m] = FALSE]
  /\ Rest(m)
  /\ UNCHANGED <<cluster, stage, appStarted, appStopped, shown, seen, timer, canceled, past>>

-------------------------------------------------------------------------------
(* handleStartTask and handleStopTask. *)

Click(m, handler) ==
  /\ Enabled(m, handler)
  /\ loading' = [loading EXCEPT ![m] = TRUE]
  /\ run' = [run EXCEPT ![m] = handler]
  /\ at' = [at EXCEPT ![m] = "update"]
  /\ skips' = [skips EXCEPT ![m] = IF handler = "start" THEN appStarted[m] ELSE appStopped[m]]
  /\ begun' = [begun EXCEPT ![m] = @ \cup {handler}]
  /\ again' = [again EXCEPT ![m] = handler \in begun[m]]
  /\ seen' = [seen EXCEPT ![m] = "none"]
  /\ UNCHANGED <<cluster, stage, error, appStarted, appStopped, shown, timer, canceled>>

\* Of the Lambda function's answer the portal looks at nothing: it may have changed nothing.
UpdateDone(m) ==
  /\ Answered(m, "update")
  /\ replicas' \in {replicas, Target(m)}
  /\ EnterLoop(m)
  /\ UNCHANGED <<ready, mute, stage, loading, error, appStarted, appStopped, shown, seen, canceled, past>>

\* The buttons come back without an error.
SlipUpdateFailed(m) ==
  /\ Answered(m, "update")
  /\ replicas' \in {replicas, Target(m)}
  /\ loading' = [loading EXCEPT ![m] = FALSE]
  /\ EnterLoop(m)
  /\ UNCHANGED <<ready, mute, stage, error, appStarted, appStopped, shown, seen, canceled, past>>

\* The error is shown, and the loop entered nevertheless.
UpdateFailed(m) ==
  /\ Answered(m, "update")
  /\ replicas' \in {replicas, Target(m)}
  /\ error' = [error EXCEPT ![m] = TRUE]
  /\ loading' = [loading EXCEPT ![m] = FALSE]
  /\ EnterLoop(m)
  /\ UNCHANGED <<ready, mute, stage, appStarted, appStopped, shown, seen, canceled, past>>

Wakes(m) ==
  /\ at[m] = "sleep" /\ timer[m]
  /\ timer' = [timer EXCEPT ![m] = FALSE]
  /\ Await(m, "poll")
  /\ UNCHANGED <<cluster, stage, loading, error, appStarted, appStopped, shown, seen, canceled, past>>

\* The state is fetched once more for what is shown.
SlipStartSeen(m) ==
  /\ Answered(m, "poll") /\ run[m] = "start" /\ Reached(m)
  /\ shown' = [shown EXCEPT ![m] = "none"]
  /\ appStarted' = [appStarted EXCEPT ![m] = TRUE]
  /\ Await(m, "state")
  /\ UNCHANGED <<cluster, stage, loading, error, appStopped, seen, timer, canceled, past>>

\* The application has been started; getData shows the state this poll has seen.
StartSeen(m) ==
  /\ Answered(m, "poll") /\ run[m] = "start" /\ Reached(m)
  /\ shown' = [shown EXCEPT ![m] = "none"]
  /\ appStarted' = [appStarted EXCEPT ![m] = TRUE]
  /\ seen' = [seen EXCEPT ![m] = Present]
  /\ Await(m, "config")
  /\ UNCHANGED <<cluster, stage, loading, error, appStopped, timer, canceled, past>>

\* The application has been stopped.
StopSeen(m) ==
  /\ Answered(m, "poll") /\ run[m] = "stop" /\ Reached(m)
  /\ shown' = [shown EXCEPT ![m] = "STOPPED"]
  /\ appStopped' = [appStopped EXCEPT ![m] = TRUE]
  /\ loading' = [loading EXCEPT ![m] = FALSE]
  /\ Rest(m)
  /\ UNCHANGED <<cluster, stage, error, appStarted, seen, timer, canceled, past>>

\* The loop goes on without setting its timer anew.
SlipNotYet(m) ==
  /\ Answered(m, "poll") /\ ~Reached(m)
  /\ seen' = [seen EXCEPT ![m] = IF run[m] = "start" THEN Fetched ELSE @]
  /\ Await(m, "sleep")
  /\ UNCHANGED <<cluster, stage, loading, error, appStarted, appStopped, shown, timer, canceled, past>>

\* The pods are not yet as asked, or the answer holds no deployment: another round.
NotYet(m) ==
  /\ Answered(m, "poll") /\ ~Reached(m)
  /\ seen' = [seen EXCEPT ![m] = IF run[m] = "start" THEN Fetched ELSE @]
  /\ Sleep(m)
  /\ UNCHANGED <<cluster, stage, loading, error, appStarted, appStopped, shown, canceled, past>>

\* The loop ends with an error.  The start handler then goes on to getData, with the answer
\* of an earlier poll if it has one that the failed poll has not unset.
PollFailed(m) ==
  /\ Answered(m, "poll")
  /\ error' = [error EXCEPT ![m] = TRUE]
  /\ loading' = [loading EXCEPT ![m] = FALSE]
  /\ \/ /\ run[m] = "start"
        /\ appStarted' = [appStarted EXCEPT ![m] = TRUE]
        /\ Await(m, "state") \/ (seen[m] # "none" /\ Await(m, "config"))
        /\ UNCHANGED appStopped
     \/ /\ run[m] = "stop"
        /\ appStopped' = [appStopped EXCEPT ![m] = TRUE]
        /\ Rest(m)
        /\ UNCHANGED appStarted
  /\ UNCHANGED <<cluster, stage, shown, seen, timer, canceled, past>>

-------------------------------------------------------------------------------
\* The cluster starts or stops the pods.
Converge ==
  /\ ready # replicas
  /\ ready' = replicas
  /\ UNCHANGED <<replicas, mute, stage, loading, error, appStarted, appStopped, shown,
                 run, at, seen, timer, canceled, past>>

\* The Lambda function begins to answer without Data.Value, or ceases to: it failed, as in a
\* time-out, which is no error of the call.
Waver ==
  /\ mute' = ~mute
  /\ UNCHANGED <<replicas, ready, stage, loading, error, appStarted, appStopped, shown,
                 run, at, seen, timer, canceled, past>>

Continue(m) ==
  \/ CancelledSettles(m) \/ StateRead(m) \/ ConfigRead(m) \/ DataFailed(m)
  \/ UpdateDone(m) \/ UpdateFailed(m)
  \/ Wakes(m) \/ StartSeen(m) \/ StopSeen(m) \/ NotYet(m) \/ PollFailed(m)

\* Nobody looks at the card any more.
AllGone ==
  /\ \A m \in Mounts : stage[m] = "gone"
  /\ UNCHANGED vars

Next ==
  \/ \E m \in Mounts : Mount(m) \/ Unmount(m) \/ Continue(m)
  \/ \E m \in Mounts, handler \in Handlers : Click(m, handler)
  \/ Converge \/ Waver
  \/ AllGone

\* Calls are answered and timers fire, and the cluster does what it is told.
Fairness == WF_vars(Converge) /\ \A m \in Mounts : WF_vars(Continue(m))

Spec == Init /\ [][Next]_vars

FairSpec == Spec /\ Fairness

-------------------------------------------------------------------------------
(* Properties. *)

\* A card that can be clicked has no loop under way, not even one whose update failed: one
\* timer is enough for it, and a loop never clears the timer of another.
ClickFindsNoLoop ==
  \A m \in Mounts : (\E handler \in Handlers : Enabled(m, handler)) => run[m] = "none"

\* The card waits for nothing only when an operation was repeated on the same mount.
StuckOnlyOnRepeat ==
  \A m \in Mounts :
    stage[m] = "mounted" /\ loading[m] /\ run[m] = "none" => again[m]

\* A card that left the page sends nothing: neither a call, nor a timer that would.
GoneIsQuiet ==
  [][\A m \in Mounts : stage[m] = "gone" => at'[m] \in {at[m], "rest"} /\ ~timer'[m]]_vars

\* A start that ends by itself, without an error, shows an application that was started,
\* even if somebody else has stopped it meanwhile, unless it skipped its loop.
StartEndsStarted ==
  [][\A m \in Mounts :
       /\ run[m] = "start" /\ run'[m] = "none"
       /\ stage[m] = "mounted" /\ ~error'[m] /\ ~skips[m]
       => shown'[m] \in {"RUNNING", "UPDATING"}]_vars

\* A start or a stop that polls comes to its end, if the Lambda function answers with the
\* deployment from some time on, unless the replicas are changed against it or its card
\* leaves the page.
PollingEnds ==
  \A m \in Mounts : \A handler \in Handlers :
    <>[]~mute =>
      (run[m] = handler /\ at[m] = "sleep" /\ replicas = Target(m)
         ~> run[m] # handler \/ replicas # Target(m) \/ stage[m] = "gone")

\* What test E08 expects: the application is started and stopped as often as the user
\* likes, so that a card that is loading has something under way.
LoadingIsAtWork ==
  \A m \in Mounts : stage[m] = "mounted" /\ loading[m] => run[m] # "none"
===============================================================================
