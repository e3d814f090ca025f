------------------------------- MODULE StackCard -------------------------------
(***************************************************************************)
(* The application state card of a serverless application                  *)
(* (AppStateCardCloudFormation.tsx), on a page whose data the hook         *)
(* useAwsApp.tsx loads: it deploys or deletes the CloudFormation stack and *)
(* polls the stack's events until it is done.                              *)
(*                                                                         *)
(* refresh() loads the page's data anew, which takes the card off the page *)
(* and puts a new mount of it there.  Mounts are used again once nothing   *)
(* of their earlier life is awaited.  The runs of a mount are its          *)
(* asynchronous functions: the loop its mounting starts, and the handlers  *)
(* with the loops they go on to.  All the loops of a mount share the one   *)
(* timer reference.                                                        *)
(*                                                                         *)
(* One action is one continuation, from the answer of one awaited call or  *)
(* timer to the next await.                                                *)
(***************************************************************************)
EXTENDS Naturals

CONSTANTS Mounts,    \* the mounts of the card there may be at a time
          Runs,      \* the asynchronous functions of one mount there may be at a time
          MaxPolls,  \* how often a loop polls, 720 in the code
          None

ASSUME MaxPollsAssumption == MaxPolls \in Nat \ {0}
ASSUME NoneIsNothing == None \notin Mounts \cup Runs

-------------------------------------------------------------------------------
VARIABLES
  stack,      \* of CloudFormation, the stack's status
  doing,      \* and what it does to the stack, if that is in progress
  page,       \* whether the page's data are loaded
  fetched,    \* the stack's status among the data loaded
  current,    \* the mount of the card on the page
  card,       \* React's state of each mount
  timerRef,   \* of each mount, the run whose timer timerRef holds
  armed,      \* of each mount, the runs whose timers are set
  run         \* of each mount, its asynchronous functions

vars == <<stack, doing, page, fetched, current, card, timerRef, armed, run>>

remote == <<stack, doing>>
mounts == <<current, card, timerRef, armed, run>>

\* Not deployed, or busy, or how the last operation ended.
Statuses == {"STAGED", "PROGRESS", "COMPLETE", "FAILED"}

\* The page's data also tell when the stack's template is not to be found.
PageStatuses == Statuses \cup {"UNSTAGED"}

Operations == {"create", "update", "delete"}

\* What a run awaits, what its handler asks for, pollingEnabled as its closure holds it, how
\* often its loop has polled, and whether the promise it awaits was cancelled.
Run == [at : {"done", "call", "poll", "sleep"}, asks : Operations \cup {None},
        enabled : BOOLEAN, count : 0 .. MaxPolls, canceled : BOOLEAN]

Card == [status : PageStatuses, polling : BOOLEAN, pollingEnabled : BOOLEAN, error : BOOLEAN]

TypeOK ==
  /\ stack \in Statuses /\ doing \in Operations \cup {None}
  /\ page \in {"loading", "loaded", "shown", "failed", "left"}
  /\ fetched \in PageStatuses
  /\ current \in Mounts \cup {None}
  /\ card \in [Mounts -> Card]
  /\ timerRef \in [Mounts -> Runs \cup {None}]
  /\ armed \in [Mounts -> SUBSET Runs]
  /\ run \in [Mounts -> [Runs -> Run]]

\* A run that has ended, or that nobody will ever hear of; a handler; a loop.
Done == [at |-> "done", asks |-> None, enabled |-> FALSE, count |-> 0, canceled |-> FALSE]
Call(operation, enabled) ==
  [at |-> "call", asks |-> operation, enabled |-> enabled, count |-> 0, canceled |-> FALSE]
Poll(n) == [at |-> "poll", asks |-> None, enabled |-> FALSE, count |-> n, canceled |-> FALSE]

\* A card as it is mounted.
NewCard(status) ==
  [status |-> status, polling |-> status = "PROGRESS", pollingEnabled |-> TRUE, error |-> FALSE]

Init ==
  /\ stack \in Statuses /\ doing = IF stack = "PROGRESS" THEN "update" ELSE None
  /\ page = "loading" /\ fetched = "STAGED" /\ current = None
  /\ card = [m \in Mounts |-> NewCard("STAGED")]
  /\ timerRef = [m \in Mounts |-> None]
  /\ armed = [m \in Mounts |-> {}]
  /\ run = [m \in Mounts |-> [r \in Runs |-> Done]]

-------------------------------------------------------------------------------
(* Pieces. *)

InFlight(m, r) == run[m][r].at \in {"call", "poll"}

\* Cancelling a function's promise; a function that sleeps without a timer sleeps for ever.
Cancelled(m, r, timers) ==
  IF InFlight(m, r) THEN [run[m][r] EXCEPT !.canceled = TRUE]
  ELSE IF r \in timers THEN run[m][r] ELSE Done

\* The promises are cancelled; the timer runs on.
SlipUnmount(m, ended) ==
  /\ current' = None
  /\ UNCHANGED <<armed, timerRef>>
  /\ card' = [card EXCEPT ![m] = NewCard("STAGED")]
  /\ run' = [run EXCEPT ![m] =
       [r \in Runs |-> IF r = ended THEN Done ELSE Cancelled(m, r, armed[m])]]

\* The clean-up of the card's effects, after which React's state is lost: its promises are
\* cancelled, and the timer that timerRef holds is cleared.
Unmount(m, ended) ==
  /\ current' = None
  /\ armed' = [armed EXCEPT ![m] = @ \ {timerRef[m]}]
  /\ timerRef' = [timerRef EXCEPT ![m] = None]
  /\ card' = [card EXCEPT ![m] = NewCard("STAGED")]
  /\ run' = [run EXCEPT ![m] =
       [r \in Runs |-> IF r = ended THEN Done ELSE Cancelled(m, r, armed'[m])]]

\* A loop or handler that is not cancelled polls no more, and loads the page's data anew.
SlipEndLoop(m, r) ==
  /\ run' = [run EXCEPT ![m][r] = Done]
  /\ card' = [card EXCEPT ![m].polling = FALSE]
  /\ UNCHANGED <<page, current, armed, timerRef>>

EndLoop(m, r) == page' = "loading" /\ Unmount(m, r)

\* A call of the mount is answered, and was not cancelled.
Answered(m, r, call) == run[m][r].at = call /\ ~run[m][r].canceled

\* CloudFormation takes an operation if the stack's status allows it.
Operate(operation) ==
  /\ stack # "PROGRESS"
  /\ operation = "create" => stack = "STAGED"
  /\ operation = "update" => stack = "COMPLETE"
  /\ IF stack = "STAGED" /\ operation = "delete"
       THEN UNCHANGED remote
       ELSE stack' = "PROGRESS" /\ doing' = operation

-------------------------------------------------------------------------------
(* The page. *)

\* populateServerlessState reads the stack's status; what it cannot read it takes for a
\* stack that is not deployed.  The page may still take a while.
StatusRead ==
  /\ page = "loading"
  /\ page' = "loaded"
  /\ fetched' \in {stack, "STAGED", "UNSTAGED"}
  /\ UNCHANGED <<remote, mounts>>

LoadFailed ==
  /\ page \in {"loading", "loaded"}
  /\ page' = "failed"
  /\ fetched' = "STAGED"
  /\ UNCHANGED <<remote, mounts>>

\* A new mount of the card, which polls if the status says so.
Mount(m) ==
  /\ page = "loaded"
  /\ \A r \in Runs : run[m][r] = Done
  /\ page' = "shown" /\ current' = m
  /\ fetched' = "STAGED"
  /\ card' = [card EXCEPT ![m] = NewCard(fetched)]
  /\ \E r \in Runs :
       run' = [run EXCEPT ![m][r] = IF fetched = "PROGRESS" THEN Poll(1) ELSE Done]
  /\ UNCHANGED <<remote, timerRef, armed>>

\* The user goes elsewhere, and comes back or tries again.
Leave ==
  /\ current # None
  /\ page' = "left"
  /\ Unmount(current, None)
  /\ UNCHANGED <<remote, fetched>>

Return ==
  /\ page \in {"left", "failed"}
  /\ page' = "loading"
  /\ UNCHANGED <<remote, fetched, mounts>>

-------------------------------------------------------------------------------
(* The buttons. *)

\* The card shows the buttons that go with its polling or not polling.
Shows(m, polling) == current = m /\ ~card[m].error /\ card[m].polling = polling

HandleRefresh(m) ==
  /\ Shows(m, FALSE)
  /\ page' = "loading"
  /\ Unmount(m, None)
  /\ UNCHANGED <<remote, fetched>>

\* handleCreateDeployment, handleUpdateDeployment and handleStopApp.
Click(m, r, operation) ==
  /\ Shows(m, FALSE)
  /\ operation = "create" => card[m].status = "STAGED"
  /\ operation = "update" => card[m].status \notin {"STAGED", "UNSTAGED"}
  /\ operation = "delete" => card[m].status = "COMPLETE"
  /\ run[m][r] = Done
  /\ run' = [run EXCEPT ![m][r] = Call(operation, card[m].pollingEnabled)]
  /\ card' = [card EXCEPT ![m].polling = TRUE]
  /\ UNCHANGED <<remote, page, fetched, current, timerRef, armed>>

\* The card shows its buttons again, and polling stays enabled for what comes.
SlipStopPolling(m) ==
  /\ Shows(m, TRUE)
  /\ card' = [card EXCEPT ![m].polling = FALSE]
  /\ UNCHANGED <<remote, page, fetched, current, timerRef, armed, run>>

\* handleStopPolling: a loop under way does not see it.
StopPolling(m) ==
  /\ Shows(m, TRUE)
  /\ card' = [card EXCEPT ![m].polling = FALSE, ![m].pollingEnabled = FALSE]
  /\ UNCHANGED <<remote, page, fetched, current, timerRef, armed, run>>

-------------------------------------------------------------------------------
(* The handlers and their loops. *)

\* getStackEvents follows, whose loop is entered if the closure has polling enabled.
CallDone(m, r) ==
  /\ Answered(m, r, "call")
  /\ Operate(run[m][r].asks)
  /\ \/ /\ run[m][r].enabled
        /\ run' = [run EXCEPT ![m][r] = Poll(1)]
        /\ card' = [card EXCEPT ![m].polling = TRUE]
        /\ UNCHANGED <<page, current, timerRef, armed>>
     \/ ~run[m][r].enabled /\ EndLoop(m, r)
  /\ UNCHANGED fetched

\* The handler ends without telling.
SlipCallFailed(m, r) ==
  /\ Answered(m, r, "call")
  /\ Operate(run[m][r].asks) \/ UNCHANGED remote
  /\ run' = [run EXCEPT ![m][r] = Done]
  /\ UNCHANGED <<page, fetched, current, card, timerRef, armed>>

\* The call is refused, or its answer lost.
CallFailed(m, r) ==
  /\ Answered(m, r, "call")
  /\ Operate(run[m][r].asks) \/ UNCHANGED remote
  /\ card' = [card EXCEPT ![m].error = TRUE]
  /\ run' = [run EXCEPT ![m][r] = Done]
  /\ UNCHANGED <<page, fetched, current, timerRef, armed>>

\* The most recent event says that a stack is done (this one, one nested in it, or this one
\* before the operation in progress), or there were enough polls, or this one fails.  The
\* refresh takes the error of a failed poll off the page.
PollEnds(m, r) ==
  /\ Answered(m, r, "poll")
  /\ EndLoop(m, r)
  /\ UNCHANGED <<remote, fetched>>

\* Another poll follows unless there were enough.
PollAgain(m, r) ==
  /\ Answered(m, r, "poll")
  /\ stack = "PROGRESS"
  /\ run[m][r].count < MaxPolls
  /\ run' = [run EXCEPT ![m][r].at = "sleep"]
  /\ timerRef' = [timerRef EXCEPT ![m] = r]
  /\ armed' = [armed EXCEPT ![m] = @ \cup {r}]
  /\ UNCHANGED <<remote, page, fetched, current, card>>

\* One poll more than the bound allows.
SlipWakes(m, r) ==
  /\ run[m][r].at = "sleep" /\ r \in armed[m]
  /\ armed' = [armed EXCEPT ![m] = @ \ {r, timerRef[m]}]
  /\ run' = [run EXCEPT ![m][r] = Poll(@.count + 2)]
  /\ UNCHANGED <<remote, page, fetched, current, card, timerRef>>

\* The timer of a loop fires; what is cleared then is the timer that timerRef holds.
Wakes(m, r) ==
  /\ run[m][r].at = "sleep" /\ r \in armed[m]
  /\ armed' = [armed EXCEPT ![m] = @ \ {r, timerRef[m]}]
  /\ run' = [run EXCEPT ![m][r] = Poll(@.count + 1)]
  /\ UNCHANGED <<remote, page, fetched, current, card, timerRef>>

\* A cancelled promise rejects when its call is answered, and its function ends.
CancelledSettles(m, r) ==
  /\ InFlight(m, r) /\ run[m][r].canceled
  /\ \/ run[m][r].at = "call" /\ Operate(run[m][r].asks)
     \/ UNCHANGED remote
  /\ run' = [run EXCEPT ![m][r] = Done]
  /\ UNCHANGED <<page, fetched, current, card, timerRef, armed>>

-------------------------------------------------------------------------------
\* CloudFormation ends what it does, well or badly.
StackEnds ==
  /\ stack = "PROGRESS"
  /\ stack' \in {IF doing = "delete" THEN "STAGED" ELSE "COMPLETE", "FAILED"}
  /\ doing' = None
  /\ UNCHANGED <<page, fetched, mounts>>

Load == StatusRead \/ LoadFailed \/ \E m \in Mounts : Mount(m)

Continue(m, r) ==
  \/ CallDone(m, r) \/ CallFailed(m, r)
  \/ PollEnds(m, r) \/ PollAgain(m, r) \/ Wakes(m, r)
  \/ CancelledSettles(m, r)

Next ==
  \/ Load \/ Leave \/ Return \/ StackEnds
  \/ \E m \in Mounts : HandleRefresh(m) \/ StopPolling(m)
  \/ \E m \in Mounts, r \in Runs :
       Continue(m, r) \/ \E operation \in Operations : Click(m, r, operation)

\* Calls are answered and timers fire, and the page's data load or fail to.
Fairness ==
  /\ WF_vars(Load)
  /\ \A m \in Mounts, r \in Runs : WF_vars(Continue(m, r))

Spec == Init /\ [][Next]_vars

FairSpec == Spec /\ Fairness

-------------------------------------------------------------------------------
(* Properties. *)

\* No loop of the card on the page sleeps without its timer: although all of them share
\* timerRef, and each clears what it holds, none clears another's.
NoLoopStranded ==
  \A r \in Runs : current # None /\ run[current][r].at = "sleep" => r \in armed[current]

\* A card that says it polls for updates has something under way.
PollingIsAtWork ==
  current # None /\ card[current].polling /\ ~card[current].error =>
    \E r \in Runs : run[current][r] # Done

\* A mount that is off the page sends nothing and sets no timer, and so never refreshes.
GoneIsSilent ==
  [][\A m \in Mounts, r \in Runs :
       m # current /\ m # current' =>
         run'[m][r].at \in {run[m][r].at, "done"} /\ armed'[m] = {}]_vars

\* A card that polls while nothing is in progress any more comes to show how it ended, or
\* that it cannot tell, through whatever early and failing polls, unless the user stops the
\* polling or leaves, the page fails to load, or another operation has begun.
OutcomeIsShown ==
  \A m \in Mounts :
    current = m /\ card[m].polling /\ ~card[m].error /\ stack # "PROGRESS"
      ~> \/ current # None /\ card[current].status \in {stack, "STAGED", "UNSTAGED"}
         \/ stack = "PROGRESS"
         \/ current = m /\ (~card[m].pollingEnabled \/ card[m].error)
         \/ page \in {"left", "failed"}
===============================================================================
