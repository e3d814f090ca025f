---------------------------- MODULE StackCardProofs ----------------------------
(***************************************************************************)
(* The card of a serverless application, proved for any number of mounts,  *)
(* of runs and of polls: its loops do not disturb each other's timers, it  *)
(* does not say that it polls when it does not, and it is silent once it   *)
(* is off the page.                                                        *)
(***************************************************************************)
EXTENDS StackCard, TLAPS

-------------------------------------------------------------------------------
(* The invariant. *)

\* There is a card exactly while the page's data are shown.
CardIsShown == current # None <=> page = "shown"

\* Of a mount that is off the page, only cancelled calls are left.
Quiet ==
  \A m \in Mounts : m # current =>
    /\ armed[m] = {}
    /\ \A r \in Runs : run[m][r] = Done \/ (InFlight(m, r) /\ run[m][r].canceled)

\* A run that is a loop, or will be one when its call is answered.
Loops(m, r) ==
  run[m][r].at \in {"poll", "sleep"} \/ (run[m][r].at = "call" /\ run[m][r].enabled)

\* The card on the page has at most one loop, whose timer is the one timerRef holds.
OneLoop ==
  \A m \in Mounts : m = current =>
    /\ \A r \in Runs : ~run[m][r].canceled
    /\ \A r, s \in Runs : Loops(m, r) /\ Loops(m, s) => r = s
    /\ armed[m] = {r \in Runs : run[m][r].at = "sleep"}
    /\ \A r \in Runs : run[m][r].at = "sleep" => timerRef[m] = r

\* A loop that sleeps polls once more.
Bounded ==
  \A m \in Mounts, r \in Runs : run[m][r].at = "sleep" => run[m][r].count < MaxPolls

\* A click finds no loop, unless polling is disabled and the click will not start another.
Idle ==
  \A m \in Mounts :
    m = current /\ card[m].pollingEnabled /\ ~card[m].polling =>
      \A r \in Runs : run[m][r] = Done

Inv == TypeOK /\ CardIsShown /\ Quiet /\ OneLoop /\ Bounded /\ Idle /\ PollingIsAtWork

-------------------------------------------------------------------------------
(* Records. *)

\* A run that has ended is one.
LEMMA DoneIsRun == Done \in Run
BY MaxPollsAssumption DEF Done, Run

\* Polls up to the bound are runs.
LEMMA PollIsRun == ASSUME NEW n \in 0 .. MaxPolls PROVE Poll(n) \in Run
BY DEF Poll, Run

\* Handlers are runs.
LEMMA CallIsRun ==
  ASSUME NEW operation \in Operations, NEW enabled \in BOOLEAN
  PROVE  Call(operation, enabled) \in Run
BY MaxPollsAssumption DEF Call, Run

\* A card as mounted is typed.
LEMMA NewIsCard == ASSUME NEW status \in PageStatuses PROVE NewCard(status) \in Card
BY DEF NewCard, Card

\* Cancelling leaves a run typed.
LEMMA CancelledIsRun ==
  ASSUME TypeOK, NEW m \in Mounts, NEW r \in Runs, NEW timers
  PROVE  Cancelled(m, r, timers) \in Run
<1>1. run[m][r] \in Run BY DEF TypeOK
<1>2. [run[m][r] EXCEPT !.canceled = TRUE] \in Run BY <1>1 DEF Run
<1>. QED BY <1>1, <1>2, DoneIsRun DEF Cancelled

\* The invariant holds at first.
LEMMA InitInv == Init => Inv
<1>. SUFFICES ASSUME Init PROVE Inv OBVIOUS
<1>1. TypeOK BY DoneIsRun, NewIsCard DEF Init, TypeOK, Statuses, PageStatuses, Operations
<1>2. CardIsShown BY DEF Init, CardIsShown
<1>3. Quiet BY DEF Init, Quiet
<1>4. OneLoop /\ Bounded /\ Idle /\ PollingIsAtWork
  BY NoneIsNothing DEF Init, OneLoop, Bounded, Idle, PollingIsAtWork, Done
<1>. QED BY <1>1, <1>2, <1>3, <1>4 DEF Inv

\* A step that changes nothing keeps the invariant.
LEMMA StutterKeepsInv == Inv /\ UNCHANGED vars => Inv'
BY DEF Inv, TypeOK, CardIsShown, Quiet, OneLoop, Bounded, Idle, PollingIsAtWork, Loops, InFlight, vars

\* A step that leaves the mounts alone.
LEMMA ElsewhereKeepsInv ==
  ASSUME Inv, UNCHANGED mounts,
         stack' \in Statuses, doing' \in Operations \cup {None},
         page' \in {"loading", "loaded", "shown", "failed", "left"},
         fetched' \in PageStatuses, page' = "shown" <=> page = "shown"
  PROVE  Inv'
<1>1. TypeOK' BY DEF Inv, TypeOK, mounts
<1>2. CardIsShown' BY DEF Inv, CardIsShown, mounts
<1>3. (Quiet /\ OneLoop /\ Bounded /\ Idle /\ PollingIsAtWork)'
  BY DEF Inv, Quiet, OneLoop, Bounded, Idle, PollingIsAtWork, Loops, InFlight, mounts
<1>. QED BY <1>1, <1>2, <1>3 DEF Inv

-------------------------------------------------------------------------------
(* Unmounting. *)

\* A card that leaves the page leaves nothing but cancelled calls.
LEMMA UnmountKeepsInv ==
  ASSUME Inv, NEW m \in Mounts, m = current, NEW ended, Unmount(m, ended),
         stack' \in Statuses, doing' \in Operations \cup {None},
         page' \in {"loading", "left"}, fetched' \in PageStatuses
  PROVE  Inv'
<1>. USE DEF Inv
<1>. DEFINE After(r) == IF r = ended THEN Done ELSE Cancelled(m, r, armed'[m])
<1>1. /\ armed' = [armed EXCEPT ![m] = armed[m] \ {timerRef[m]}]
      /\ timerRef' = [timerRef EXCEPT ![m] = None]
      /\ card' = [card EXCEPT ![m] = NewCard("STAGED")]
      /\ run' = [run EXCEPT ![m] = [r \in Runs |-> After(r)]]
      /\ current' = None
  BY DEF Unmount
<1>2. armed'[m] = {} BY <1>1 DEF OneLoop, TypeOK
<1>3. \A r \in Runs : After(r) \in Run BY CancelledIsRun, DoneIsRun
<1>4. TypeOK'
  <2>1. run' \in [Mounts -> [Runs -> Run]] BY <1>1, <1>3 DEF TypeOK
  <2>2. card' \in [Mounts -> Card] BY <1>1, NewIsCard DEF TypeOK, PageStatuses, Statuses
  <2>3. timerRef' \in [Mounts -> Runs \cup {None}] BY <1>1 DEF TypeOK
  <2>4. armed' \in [Mounts -> SUBSET Runs] BY <1>1 DEF TypeOK
  <2>5. current' \in Mounts \cup {None} BY <1>1
  <2>. QED BY <2>1, <2>2, <2>3, <2>4, <2>5 DEF TypeOK
<1>5. CardIsShown' BY <1>1 DEF CardIsShown
<1>6. Quiet'
  <2>. SUFFICES ASSUME NEW n \in Mounts
                PROVE  /\ armed'[n] = {}
                       /\ \A r \in Runs : run'[n][r] = Done \/ (InFlight(n, r)' /\ run'[n][r].canceled)
    BY DEF Quiet
  <2>1. CASE n # m BY <2>1, <1>1 DEF Quiet, TypeOK, InFlight
  <2>2. CASE n = m
    <3>. SUFFICES ASSUME NEW r \in Runs
                  PROVE  run'[m][r] = Done \/ (run'[m][r].at \in {"call", "poll"} /\ run'[m][r].canceled)
      BY <2>2, <1>2 DEF InFlight
    <3>1. run'[m][r] = After(r) BY <1>1 DEF TypeOK
    <3>2. run[m][r] \in Run BY DEF TypeOK
    <3>3. CASE r # ended /\ InFlight(m, r)
      <4>1. run'[m][r] = [run[m][r] EXCEPT !.canceled = TRUE] BY <3>1, <3>3 DEF Cancelled
      <4>. QED BY <4>1, <3>2, <3>3 DEF InFlight, Run
    <3>4. CASE r = ended \/ ~InFlight(m, r) BY <3>1, <3>4, <1>2 DEF Cancelled
    <3>. QED BY <3>3, <3>4
  <2>. QED BY <2>1, <2>2
<1>7. (OneLoop /\ Idle /\ PollingIsAtWork)'
  BY <1>1, NoneIsNothing DEF OneLoop, Idle, PollingIsAtWork
<1>8. Bounded'
  <2>1. ASSUME NEW n \in Mounts, NEW r \in Runs PROVE run'[n][r].at # "sleep"
    <3>1. CASE run'[n][r] = Done BY <3>1 DEF Done
    <3>2. CASE InFlight(n, r)' BY <3>2 DEF InFlight
    <3>. QED BY <1>1, <1>6, <3>1, <3>2, NoneIsNothing DEF Quiet
  <2>. QED BY <2>1 DEF Bounded
<1>. QED BY <1>4, <1>5, <1>6, <1>7, <1>8

-------------------------------------------------------------------------------
(* The page. *)

\* Loading the page, failing to, and the end of an operation change no mount.
LEMMA PageKeepsInv == Inv /\ (StatusRead \/ LoadFailed \/ Return \/ StackEnds) => Inv'
<1>. SUFFICES ASSUME Inv, StatusRead \/ LoadFailed \/ Return \/ StackEnds PROVE Inv' OBVIOUS
<1>. USE DEF Inv
<1>1. CASE StatusRead
  BY <1>1, ElsewhereKeepsInv DEF StatusRead, TypeOK, PageStatuses, Statuses, remote
<1>2. CASE LoadFailed
  BY <1>2, ElsewhereKeepsInv DEF LoadFailed, TypeOK, PageStatuses, Statuses, remote
<1>3. CASE Return BY <1>3, ElsewhereKeepsInv DEF Return, TypeOK, remote
<1>4. CASE StackEnds BY <1>4, ElsewhereKeepsInv DEF StackEnds, TypeOK, Statuses
<1>. QED BY <1>1, <1>2, <1>3, <1>4

\* A new mount is idle, or has one loop.
LEMMA MountKeepsInv == ASSUME Inv, NEW m \in Mounts, Mount(m) PROVE Inv'
<1>. USE DEF Inv
<1>. PICK r \in Runs :
       run' = [run EXCEPT ![m][r] = IF fetched = "PROGRESS" THEN Poll(1) ELSE Done]
  BY DEF Mount
<1>1. /\ page = "loaded" /\ page' = "shown" /\ current' = m
      /\ fetched' = "STAGED" /\ UNCHANGED <<remote, timerRef, armed>>
      /\ card' = [card EXCEPT ![m] = NewCard(fetched)]
      /\ \A s \in Runs : run[m][s] = Done
  BY DEF Mount
<1>2. current = None /\ armed[m] = {} BY <1>1, NoneIsNothing DEF CardIsShown, Quiet
<1>3. Poll(1) \in Run BY PollIsRun, MaxPollsAssumption
<1>4. TypeOK'
  <2>1. run' \in [Mounts -> [Runs -> Run]] BY <1>3, DoneIsRun DEF TypeOK
  <2>2. card' \in [Mounts -> Card] BY <1>1, NewIsCard DEF TypeOK
  <2>. QED BY <1>1, <2>1, <2>2 DEF TypeOK, PageStatuses, Statuses, remote
<1>5. CardIsShown' BY <1>1, NoneIsNothing DEF CardIsShown
<1>6. Quiet'
  <2>1. \A n \in Mounts : n # m => run'[n] = run[n] BY DEF TypeOK
  <2>. QED BY <1>1, <1>2, <2>1, NoneIsNothing DEF Quiet, InFlight
<1>7. \A s \in Runs : s # r => run'[m][s] = Done BY <1>1 DEF TypeOK
<1>8. run'[m][r] = IF fetched = "PROGRESS" THEN Poll(1) ELSE Done BY DEF TypeOK
<1>9. \A s \in Runs : run'[m][s].at \in {"poll", "done"} /\ ~run'[m][s].canceled
  BY <1>7, <1>8 DEF Poll, Done
<1>10. OneLoop' BY <1>1, <1>2, <1>7, <1>9 DEF OneLoop, Loops, Done
<1>11. Bounded'
  <2>1. \A n \in Mounts : n # m => run'[n] = run[n] BY DEF TypeOK
  <2>. QED BY <1>9, <2>1 DEF Bounded
<1>12. card'[m].polling = (fetched = "PROGRESS") BY <1>1 DEF NewCard, TypeOK
<1>13. (Idle /\ PollingIsAtWork)'
  <2>1. CASE fetched = "PROGRESS"
    <3>1. run'[m][r] # Done BY <1>8, <2>1 DEF Poll, Done
    <3>2. card'[m].polling BY <1>12, <2>1
    <3>. QED BY <1>1, <3>1, <3>2 DEF Idle, PollingIsAtWork
  <2>2. CASE fetched # "PROGRESS"
    <3>1. ~card'[m].polling BY <1>12, <2>2
    <3>2. \A s \in Runs : run'[m][s] = Done BY <1>7, <1>8, <2>2
    <3>. QED BY <1>1, <3>1, <3>2 DEF Idle, PollingIsAtWork
  <2>. QED BY <2>1, <2>2
<1>. QED BY <1>4, <1>5, <1>6, <1>10, <1>11, <1>13

\* The user who leaves unmounts the card.
LEMMA LeaveKeepsInv == Inv /\ Leave => Inv'
<1>. SUFFICES ASSUME Inv, Leave PROVE Inv' OBVIOUS
<1>1. current \in Mounts BY DEF Inv, TypeOK, Leave
<1>. QED BY <1>1, UnmountKeepsInv DEF Inv, TypeOK, Leave, remote

\* So does the one who refreshes the page.
LEMMA RefreshKeepsInv == ASSUME Inv, NEW m \in Mounts, HandleRefresh(m) PROVE Inv'
BY UnmountKeepsInv DEF Inv, TypeOK, HandleRefresh, Shows, remote

-------------------------------------------------------------------------------
(* One run of the card on the page goes on, with the same card or another. *)

\* What is left to show when run r of the current mount goes on as next, with its timer set
\* if and only if it sleeps.
LEMMA RunKeepsInv ==
  ASSUME Inv, NEW m \in Mounts, NEW r \in Runs, m = current,
         NEW next \in Run, ~next.canceled,
         run' = [run EXCEPT ![m][r] = next],
         armed' \in [Mounts -> SUBSET Runs],
         timerRef' \in [Mounts -> Runs \cup {None}],
         \A n \in Mounts : n # m => armed'[n] = armed[n],
         card' \in [Mounts -> Card],
         stack' \in Statuses, doing' \in Operations \cup {None},
         UNCHANGED <<page, fetched, current>>,
         next.at \in {"poll", "sleep"} \/ (next.at = "call" /\ next.enabled) =>
           \A s \in Runs : Loops(m, s) => s = r,
         armed'[m] = {s \in Runs : run'[m][s].at = "sleep"},
         \A s \in Runs : run'[m][s].at = "sleep" => timerRef'[m] = s,
         next.at = "sleep" => next.count < MaxPolls,
         Idle', PollingIsAtWork'
  PROVE  Inv'
<1>. USE DEF Inv
<1>1. TypeOK'
  <2>1. run' \in [Mounts -> [Runs -> Run]] BY DEF TypeOK
  <2>. QED BY <2>1 DEF TypeOK
<1>2. CardIsShown' BY DEF CardIsShown
<1>3. \A n \in Mounts : n # m => run'[n] = run[n] BY DEF TypeOK
<1>4. \A s \in Runs : s # r => run'[m][s] = run[m][s] BY DEF TypeOK
<1>5. run'[m][r] = next BY DEF TypeOK
<1>6. Quiet' BY <1>3 DEF Quiet, InFlight
<1>7. OneLoop'
  <2>1. \A s \in Runs : ~run'[m][s].canceled BY <1>4, <1>5 DEF OneLoop
  <2>2. ASSUME NEW s \in Runs, NEW t \in Runs, Loops(m, s)', Loops(m, t)' PROVE s = t
    <3>1. \A u \in Runs : u # r /\ Loops(m, u)' => Loops(m, u) BY <1>4 DEF Loops
    <3>2. CASE s = r \/ t = r BY <2>2, <3>1, <3>2, <1>5 DEF Loops
    <3>3. CASE s # r /\ t # r BY <2>2, <3>1, <3>3 DEF OneLoop
    <3>. QED BY <3>2, <3>3
  <2>. QED BY <2>1, <2>2 DEF OneLoop
<1>8. Bounded'
  <2>1. \A n \in Mounts, s \in Runs : run'[n][s] = IF n = m /\ s = r THEN next ELSE run[n][s]
    BY <1>3, <1>4, <1>5
  <2>. QED BY <2>1 DEF Bounded
<1>. QED BY <1>1, <1>2, <1>6, <1>7, <1>8

\* Only the card on the page has runs that are not cancelled.
LEMMA ActsOnPage ==
  ASSUME Inv, NEW m \in Mounts, NEW r \in Runs, run[m][r].at # "done", ~run[m][r].canceled
  PROVE  m = current
BY DEF Inv, Quiet, Done

\* The loop of the card is the only one, and nothing sleeps while it is awake.
LEMMA LoneLoop ==
  ASSUME Inv, NEW m \in Mounts, NEW r \in Runs, m = current, Loops(m, r)
  PROVE  /\ \A s \in Runs : Loops(m, s) => s = r
         /\ run[m][r].at # "sleep" => armed[m] = {}
         /\ run[m][r].at = "sleep" => armed[m] = {r}
BY DEF Inv, OneLoop, Loops

\* A click finds no run, or starts a handler that will not become a loop.
LEMMA ClickKeepsInv ==
  ASSUME Inv, NEW m \in Mounts, NEW r \in Runs, NEW operation \in Operations, Click(m, r, operation)
  PROVE  Inv'
<1>. USE DEF Inv
<1>. DEFINE next == Call(operation, card[m].pollingEnabled)
<1>1. /\ m = current /\ ~card[m].polling /\ run[m][r] = Done
      /\ run' = [run EXCEPT ![m][r] = next]
      /\ card' = [card EXCEPT ![m].polling = TRUE]
      /\ UNCHANGED <<stack, doing, page, fetched, current, timerRef, armed>>
  BY DEF Click, Shows, remote
<1>2. card[m] \in Card BY DEF TypeOK
<1>3. next \in Run BY <1>2, CallIsRun DEF Card
<1>4. next.at = "call" /\ ~next.canceled /\ next.enabled = card[m].pollingEnabled BY DEF Call
<1>5. card' \in [Mounts -> Card] BY <1>1 DEF TypeOK, Card
<1>6. card'[m].polling BY <1>1, <1>2 DEF TypeOK, Card
<1>7. \A s \in Runs : run'[m][s] = IF s = r THEN next ELSE run[m][s] BY <1>1 DEF TypeOK
<1>8. ASSUME next.enabled, NEW s \in Runs, Loops(m, s) PROVE s = r
  <2>1. run[m][s] = Done BY <1>1, <1>2, <1>4, <1>8 DEF Idle, Card
  <2>. QED BY <1>8, <2>1 DEF Loops, Done
<1>9. armed'[m] = {s \in Runs : run'[m][s].at = "sleep"}
  BY <1>1, <1>4, <1>7 DEF OneLoop, Done
<1>10. \A s \in Runs : run'[m][s].at = "sleep" => timerRef'[m] = s BY <1>1, <1>4, <1>7 DEF OneLoop
<1>11. Idle' BY <1>1, <1>6 DEF Idle
<1>12. PollingIsAtWork' BY <1>1, <1>4, <1>7 DEF PollingIsAtWork, Done
<1>13. armed' \in [Mounts -> SUBSET Runs] /\ timerRef' \in [Mounts -> Runs \cup {None}]
  BY <1>1 DEF TypeOK
<1>14. stack' \in Statuses /\ doing' \in Operations \cup {None} BY <1>1 DEF TypeOK
<1>. HIDE DEF next
<1>. QED BY <1>1, <1>3, <1>4, <1>5, <1>8, <1>9, <1>10, <1>11, <1>12, <1>13, <1>14, RunKeepsInv

\* Stop Polling shows the buttons and disables polling.
LEMMA StopPollingKeepsInv == ASSUME Inv, NEW m \in Mounts, StopPolling(m) PROVE Inv'
<1>. USE DEF Inv
<1>1. /\ m = current
      /\ card' = [card EXCEPT ![m].polling = FALSE, ![m].pollingEnabled = FALSE]
      /\ UNCHANGED <<stack, doing, page, fetched, current, timerRef, armed, run>>
  BY DEF StopPolling, Shows, remote
<1>2. card[m] \in Card BY DEF TypeOK
<1>3. card' \in [Mounts -> Card]
  <2>. DEFINE stopped == [[card EXCEPT ![m].polling = FALSE] EXCEPT ![m].pollingEnabled = FALSE]
  <2>1. [card EXCEPT ![m].polling = FALSE] \in [Mounts -> Card] BY DEF TypeOK, Card
  <2>2. stopped \in [Mounts -> Card] BY <2>1 DEF Card
  <2>3. card' = stopped BY <1>1
  <2>. QED BY <2>2, <2>3
<1>4. ~card'[m].polling /\ ~card'[m].pollingEnabled BY <1>1, <1>2 DEF TypeOK, Card
<1>5. TypeOK' BY <1>1, <1>3 DEF TypeOK
<1>6. CardIsShown' /\ Quiet' /\ OneLoop' /\ Bounded'
  BY <1>1 DEF CardIsShown, Quiet, OneLoop, Bounded, Loops, InFlight
<1>7. Idle' /\ PollingIsAtWork' BY <1>1, <1>4 DEF Idle, PollingIsAtWork
<1>. QED BY <1>5, <1>6, <1>7

-------------------------------------------------------------------------------
(* The handlers and their loops. *)

\* The handler becomes the loop, or refreshes the page.
LEMMA CallDoneKeepsInv ==
  ASSUME Inv, NEW m \in Mounts, NEW r \in Runs, CallDone(m, r)
  PROVE  Inv'
<1>. USE DEF Inv
<1>1. run[m][r].at = "call" /\ ~run[m][r].canceled /\ Operate(run[m][r].asks) /\ fetched' = fetched
  BY DEF CallDone, Answered
<1>2. m = current BY <1>1, ActsOnPage
<1>3. stack' \in Statuses /\ doing' \in Operations \cup {None}
  <2>1. run[m][r] \in Run BY DEF TypeOK
  <2>. QED BY <1>1, <2>1 DEF Operate, Run, Statuses, remote, TypeOK
<1>4. CASE ~run[m][r].enabled /\ EndLoop(m, r)
  BY <1>1, <1>2, <1>3, <1>4, UnmountKeepsInv DEF EndLoop, TypeOK
<1>5. CASE /\ run[m][r].enabled
           /\ run' = [run EXCEPT ![m][r] = Poll(1)]
           /\ card' = [card EXCEPT ![m].polling = TRUE]
           /\ UNCHANGED <<page, current, timerRef, armed>>
  <2>1. Poll(1) \in Run BY PollIsRun, MaxPollsAssumption
  <2>2. Poll(1).at = "poll" /\ ~Poll(1).canceled BY DEF Poll
  <2>3. card' \in [Mounts -> Card] BY <1>5 DEF TypeOK, Card
  <2>4. card'[m].polling
    <3>1. card[m] \in Card BY DEF TypeOK
    <3>. QED BY <1>5, <3>1 DEF TypeOK, Card
  <2>5. \A s \in Runs : run'[m][s] = IF s = r THEN Poll(1) ELSE run[m][s] BY <1>5 DEF TypeOK
  <2>6. Loops(m, r) BY <1>1, <1>5 DEF Loops
  <2>7. \A s \in Runs : Loops(m, s) => s = r BY <1>2, <2>6, LoneLoop
  <2>8. armed'[m] = {s \in Runs : run'[m][s].at = "sleep"}
    BY <1>1, <1>2, <1>5, <2>2, <2>5 DEF OneLoop
  <2>9. \A s \in Runs : run'[m][s].at = "sleep" => timerRef'[m] = s
    BY <1>2, <1>5, <2>2, <2>5 DEF OneLoop
  <2>10. Idle' BY <1>2, <1>5, <2>4 DEF Idle
  <2>11. PollingIsAtWork' BY <1>2, <1>5, <2>2, <2>5 DEF PollingIsAtWork, Done
  <2>12. armed' \in [Mounts -> SUBSET Runs] /\ timerRef' \in [Mounts -> Runs \cup {None}]
    BY <1>5 DEF TypeOK
  <2>. QED BY <1>1, <1>2, <1>3, <1>5, <2>1, <2>2, <2>3, <2>7, <2>8, <2>9, <2>10, <2>11, <2>12,
              RunKeepsInv
<1>. QED BY <1>4, <1>5 DEF CallDone

\* The handler ends with an error.
LEMMA CallFailedKeepsInv ==
  ASSUME Inv, NEW m \in Mounts, NEW r \in Runs, CallFailed(m, r)
  PROVE  Inv'
<1>. USE DEF Inv
<1>1. /\ run[m][r].at = "call" /\ ~run[m][r].canceled
      /\ run' = [run EXCEPT ![m][r] = Done]
      /\ card' = [card EXCEPT ![m].error = TRUE]
      /\ UNCHANGED <<page, fetched, current, timerRef, armed>>
  BY DEF CallFailed, Answered
<1>2. m = current BY <1>1, ActsOnPage
<1>3. stack' \in Statuses /\ doing' \in Operations \cup {None}
  <2>1. run[m][r] \in Run BY DEF TypeOK
  <2>. QED BY <2>1 DEF CallFailed, Operate, Run, Statuses, remote, TypeOK
<1>4. card[m] \in Card BY DEF TypeOK
<1>5. card' \in [Mounts -> Card] BY <1>1 DEF TypeOK, Card
<1>6. /\ card'[m].error
      /\ card'[m].polling = card[m].polling /\ card'[m].pollingEnabled = card[m].pollingEnabled
  BY <1>1, <1>4 DEF TypeOK, Card
<1>7. \A s \in Runs : run'[m][s] = IF s = r THEN Done ELSE run[m][s] BY <1>1 DEF TypeOK
<1>8. armed'[m] = {s \in Runs : run'[m][s].at = "sleep"} BY <1>1, <1>2, <1>7 DEF OneLoop, Done
<1>9. \A s \in Runs : run'[m][s].at = "sleep" => timerRef'[m] = s
  BY <1>1, <1>2, <1>7 DEF OneLoop, Done
<1>10. Idle' BY <1>1, <1>2, <1>6, <1>7 DEF Idle
<1>11. PollingIsAtWork' BY <1>1, <1>2, <1>6 DEF PollingIsAtWork
<1>12. armed' \in [Mounts -> SUBSET Runs] /\ timerRef' \in [Mounts -> Runs \cup {None}]
  BY <1>1 DEF TypeOK
<1>13. Done.at = "done" /\ ~Done.canceled BY DEF Done
<1>. QED BY <1>1, <1>2, <1>3, <1>5, <1>8, <1>9, <1>10, <1>11, <1>12, <1>13, DoneIsRun, RunKeepsInv

\* The loop ends with a refresh.
LEMMA PollEndsKeepsInv ==
  ASSUME Inv, NEW m \in Mounts, NEW r \in Runs, PollEnds(m, r)
  PROVE  Inv'
<1>1. m = current BY ActsOnPage DEF PollEnds, Answered
<1>. QED BY <1>1, UnmountKeepsInv DEF PollEnds, EndLoop, Inv, TypeOK, remote

\* The loop goes to sleep, and its timer is the only one.
LEMMA PollAgainKeepsInv ==
  ASSUME Inv, NEW m \in Mounts, NEW r \in Runs, PollAgain(m, r)
  PROVE  Inv'
<1>. USE DEF Inv
<1>. DEFINE next == [run[m][r] EXCEPT !.at = "sleep"]
<1>1. /\ run[m][r].at = "poll" /\ ~run[m][r].canceled /\ run[m][r].count < MaxPolls
      /\ run' = [run EXCEPT ![m][r] = next]
      /\ timerRef' = [timerRef EXCEPT ![m] = r]
      /\ armed' = [armed EXCEPT ![m] = armed[m] \cup {r}]
      /\ UNCHANGED <<stack, doing, page, fetched, current, card>>
  BY DEF PollAgain, Answered, TypeOK, remote
<1>2. m = current BY <1>1, ActsOnPage
<1>3. run[m][r] \in Run BY DEF TypeOK
<1>4. next \in Run BY <1>3 DEF Run
<1>5. next.at = "sleep" /\ ~next.canceled /\ next.count < MaxPolls BY <1>1, <1>3 DEF Run
<1>. HIDE DEF next
<1>6. \A s \in Runs : run'[m][s] = IF s = r THEN next ELSE run[m][s] BY <1>1 DEF TypeOK
<1>7. \A s \in Runs : Loops(m, s) => s = r BY <1>1, <1>2, LoneLoop DEF Loops
<1>8. armed[m] = {} BY <1>1, <1>2, LoneLoop DEF Loops
<1>9. \A s \in Runs : run'[m][s].at = "sleep" => s = r BY <1>6, <1>7 DEF Loops
<1>10. armed'[m] = {s \in Runs : run'[m][s].at = "sleep"}
  BY <1>1, <1>5, <1>6, <1>8, <1>9 DEF TypeOK
<1>11. \A s \in Runs : run'[m][s].at = "sleep" => timerRef'[m] = s BY <1>1, <1>9 DEF TypeOK
<1>12. Idle' BY <1>1, <1>2 DEF Idle, Done
<1>13. PollingIsAtWork' BY <1>1, <1>2, <1>5, <1>6 DEF PollingIsAtWork, Done
<1>14. armed' \in [Mounts -> SUBSET Runs] /\ timerRef' \in [Mounts -> Runs \cup {None}]
  BY <1>1 DEF TypeOK
<1>15. card' \in [Mounts -> Card] /\ stack' \in Statuses /\ doing' \in Operations \cup {None}
  BY <1>1 DEF TypeOK
<1>16. \A n \in Mounts : n # m => armed'[n] = armed[n] BY <1>1 DEF TypeOK
<1>. QED BY <1>1, <1>2, <1>4, <1>5, <1>7, <1>10, <1>11, <1>12, <1>13, <1>14, <1>15, <1>16,
            RunKeepsInv

\* The loop wakes, and what it clears is its own timer.
LEMMA WakesKeepsInv ==
  ASSUME Inv, NEW m \in Mounts, NEW r \in Runs, Wakes(m, r)
  PROVE  Inv'
<1>. USE DEF Inv
<1>. DEFINE next == Poll(run[m][r].count + 1)
<1>1. /\ run[m][r].at = "sleep" /\ r \in armed[m]
      /\ run' = [run EXCEPT ![m][r] = next]
      /\ armed' = [armed EXCEPT ![m] = armed[m] \ {r, timerRef[m]}]
      /\ UNCHANGED <<stack, doing, page, fetched, current, card, timerRef>>
  BY DEF Wakes, remote, TypeOK
<1>2. m = current BY <1>1 DEF Quiet
<1>3. run[m][r] \in Run BY DEF TypeOK
<1>4. next \in Run
  <2>1. run[m][r].count \in 0 .. MaxPolls /\ run[m][r].count < MaxPolls
    BY <1>1, <1>3 DEF Bounded, Run
  <2>2. run[m][r].count + 1 \in 0 .. MaxPolls BY <2>1, MaxPollsAssumption
  <2>. QED BY <2>2, PollIsRun
<1>5. next.at = "poll" /\ ~next.canceled BY DEF Poll
<1>. HIDE DEF next
<1>6. \A s \in Runs : run'[m][s] = IF s = r THEN next ELSE run[m][s] BY <1>1 DEF TypeOK
<1>7. \A s \in Runs : Loops(m, s) => s = r BY <1>1, <1>2, LoneLoop DEF Loops
<1>8. armed[m] = {r} BY <1>1, <1>2, LoneLoop DEF Loops
<1>9. \A s \in Runs : run'[m][s].at # "sleep" BY <1>5, <1>6, <1>7 DEF Loops
<1>10. armed'[m] = {s \in Runs : run'[m][s].at = "sleep"} BY <1>1, <1>8, <1>9 DEF TypeOK
<1>11. Idle' BY <1>1, <1>2 DEF Idle, Done
<1>12. PollingIsAtWork' BY <1>1, <1>2, <1>5, <1>6 DEF PollingIsAtWork, Done
<1>13. armed' \in [Mounts -> SUBSET Runs] /\ timerRef' \in [Mounts -> Runs \cup {None}]
  BY <1>1 DEF TypeOK
<1>14. card' \in [Mounts -> Card] /\ stack' \in Statuses /\ doing' \in Operations \cup {None}
  BY <1>1 DEF TypeOK
<1>15. \A n \in Mounts : n # m => armed'[n] = armed[n] BY <1>1 DEF TypeOK
<1>. QED BY <1>1, <1>2, <1>4, <1>5, <1>7, <1>9, <1>10, <1>11, <1>12, <1>13, <1>14, <1>15, RunKeepsInv

\* The one step of a mount that is off the page.
LEMMA CancelledSettlesKeepsInv ==
  ASSUME Inv, NEW m \in Mounts, NEW r \in Runs, CancelledSettles(m, r)
  PROVE  Inv'
<1>. USE DEF Inv
<1>1. /\ run[m][r].canceled
      /\ run' = [run EXCEPT ![m][r] = Done]
      /\ UNCHANGED <<page, fetched, current, card, timerRef, armed>>
  BY DEF CancelledSettles
<1>2. m # current BY <1>1 DEF OneLoop
<1>3. stack' \in Statuses /\ doing' \in Operations \cup {None}
  <2>1. run[m][r] \in Run BY DEF TypeOK
  <2>. QED BY <2>1 DEF CancelledSettles, Operate, Run, Statuses, remote, TypeOK
<1>4. \A n \in Mounts, s \in Runs : run'[n][s] = IF n = m /\ s = r THEN Done ELSE run[n][s]
  BY <1>1 DEF TypeOK
<1>5. TypeOK'
  <2>1. run' \in [Mounts -> [Runs -> Run]] BY <1>1, DoneIsRun DEF TypeOK
  <2>. QED BY <1>1, <1>3, <2>1 DEF TypeOK
<1>6. CardIsShown' BY <1>1 DEF CardIsShown
<1>7. Quiet' BY <1>1, <1>4 DEF Quiet, InFlight
<1>8. \A n \in Mounts : n # m => run'[n] = run[n] BY <1>1 DEF TypeOK
<1>9. OneLoop' /\ Idle' BY <1>1, <1>2, <1>8 DEF OneLoop, Idle, Loops
<1>10. PollingIsAtWork'
  BY <1>1, <1>2, <1>8 DEF PollingIsAtWork, TypeOK
<1>11. Bounded' BY <1>4 DEF Bounded, Done
<1>. QED BY <1>5, <1>6, <1>7, <1>9, <1>10, <1>11

\* Every step keeps the invariant.
LEMMA NextKeepsInv == Inv /\ [Next]_vars => Inv'
<1>. SUFFICES ASSUME Inv, [Next]_vars PROVE Inv' OBVIOUS
<1>1. CASE StatusRead \/ LoadFailed \/ Return \/ StackEnds BY <1>1, PageKeepsInv
<1>2. CASE \E m \in Mounts : Mount(m) BY <1>2, MountKeepsInv
<1>3. CASE Leave BY <1>3, LeaveKeepsInv
<1>4. CASE \E m \in Mounts : HandleRefresh(m) BY <1>4, RefreshKeepsInv
<1>5. CASE \E m \in Mounts : StopPolling(m) BY <1>5, StopPollingKeepsInv
<1>6. CASE \E m \in Mounts, r \in Runs : Continue(m, r)
  BY <1>6, CallDoneKeepsInv, CallFailedKeepsInv, PollEndsKeepsInv, PollAgainKeepsInv,
     WakesKeepsInv, CancelledSettlesKeepsInv DEF Continue
<1>7. CASE \E m \in Mounts, r \in Runs, operation \in Operations : Click(m, r, operation)
  BY <1>7, ClickKeepsInv
<1>8. CASE UNCHANGED vars BY <1>8, StutterKeepsInv
<1>. QED BY <1>1, <1>2, <1>3, <1>4, <1>5, <1>6, <1>7, <1>8 DEF Next, Load

-------------------------------------------------------------------------------
(* The theorems. *)

\* Every reachable state satisfies the invariant.
THEOREM InvHolds == Spec => []Inv
<1>. QED BY InitInv, NextKeepsInv, PTL DEF Spec

\* Type correctness; in particular no loop polls more often than its bound says.
THEOREM TypeCorrect == Spec => []TypeOK
<1>1. Inv => TypeOK BY DEF Inv
<1>. QED BY <1>1, InvHolds, PTL

\* No loop of the card sleeps without its timer.
THEOREM LoopsKeepTimers == Spec => []NoLoopStranded
<1>1. Inv => NoLoopStranded BY NoneIsNothing DEF Inv, OneLoop, NoLoopStranded, TypeOK
<1>. QED BY <1>1, InvHolds, PTL

\* A card that says it polls has something under way.
THEOREM PollingWorks == Spec => []PollingIsAtWork
<1>1. Inv => PollingIsAtWork BY DEF Inv
<1>. QED BY <1>1, InvHolds, PTL

\* No step of the card, or of the page, lets a mount that is gone send or set anything.
LEMMA StepsAreSilent ==
  ASSUME Inv, Inv', [Next]_vars, NEW m \in Mounts, NEW r \in Runs, m # current, m # current'
  PROVE  run'[m][r].at \in {run[m][r].at, "done"} /\ armed'[m] = {}
<1>. USE DEF Inv
<1>1. armed'[m] = {} BY DEF Quiet
<1>2. ASSUME NEW n \in Mounts, n # m, NEW x, run' = [run EXCEPT ![n] = x] PROVE run'[m] = run[m]
  BY <1>2 DEF TypeOK
<1>3. CASE UNCHANGED run BY <1>1, <1>3
<1>4. CASE \E n \in Mounts : n = current /\ \E ended : Unmount(n, ended)
  <2>. PICK n \in Mounts : n = current /\ \E ended : Unmount(n, ended) BY <1>4
  <2>1. \E x : run' = [run EXCEPT ![n] = x] BY DEF Unmount
  <2>2. run'[m] = run[m] BY <2>1, <1>2
  <2>. QED BY <1>1, <2>2
<1>5. CASE \E n \in Mounts : Mount(n)
  BY <1>1, <1>5 DEF Mount, TypeOK
<1>6. CASE \E n \in Mounts, s \in Runs : n = current /\ \E x : run' = [run EXCEPT ![n][s] = x]
  BY <1>1, <1>6 DEF TypeOK
<1>7. CASE \E n \in Mounts, s \in Runs : run' = [run EXCEPT ![n][s] = Done]
  BY <1>1, <1>7 DEF TypeOK, Done
<1>8. ASSUME NEW n \in Mounts, NEW s \in Runs, Continue(n, s)
      PROVE  \/ n = current /\ (Unmount(n, s) \/ \E x : run' = [run EXCEPT ![n][s] = x])
             \/ run' = [run EXCEPT ![n][s] = Done]
  <2>1. CASE CallDone(n, s)
    <3>1. n = current BY <2>1, ActsOnPage DEF CallDone, Answered
    <3>. QED BY <2>1, <3>1 DEF CallDone, EndLoop
  <2>2. CASE CallFailed(n, s) \/ CancelledSettles(n, s)
    BY <2>2 DEF CallFailed, CancelledSettles
  <2>3. CASE PollEnds(n, s)
    <3>1. n = current BY <2>3, ActsOnPage DEF PollEnds, Answered
    <3>. QED BY <2>3, <3>1 DEF PollEnds, EndLoop
  <2>4. CASE PollAgain(n, s)
    <3>1. n = current BY <2>4, ActsOnPage DEF PollAgain, Answered
    <3>2. \E x : run' = [run EXCEPT ![n][s] = x] BY <2>4 DEF PollAgain
    <3>. QED BY <3>1, <3>2
  <2>5. CASE Wakes(n, s)
    <3>1. n = current BY <2>5 DEF Wakes, Quiet
    <3>2. \E x : run' = [run EXCEPT ![n][s] = x] BY <2>5 DEF Wakes
    <3>. QED BY <3>1, <3>2
  <2>. QED BY <1>8, <2>1, <2>2, <2>3, <2>4, <2>5 DEF Continue
<1>9. CASE \E n \in Mounts, s \in Runs : Continue(n, s) BY <1>9, <1>8, <1>4, <1>6, <1>7
<1>10. CASE \E n \in Mounts, s \in Runs, operation \in Operations : Click(n, s, operation)
  <2>. PICK n \in Mounts, s \in Runs, operation \in Operations : Click(n, s, operation) BY <1>10
  <2>1. n = current BY DEF Click, Shows
  <2>2. \E x : run' = [run EXCEPT ![n][s] = x] BY DEF Click
  <2>. QED BY <1>6, <2>1, <2>2
<1>11. CASE Leave
  <2>1. current \in Mounts BY <1>11 DEF Leave, TypeOK
  <2>2. Unmount(current, None) BY <1>11 DEF Leave
  <2>. QED BY <1>4, <2>1, <2>2
<1>12. ASSUME NEW n \in Mounts, HandleRefresh(n) PROVE run'[m][r].at \in {run[m][r].at, "done"}
  <2>1. n = current /\ Unmount(n, None) BY <1>12 DEF HandleRefresh, Shows
  <2>. QED BY <1>4, <2>1
<1>13. CASE \/ StatusRead \/ LoadFailed \/ Return \/ StackEnds
            \/ \E n \in Mounts : StopPolling(n)
            \/ UNCHANGED vars
  BY <1>13, <1>3 DEF StatusRead, LoadFailed, Return, StackEnds, StopPolling, mounts, vars
<1>. QED BY <1>1, <1>5, <1>9, <1>10, <1>11, <1>12, <1>13 DEF Next, Load

\* A card that is off the page sends nothing and sets no timer.
THEOREM SilentWhenGone == Spec => GoneIsSilent
<1>1. Inv /\ Inv' /\ [Next]_vars =>
        [\A m \in Mounts, r \in Runs :
           m # current /\ m # current' =>
             run'[m][r].at \in {run[m][r].at, "done"} /\ armed'[m] = {}]_vars
  BY StepsAreSilent
<1>. QED BY <1>1, InvHolds, PTL DEF Spec, GoneIsSilent
===============================================================================
