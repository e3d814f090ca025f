----------------------------- MODULE EksCardProofs -----------------------------
(***************************************************************************)
(* Proofs of the safety properties of EksCard, for any number of mounts.   *)
(* Inv says of each mount which stage its asynchronous function is at, who *)
(* may still answer it, and what its buttons and its memory of earlier     *)
(* operations tell of it.                                                  *)
(***************************************************************************)
EXTENDS EksCard, TLAPS

-------------------------------------------------------------------------------
(* The inductive invariant. *)

\* What the mount awaits fits what is under way, and nothing is under way before it is there.
PlaceOf(m) ==
  /\ at[m] = "rest" <=> run[m] = "none"
  /\ at[m] \in {"update", "sleep", "poll"} => run[m] \in Handlers
  /\ at[m] \in {"state", "config"} => run[m] \in {"load", "start"}
  /\ stage[m] = "new" => at[m] = "rest" /\ loading[m] /\ ~timer[m] /\ ~canceled[m]

\* A mount that left has its call cancelled and its timer cleared, and no other has.
LifeOf(m) ==
  /\ stage[m] = "gone" => ~timer[m] /\ (at[m] \in Calls => canceled[m])
  /\ stage[m] = "mounted" => ~canceled[m]
  /\ timer[m] => at[m] = "sleep"

\* While something is under way there are no buttons.
BusyOf(m) == stage[m] = "mounted" /\ run[m] # "none" => loading[m] \/ error[m]

\* A handler's closure remembers only operations that have been begun before.
MemoryOf(m) ==
  /\ appStarted[m] => "start" \in begun[m]
  /\ appStopped[m] => "stop" \in begun[m]
  /\ run[m] \in Handlers => run[m] \in begun[m]
  /\ run[m] \in Handlers /\ skips[m] => again[m]
  /\ stage[m] = "mounted" /\ loading[m] /\ run[m] = "none" => again[m]

\* What a start handler hands to getData.
SeenOf(m) ==
  run[m] = "start" /\ ~error[m] =>
    at[m] # "state" /\ (at[m] = "config" => seen[m] \in {"RUNNING", "UPDATING"})

MountInv(m) == PlaceOf(m) /\ LifeOf(m) /\ BusyOf(m) /\ MemoryOf(m) /\ SeenOf(m)

Inv == TypeOK /\ \A m \in Mounts : MountInv(m)

-------------------------------------------------------------------------------
\* The cluster's state is one of the states a card shows.
LEMMA PresentIsState == Present \in {"RUNNING", "STOPPED", "UPDATING"}
BY DEF Present

\* What is fetched is a state too.
LEMMA FetchedIsState == Fetched \in {"empty", "RUNNING", "STOPPED", "UPDATING"}
BY PresentIsState DEF Fetched

\* The replicas asked for are none or one.
LEMMA TargetIsBit == \A m \in Mounts : Target(m) \in {0, 1}
BY DEF Target

\* Every step keeps the types.
LEMMA TypeStep == TypeOK /\ [Next]_vars => TypeOK'
<1> SUFFICES ASSUME TypeOK, [Next]_vars
             PROVE  TypeOK'
  OBVIOUS
<1> USE DEF Calls, Handlers, States, cluster, past
<1>1. ASSUME NEW m \in Mounts, Mount(m) PROVE TypeOK'
  BY <1>1 DEF TypeOK, Mount
<1>2. ASSUME NEW m \in Mounts, Unmount(m) PROVE TypeOK'
  BY <1>2 DEF TypeOK, Unmount
<1>3. ASSUME NEW m \in Mounts, CancelledSettles(m) PROVE TypeOK'
  BY <1>3, TargetIsBit DEF TypeOK, CancelledSettles, Rest
<1>4. ASSUME NEW m \in Mounts, StateRead(m) PROVE TypeOK'
  BY <1>4, FetchedIsState DEF TypeOK, StateRead, Await
<1>5. ASSUME NEW m \in Mounts, ConfigRead(m) \/ DataFailed(m) PROVE TypeOK'
  <2>1. CASE ConfigRead(m)
    BY <2>1 DEF TypeOK, ConfigRead, Rest
  <2>2. CASE DataFailed(m)
    BY <2>2 DEF TypeOK, DataFailed, Rest
  <2> QED
    BY <1>5, <2>1, <2>2
<1>6. ASSUME NEW m \in Mounts, NEW handler \in Handlers, Click(m, handler) PROVE TypeOK'
  BY <1>6 DEF TypeOK, Click
<1>7. ASSUME NEW m \in Mounts, UpdateDone(m) \/ UpdateFailed(m) PROVE TypeOK'
  <2>1. EnterLoop(m)
    BY <1>7 DEF UpdateDone, UpdateFailed
  <2>2. /\ run' \in [Mounts -> Handlers \cup {"none", "load"}]
        /\ at' \in [Mounts -> Calls \cup {"rest", "sleep"}]
        /\ timer' \in [Mounts -> BOOLEAN]
    <3>1. CASE Rest(m) /\ UNCHANGED timer
      BY <3>1 DEF TypeOK, Rest
    <3>2. CASE Sleep(m)
      BY <3>2 DEF TypeOK, Sleep, Await
    <3> QED
      BY <2>1, <3>1, <3>2 DEF EnterLoop
  <2>3. CASE UpdateDone(m)
    BY <2>2, <2>3, TargetIsBit DEF TypeOK, UpdateDone
  <2>4. CASE UpdateFailed(m)
    BY <2>2, <2>4, TargetIsBit DEF TypeOK, UpdateFailed
  <2> QED
    BY <1>7, <2>3, <2>4
<1>8. ASSUME NEW m \in Mounts, Wakes(m) PROVE TypeOK'
  BY <1>8 DEF TypeOK, Wakes, Await
<1>9. ASSUME NEW m \in Mounts, StartSeen(m) \/ StopSeen(m) PROVE TypeOK'
  <2>1. CASE StartSeen(m)
    BY <2>1, PresentIsState DEF TypeOK, StartSeen, Await
  <2>2. CASE StopSeen(m)
    BY <2>2 DEF TypeOK, StopSeen, Rest
  <2> QED
    BY <1>9, <2>1, <2>2
<1>10. ASSUME NEW m \in Mounts, NotYet(m) PROVE TypeOK'
  BY <1>10, FetchedIsState DEF TypeOK, NotYet, Sleep, Await
<1>11. ASSUME NEW m \in Mounts, PollFailed(m) PROVE TypeOK'
  <2>1. CASE /\ appStarted' = [appStarted EXCEPT ![m] = TRUE]
             /\ Await(m, "state") \/ Await(m, "config")
             /\ UNCHANGED appStopped
    BY <1>11, <2>1 DEF TypeOK, PollFailed, Await
  <2>2. CASE /\ appStopped' = [appStopped EXCEPT ![m] = TRUE]
             /\ Rest(m)
             /\ UNCHANGED appStarted
    BY <1>11, <2>2 DEF TypeOK, PollFailed, Rest
  <2> QED
    BY <1>11, <2>1, <2>2 DEF PollFailed
<1>12. CASE Converge \/ Waver
  <2>1. CASE Converge
    BY <2>1 DEF TypeOK, Converge
  <2>2. CASE Waver
    <3>1. mute' \in BOOLEAN
      BY <2>2, Zenon DEF Waver
    <3>2. UNCHANGED <<replicas, ready, stage, loading, error, appStarted, appStopped, shown,
                      run, at, skips, seen, timer, canceled, begun, again>>
      BY <2>2 DEF Waver
    <3> QED
      BY <3>1, <3>2 DEF TypeOK
  <2> QED
    BY <1>12, <2>1, <2>2
<1>13. CASE UNCHANGED vars
  BY <1>13 DEF TypeOK, vars
<1> QED
  BY <1>1, <1>2, <1>3, <1>4, <1>5, <1>6, <1>7, <1>8, <1>9, <1>10, <1>11, <1>12, <1>13
     DEF Next, Continue, AllGone

-------------------------------------------------------------------------------
\* The step changes nothing of the mount q.
Alone(q) ==
  /\ stage'[q] = stage[q] /\ loading'[q] = loading[q] /\ error'[q] = error[q]
  /\ appStarted'[q] = appStarted[q] /\ appStopped'[q] = appStopped[q] /\ shown'[q] = shown[q]
  /\ run'[q] = run[q] /\ at'[q] = at[q] /\ skips'[q] = skips[q] /\ seen'[q] = seen[q]
  /\ timer'[q] = timer[q] /\ canceled'[q] = canceled[q]
  /\ begun'[q] = begun[q] /\ again'[q] = again[q]

\* The invariant of a mount survives the steps of the others.
LEMMA AloneKeeps ==
  ASSUME NEW q \in Mounts, MountInv(q), Alone(q)
  PROVE  MountInv(q)'
BY DEF MountInv, PlaceOf, LifeOf, BusyOf, MemoryOf, SeenOf, Alone

\* A step of one mount leaves the others alone.
LEMMA OthersAlone ==
  ASSUME TypeOK, NEW m \in Mounts, NEW q \in Mounts, q # m,
         \/ Mount(m) \/ Unmount(m) \/ Continue(m)
         \/ \E handler \in Handlers : Click(m, handler)
  PROVE  Alone(q)
<1> USE DEF TypeOK, Alone, cluster, past
<1>1. CASE Mount(m) \/ Unmount(m)
  BY <1>1 DEF Mount, Unmount
<1>2. CASE CancelledSettles(m) \/ StateRead(m) \/ ConfigRead(m) \/ DataFailed(m)
  BY <1>2 DEF CancelledSettles, StateRead, ConfigRead, DataFailed, Rest, Await
<1>3. CASE UpdateDone(m) \/ UpdateFailed(m)
  BY <1>3 DEF UpdateDone, UpdateFailed, EnterLoop, Rest, Sleep, Await
<1>4. CASE Wakes(m) \/ StartSeen(m) \/ StopSeen(m)
  BY <1>4 DEF Wakes, StartSeen, StopSeen, Rest, Await
<1>5. CASE NotYet(m) \/ PollFailed(m)
  BY <1>5 DEF NotYet, PollFailed, Sleep, Rest, Await
<1>6. ASSUME NEW handler \in Handlers, Click(m, handler) PROVE Alone(q)
  BY <1>6 DEF Click
<1> QED
  BY <1>1, <1>2, <1>3, <1>4, <1>5, <1>6 DEF Continue

\* A step of a mount keeps its own invariant.
LEMMA OwnStep ==
  ASSUME TypeOK, NEW m \in Mounts, MountInv(m),
         \/ Mount(m) \/ Unmount(m) \/ Continue(m)
         \/ \E handler \in Handlers : Click(m, handler)
  PROVE  MountInv(m)'
<1> USE DEF TypeOK, MountInv, PlaceOf, LifeOf, BusyOf, MemoryOf, SeenOf, Calls, Handlers,
            cluster, past
<1>1. CASE Mount(m)
  BY <1>1 DEF Mount
<1>2. CASE Unmount(m)
  BY <1>2 DEF Unmount
<1>3. CASE CancelledSettles(m)
  BY <1>3 DEF CancelledSettles, Rest
<1>4. CASE StateRead(m)
  BY <1>4 DEF StateRead, Answered, Await
<1>5. CASE ConfigRead(m)
  BY <1>5 DEF ConfigRead, Answered, Rest
<1>6. CASE DataFailed(m)
  BY <1>6 DEF DataFailed, Answered, Rest
<1>7. CASE UpdateDone(m)
  BY <1>7 DEF UpdateDone, Answered, EnterLoop, Rest, Sleep, Await
<1>8. CASE UpdateFailed(m)
  BY <1>8 DEF UpdateFailed, Answered, EnterLoop, Rest, Sleep, Await
<1>9. CASE Wakes(m)
  BY <1>9 DEF Wakes, Await
<1>10. CASE StartSeen(m)
  <2>1. Present \in {"RUNNING", "UPDATING"}
    BY <1>10 DEF StartSeen, Reached, Target, Present
  <2> QED
    BY <1>10, <2>1 DEF StartSeen, Answered, Await
<1>11. CASE StopSeen(m)
  BY <1>11 DEF StopSeen, Answered, Rest
<1>12. CASE NotYet(m)
  BY <1>12 DEF NotYet, Answered, Sleep, Await
<1>13. CASE PollFailed(m)
  BY <1>13 DEF PollFailed, Answered, Rest, Await
<1>14. ASSUME NEW handler \in Handlers, Click(m, handler) PROVE MountInv(m)'
  BY <1>14 DEF Click, Enabled
<1> QED
  BY <1>1, <1>2, <1>3, <1>4, <1>5, <1>6, <1>7, <1>8, <1>9, <1>10, <1>11, <1>12, <1>13, <1>14
     DEF Continue

\* Inv is inductive.
LEMMA InvStep == Inv /\ [Next]_vars => Inv'
<1> SUFFICES ASSUME Inv, [Next]_vars
             PROVE  Inv'
  OBVIOUS
<1>1. TypeOK'
  BY TypeStep DEF Inv
<1>2. ASSUME NEW q \in Mounts PROVE MountInv(q)'
  <2>1. ASSUME NEW m \in Mounts,
               \/ Mount(m) \/ Unmount(m) \/ Continue(m)
               \/ \E handler \in Handlers : Click(m, handler)
        PROVE  MountInv(q)'
    <3>1. CASE q = m
      BY <2>1, <3>1, OwnStep DEF Inv
    <3>2. CASE q # m
      BY <2>1, <3>2, OthersAlone, AloneKeeps DEF Inv
    <3> QED
      BY <3>1, <3>2
  <2>2. CASE Converge \/ Waver \/ UNCHANGED vars
    <3>1. Alone(q)
      BY <2>2 DEF Converge, Waver, vars, past, Alone
    <3> QED
      BY <3>1, AloneKeeps DEF Inv
  <2> QED
    BY <2>1, <2>2 DEF Next, AllGone
<1> QED
  BY <1>1, <1>2 DEF Inv

\* Nothing is under way at first.
LEMMA InitInv == Init => Inv
BY DEF Init, Inv, TypeOK, MountInv, PlaceOf, LifeOf, BusyOf, MemoryOf, SeenOf, Calls, Handlers,
       States

\* The invariant of the card.
THEOREM InvHolds == Spec => []Inv
BY InitInv, InvStep, PTL DEF Spec

-------------------------------------------------------------------------------
(* The properties. *)

\* Every variable of the card has its type in every state.
THEOREM TypeCorrect == Spec => []TypeOK
<1>1. Inv => TypeOK
  BY DEF Inv
<1> QED
  BY <1>1, InvHolds, PTL

\* A card that can be clicked has no loop under way that the new one would share its timer with.
THEOREM NoLoopAtClick == Spec => []ClickFindsNoLoop
<1>1. Inv => ClickFindsNoLoop
  BY DEF Inv, MountInv, BusyOf, ClickFindsNoLoop, Enabled
<1> QED
  BY <1>1, InvHolds, PTL

\* Only an operation that was repeated on the same mount leaves a card loading for nothing.
THEOREM StuckByRepetition == Spec => []StuckOnlyOnRepeat
<1>1. Inv => StuckOnlyOnRepeat
  BY DEF Inv, MountInv, MemoryOf, StuckOnlyOnRepeat
<1> QED
  BY <1>1, InvHolds, PTL

\* A card that left the page polls no more.
THEOREM QuietWhenGone == Spec => GoneIsQuiet
<1> DEFINE Quiet(m) == stage[m] = "gone" => at'[m] \in {at[m], "rest"} /\ ~timer'[m]
<1>1. Inv /\ [Next]_vars => [\A m \in Mounts : Quiet(m)]_vars
  <2> SUFFICES ASSUME Inv, [Next]_vars, NEW m \in Mounts, stage[m] = "gone"
               PROVE  at'[m] \in {at[m], "rest"} /\ ~timer'[m]
    OBVIOUS
  <2>1. MountInv(m) /\ TypeOK
    BY DEF Inv
  <2>2. ~timer[m] /\ (at[m] \in Calls => canceled[m])
    BY <2>1 DEF MountInv, LifeOf
  <2>3. CASE Alone(m)
    BY <2>2, <2>3 DEF Alone
  <2>4. CASE CancelledSettles(m)
    BY <2>1, <2>2, <2>4 DEF CancelledSettles, Rest, TypeOK
  <2>5. ASSUME NEW q \in Mounts,
               \/ Mount(q) \/ Unmount(q) \/ Continue(q)
               \/ \E handler \in Handlers : Click(q, handler)
        PROVE  Alone(m) \/ CancelledSettles(m)
    <3>1. CASE q # m
      BY <2>1, <2>5, <3>1, OthersAlone
    <3>2. CASE q = m
      BY <2>2, <2>5, <3>2
         DEF Mount, Unmount, Click, Enabled, Continue, StateRead, ConfigRead, DataFailed,
             UpdateDone, UpdateFailed, Wakes, StartSeen, StopSeen, NotYet, PollFailed,
             Answered, Calls
    <3> QED
      BY <3>1, <3>2
  <2>6. CASE Converge \/ Waver \/ UNCHANGED vars
    <3>1. Alone(m)
      BY <2>6 DEF Converge, Waver, vars, past, Alone
    <3> QED
      BY <2>3, <3>1
  <2> QED
    BY <2>3, <2>4, <2>5, <2>6 DEF Next, AllGone
<1> QED
  BY <1>1, InvHolds, PTL DEF Spec, GoneIsQuiet

\* A start that ends by itself and without an error shows an application that was started.
THEOREM StartedAtEnd == Spec => StartEndsStarted
<1> DEFINE Ends(m) == /\ run[m] = "start" /\ run'[m] = "none"
                      /\ stage[m] = "mounted" /\ ~error'[m] /\ ~skips[m]
<1>1. Inv /\ [Next]_vars => [\A m \in Mounts : Ends(m) => shown'[m] \in {"RUNNING", "UPDATING"}]_vars
  <2> SUFFICES ASSUME Inv, [Next]_vars, NEW m \in Mounts, Ends(m)
               PROVE  shown'[m] \in {"RUNNING", "UPDATING"}
    OBVIOUS
  <2>1. MountInv(m) /\ TypeOK
    BY DEF Inv
  <2>2. ~Alone(m)
    BY DEF Alone
  <2>3. ~(Converge \/ Waver \/ UNCHANGED vars)
    BY <2>2 DEF Converge, Waver, vars, past, Alone
  <2>4. \/ Mount(m) \/ Unmount(m) \/ Continue(m)
        \/ \E handler \in Handlers : Click(m, handler)
    BY <2>1, <2>2, <2>3, OthersAlone DEF Next, AllGone
  <2>5. ConfigRead(m)
    BY <2>1, <2>4
       DEF Mount, Unmount, Click, Continue, CancelledSettles, StateRead, DataFailed, UpdateDone,
           UpdateFailed, EnterLoop, Sleep, Wakes, StartSeen, StopSeen, NotYet, PollFailed, Await,
           TypeOK, MountInv, LifeOf, Handlers, past
  <2>6. seen[m] \in {"RUNNING", "UPDATING"}
    BY <2>1, <2>5 DEF MountInv, SeenOf, ConfigRead, Answered
  <2> QED
    BY <2>1, <2>5, <2>6 DEF ConfigRead, TypeOK
<1> QED
  BY <1>1, InvHolds, PTL DEF Spec, StartEndsStarted
===============================================================================
