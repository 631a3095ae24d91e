--------------------------- MODULE FlicDeviceProofs ---------------------------
(***************************************************************************)
(* Proofs, for any number of clients and tasks, of the safety invariants   *)
(* of FlicDevice.                                                          *)
(***************************************************************************)
EXTENDS FlicDevice, TLAPS

USE NoClientAssumption, NoTaskAssumption

-----------------------------------------------------------------------------
(* Type correctness *)

\* The groups of variables, for the steps that leave everything unchanged.
LEMMA TypeInit == Init => TypeOK
  BY DEF Init, TypeOK, Phases, LockedAwaits, ClientAwaits

\* What the coroutine helpers write into the variables of the tasks.
TaskTypes ==
    /\ pc \in [Tasks -> LockedAwaits \cup {"free", "created", "done"}]
    /\ local \in [Tasks -> Clients \cup {NoClient}]
    /\ lock \in Tasks \cup {NoTask}
    /\ \A t \in Tasks : pc[t] \in ClientAwaits => local[t] \in Clients

\* A coroutine that returns leaves well-typed task variables.
LEMMA FinishTypes ==
  ASSUME TaskTypes, NEW t \in Tasks, Finish(t)
  PROVE  TaskTypes'
  BY DEF TaskTypes, Finish, LockedAwaits, ClientAwaits

\* So does a coroutine that suspends, holding a client where it awaits one.
LEMMA SuspendTypes ==
  ASSUME TaskTypes, NEW t \in Tasks, NEW a \in LockedAwaits,
         NEW c \in Clients \cup {NoClient}, a \in ClientAwaits => c \in Clients,
         Suspend(t, a, c)
  PROVE  TaskTypes'
  BY DEF TaskTypes, Suspend, LockedAwaits, ClientAwaits

\* The exception handler never awaits a method of None.
LEMMA AttemptFailedTypes ==
  ASSUME TypeOK, NEW t \in Tasks, AttemptFailed(t)
  PROVE  /\ TaskTypes'
         /\ client' = client
         /\ dropped' \in SUBSET Clients
         /\ available' \in BOOLEAN
<1>1. TaskTypes
  BY DEF TypeOK, TaskTypes
<1>2. CASE client # NoClient
  <2>1. client \in Clients /\ Suspend(t, "cleanup", client)
    BY <1>2 DEF AttemptFailed, TypeOK
  <2>2. TaskTypes'
    BY <1>1, <2>1, SuspendTypes DEF LockedAwaits
  <2> QED
    BY <1>2, <2>1, <2>2 DEF AttemptFailed, TypeOK
<1>3. CASE client = NoClient
  BY <1>1, <1>3, FinishTypes DEF AttemptFailed, TypeOK
<1> QED
  BY <1>2, <1>3

\* disconnect() keeps the types of the Bluetooth variables.
LEMMA DisconnectTypes ==
  ASSUME TypeOK, NEW c \in Clients, DisconnectEnds(c)
  PROVE  /\ connected' \in [Clients -> BOOLEAN]
         /\ cbOwed' \in SUBSET Clients
         /\ link' \in Clients \cup {NoClient}
<1>1. CASE UNCHANGED <<connected, cbOwed, link>>
  BY <1>1 DEF TypeOK
<1>2. CASE /\ connected' = [connected EXCEPT ![c] = FALSE]
           /\ cbOwed' = IF connected[c] THEN cbOwed \cup {c} ELSE cbOwed
           /\ link' = IF link = c THEN NoClient ELSE link
  BY <1>2 DEF TypeOK
<1> QED
  BY <1>1, <1>2 DEF DisconnectEnds

\* A created task is well typed.
LEMMA StartTypes ==
  ASSUME TypeOK, NEW f \in BOOLEAN, StartTask(f, pc)
  PROVE  /\ pc' \in [Tasks -> LockedAwaits \cup {"free", "created", "done"}]
         /\ force' \in [Tasks -> BOOLEAN]
         /\ connectTask' \in Tasks
         /\ \A u \in Tasks : pc'[u] \in LockedAwaits => pc'[u] = pc[u]
  BY DEF TypeOK, StartTask, LockedAwaits

\* Every action keeps the variables in their domains (TypeOK).
LEMMA TypeStep == TypeOK /\ [Next]_vars => TypeOK'
<1> SUFFICES ASSUME TypeOK, [Next]_vars PROVE TypeOK'
  OBVIOUS
<1> USE DEF TypeOK, Phases, LockedAwaits, ClientAwaits, deviceVars, taskVars,
            bleVars, sessionVars
<1>1. CASE Setup
  <2>1. \/ StartTask(FALSE, pc)
        \/ connectTask' = NoTask /\ UNCHANGED <<pc, force>>
    BY <1>1 DEF Setup
  <2> QED
    BY <1>1, <2>1, StartTypes DEF Setup
<1>2. CASE Stop
  BY <1>2 DEF Stop, StopDisconnect, Busy
<1>3. CASE StopTaskEnded
  BY <1>3 DEF StopTaskEnded, StopDisconnect
<1>4. CASE StopDisconnected
  <2>1. /\ connected' \in [Clients -> BOOLEAN] /\ cbOwed' \in SUBSET Clients
        /\ link' \in Clients \cup {NoClient}
    BY <1>4, DisconnectTypes DEF StopDisconnected
  <2> QED
    BY <1>4, <2>1 DEF StopDisconnected
<1>5. CASE Advertisement
  <2> DEFINE f == available /\ IsConnected
  <2>1. f \in BOOLEAN
    BY DEF IsConnected
  <2> HIDE DEF f
  <2>2. CASE Busy
    BY <1>5, <2>1, <2>2 DEF Advertisement, Schedule, f
  <2>3. CASE StartTask(f, pc) /\ UNCHANGED <<pending, forcePending>>
    BY <1>5, <2>1, <2>3, StartTypes DEF Advertisement
  <2> QED
    BY <1>5, <2>2, <2>3 DEF Advertisement, Schedule, f
<1>6. CASE LinkLost
  BY <1>6 DEF LinkLost
<1>7. ASSUME NEW t \in Tasks, TaskStep(t) PROVE TypeOK'
  <2>1. CASE Begin(t)
    <3>1. TaskTypes
      BY DEF TaskTypes
    <3>2. dropped' \in SUBSET Clients
      BY <2>1 DEF Begin, IsConnected
    <3>3. \/ Finish(t)
          \/ client \in Clients /\ Suspend(t, "dropStale", client)
          \/ Suspend(t, "establish", NoClient)
      BY <2>1 DEF Begin, IsConnected, Lookup
    <3>4. TaskTypes'
      BY <3>1, <3>3, FinishTypes, SuspendTypes
    <3> QED
      BY <2>1, <3>2, <3>4 DEF Begin, TaskTypes
  <2>2. CASE StaleDisconnected(t)
    <3>1. TaskTypes
      BY DEF TaskTypes
    <3>2. Finish(t) \/ Suspend(t, "establish", NoClient)
      BY <2>2 DEF StaleDisconnected, Lookup
    <3>3. TaskTypes'
      BY <3>1, <3>2, FinishTypes, SuspendTypes
    <3>4. client' \in Clients \cup {NoClient} /\ available' \in BOOLEAN
      BY <2>2 DEF StaleDisconnected, ForgetClient
    <3>5. /\ connected' \in [Clients -> BOOLEAN] /\ cbOwed' \in SUBSET Clients
          /\ link' \in Clients \cup {NoClient}
      BY <2>2, DisconnectTypes DEF StaleDisconnected
    <3> QED
      BY <2>2, <3>3, <3>4, <3>5 DEF StaleDisconnected, TaskTypes
  <2>3. ASSUME NEW c \in Clients, Established(t, c) PROVE TypeOK'
    BY <2>3 DEF Established, Suspend
  <2>4. CASE NotifyStarted(t)
    BY <2>4 DEF NotifyStarted, Suspend
  <2>5. CASE RequestSent(t)
    <3>1. TaskTypes
      BY DEF TaskTypes
    <3>2. /\ TaskTypes' /\ client' = client
          /\ dropped' \in SUBSET Clients /\ available' \in BOOLEAN
      <4>1. CASE Suspend(t, "waitReady", local[t]) /\ ~ReadySeen(t)
        BY <2>5, <3>1, <4>1, SuspendTypes DEF RequestSent
      <4>2. CASE ReadySeen(t)
        BY <3>1, <4>2, FinishTypes, AttemptFailedTypes DEF ReadySeen
      <4> QED
        BY <2>5, <4>1, <4>2 DEF RequestSent
    <3> QED
      BY <2>5, <3>2 DEF RequestSent, TaskTypes
  <2>6. CASE ReadyWoken(t)
    <3>1. TaskTypes
      BY DEF TaskTypes
    <3>2. /\ TaskTypes' /\ client' = client
          /\ dropped' \in SUBSET Clients /\ available' \in BOOLEAN
      BY <2>6, <3>1, FinishTypes, AttemptFailedTypes DEF ReadyWoken, ReadySeen
    <3> QED
      BY <2>6, <3>2 DEF ReadyWoken, TaskTypes
  <2>7. CASE AttemptRaises(t)
    BY <2>7, AttemptFailedTypes DEF AttemptRaises, TaskTypes
  <2>8. CASE CleanedUp(t)
    <3>1. TaskTypes'
      BY <2>8, FinishTypes DEF CleanedUp, TaskTypes
    <3>2. /\ connected' \in [Clients -> BOOLEAN] /\ cbOwed' \in SUBSET Clients
          /\ link' \in Clients \cup {NoClient}
      BY <2>8, DisconnectTypes DEF CleanedUp
    <3> QED
      BY <2>8, <3>1, <3>2 DEF CleanedUp, TaskTypes
  <2>9. CASE Cancelled(t)
    BY <2>9 DEF Cancelled
  <2> QED
    BY <1>7, <2>1, <2>2, <2>3, <2>4, <2>5, <2>6, <2>7, <2>8, <2>9 DEF TaskStep
<1>8. ASSUME NEW t \in Tasks, TaskDone(t) PROVE TypeOK'
  <2>1. connectTask' \in Tasks \cup {NoTask}
    BY <1>8 DEF TaskDone, StartTask
  <2>2. /\ pc' \in [Tasks -> LockedAwaits \cup {"free", "created", "done"}]
        /\ force' \in [Tasks -> BOOLEAN]
        /\ \A u \in Tasks : pc'[u] \in LockedAwaits => pc'[u] = pc[u]
    BY <1>8 DEF TaskDone, StartTask
  <2>3. pending' \in BOOLEAN /\ forcePending' \in BOOLEAN
    BY <1>8 DEF TaskDone
  <2> QED
    BY <1>8, <2>1, <2>2, <2>3 DEF TaskDone
<1>9. ASSUME NEW c \in Clients, ClientStep(c) PROVE TypeOK'
  <2>1. CASE Disconnected(c)
    BY <2>1 DEF Disconnected, ForgetClient
  <2>2. CASE SessionReady(c)
    BY <2>2 DEF SessionReady
  <2>3. CASE SessionFails(c)
    BY <2>3 DEF SessionFails
  <2>4. CASE FailureClosed(c)
    BY <2>4, DisconnectTypes DEF FailureClosed
  <2>5. CASE LossNoticed(c)
    BY <2>5 DEF LossNoticed
  <2> QED
    BY <1>9, <2>1, <2>2, <2>3, <2>4, <2>5 DEF ClientStep
<1>10. CASE UNCHANGED vars
  BY <1>10 DEF vars
<1> QED
  BY <1>1, <1>2, <1>3, <1>4, <1>5, <1>6, <1>7, <1>8, <1>9, <1>10
     DEF Next, EntryStep

\* Every variable of the device keeps its domain, and no task awaits a method
\* of a client that is None.
THEOREM TypeCorrect == Spec => []TypeOK
  BY TypeInit, TypeStep, PTL DEF Spec

-----------------------------------------------------------------------------
(* The tasks: one attempt, the lock, the remembered request *)

\* The part of IInv that is about tasks.
TaskInv ==
    /\ AttemptsKnown
    /\ CancelledByStop
    /\ TaskKnown
    /\ NoForgottenAdvertisement
    /\ LockHeld

\* The variables TaskInv speaks of, the ones of one attempt's step excepted.
requestVars == <<phase, connectTask, pending, forcePending, cancelling>>

\* How the coroutine of an attempt moves: it returns, or suspends in an await
\* that holds the lock.
Moves(t) ==
    \/ Finish(t)
    \/ \E a \in LockedAwaits, c \in Clients \cup {NoClient} : Suspend(t, a, c)

\* The coroutine that runs is the current task, and the device is not stopping.
LEMMA RunnerIsCurrent ==
  ASSUME TypeOK, TaskInv, NEW t \in Tasks, Live(t), t \notin cancelling
  PROVE  connectTask = t /\ ~stopping /\ phase = "loaded" /\ cancelling = {}
  BY DEF TypeOK, TaskInv, AttemptsKnown, TaskKnown, CancelledByStop, stopping

\* Whatever an attempt does between two awaits keeps TaskInv.
LEMMA MovesTaskInv ==
  ASSUME TypeOK, TaskInv, NEW t \in Tasks, Live(t), t \notin cancelling,
         lock \in {t, NoTask}, Moves(t), UNCHANGED requestVars
  PROVE  TaskInv'
<1>1. connectTask = t /\ ~stopping /\ phase = "loaded" /\ cancelling = {}
  BY RunnerIsCurrent
<1>2. PICK a \in LockedAwaits \cup {"done"} :
         /\ pc' = [pc EXCEPT ![t] = a]
         /\ lock' = IF a = "done" THEN NoTask ELSE t
  BY DEF Moves, Finish, Suspend, LockedAwaits
<1>3. /\ \A u \in Tasks : u # t => pc'[u] = pc[u]
      /\ pc'[t] = a
  BY <1>2 DEF TypeOK
<1>4. AttemptsKnown' /\ CancelledByStop'
  BY <1>1, <1>3 DEF TaskInv, AttemptsKnown, CancelledByStop, Live, requestVars
<1>5. TaskKnown' /\ NoForgottenAdvertisement'
  BY <1>1, <1>3
     DEF TaskInv, TaskKnown, NoForgottenAdvertisement, stopping, requestVars,
         LockedAwaits
<1>6. LockHeld'
  BY <1>2, <1>3 DEF TaskInv, LockHeld, LockedAwaits
<1> QED
  BY <1>4, <1>5, <1>6 DEF TaskInv

\* Each continuation of async_connect is such a move.
LEMMA AttemptMoves ==
  ASSUME TypeOK, TaskInv, NEW t \in Tasks, TaskStep(t), ~Cancelled(t)
  PROVE  /\ Moves(t) /\ UNCHANGED requestVars
         /\ Live(t) /\ t \notin cancelling /\ lock \in {t, NoTask}
<1>1. /\ pc[t] \in LockedAwaits => lock = t
      /\ pc[t] \in LockedAwaits => Live(t)
  BY DEF TaskInv, LockHeld, Live, LockedAwaits
<1>2. local[t] \in Clients \cup {NoClient} /\ client \in Clients \cup {NoClient}
  BY DEF TypeOK
<1>3. ASSUME AttemptFailed(t) PROVE Moves(t)
  BY <1>2, <1>3 DEF AttemptFailed, Moves, LockedAwaits
<1>4. ASSUME ReadySeen(t) PROVE Moves(t)
  BY <1>3, <1>4 DEF ReadySeen, Moves
<1>5. CASE Begin(t)
  BY <1>2, <1>5 DEF Begin, Lookup, Moves, LockedAwaits, Live, requestVars,
                    deviceVars
<1>6. CASE StaleDisconnected(t)
  BY <1>1, <1>6 DEF StaleDisconnected, Lookup, Moves, LockedAwaits, requestVars
<1>7. ASSUME NEW c \in Clients, Established(t, c)
      PROVE  /\ Moves(t) /\ UNCHANGED requestVars
             /\ Live(t) /\ t \notin cancelling /\ lock \in {t, NoTask}
  BY <1>1, <1>7 DEF Established, Moves, LockedAwaits, requestVars
<1>8. CASE NotifyStarted(t)
  BY <1>1, <1>2, <1>8 DEF NotifyStarted, Moves, LockedAwaits, requestVars,
                          deviceVars
<1>9. CASE RequestSent(t)
  BY <1>1, <1>2, <1>4, <1>9 DEF RequestSent, Moves, LockedAwaits, requestVars
<1>10. CASE ReadyWoken(t)
  BY <1>1, <1>4, <1>10 DEF ReadyWoken, LockedAwaits, requestVars
<1>11. CASE AttemptRaises(t)
  BY <1>1, <1>3, <1>11 DEF AttemptRaises, AttemptAwaits, LockedAwaits,
                           requestVars
<1>12. CASE CleanedUp(t)
  BY <1>1, <1>12 DEF CleanedUp, Moves, LockedAwaits, requestVars
<1> QED
  BY <1>5, <1>6, <1>7, <1>8, <1>9, <1>10, <1>11, <1>12 DEF TaskStep

\* Starting a task when none is alive keeps TaskInv; the done callback and the
\* advertisement both do it.
LEMMA StartKeepsTaskInv ==
  ASSUME TypeOK, TaskInv, NEW t \in Tasks, pc[t] \in {"free", "done"},
         \A u \in Tasks : ~Live(u), phase' = "loaded", cancelling' = cancelling,
         connectTask' = t, pc' = [pc EXCEPT ![t] = "created"], lock' = lock,
         forcePending' => pending'
  PROVE  TaskInv'
<1>1. /\ \A u \in Tasks : u # t => pc'[u] = pc[u]
      /\ pc'[t] = "created"
  BY DEF TypeOK
<1>2. cancelling = {}
  BY DEF TaskInv, CancelledByStop, TypeOK
<1>3. AttemptsKnown' /\ CancelledByStop'
  BY <1>1, <1>2 DEF AttemptsKnown, CancelledByStop, Live
<1>4. TaskKnown' /\ NoForgottenAdvertisement'
  BY <1>1 DEF TaskKnown, NoForgottenAdvertisement, stopping
<1>5. LockHeld'
  BY <1>1 DEF TaskInv, LockHeld, LockedAwaits
<1> QED
  BY <1>3, <1>4, <1>5 DEF TaskInv

\* Forgetting an ended task frees its slot.
LEMMA FreeKeepsTaskInv ==
  ASSUME TypeOK, TaskInv, NEW t \in Tasks, pc[t] = "done",
         pc' = [pc EXCEPT ![t] = "free"], lock' = lock,
         phase' = phase, cancelling' = cancelling,
         \/ connectTask # t /\ UNCHANGED <<connectTask, pending, forcePending>>
         \/ connectTask' = NoTask /\ pending' = FALSE /\ forcePending' = FALSE
            /\ connectTask = t
  PROVE  TaskInv'
<1>1. /\ \A u \in Tasks : u # t => pc'[u] = pc[u]
      /\ pc'[t] = "free"
  BY DEF TypeOK
<1>2. AttemptsKnown' /\ CancelledByStop'
  BY <1>1 DEF TaskInv, AttemptsKnown, CancelledByStop, Live
<1>3. TaskKnown' /\ NoForgottenAdvertisement'
  BY <1>1 DEF TaskInv, TaskKnown, NoForgottenAdvertisement, stopping, TypeOK
<1>4. LockHeld'
  BY <1>1 DEF TaskInv, LockHeld, LockedAwaits
<1> QED
  BY <1>2, <1>3, <1>4 DEF TaskInv

\* No attempt is alive in the phases that follow the end of unloading's wait.
LEMMA QuietPhases ==
  ASSUME TypeOK, TaskInv, stopping, cancelling = {}
  PROVE  \A t \in Tasks : ~Live(t)
  BY DEF TypeOK, TaskInv, AttemptsKnown, TaskKnown

\* Every step keeps TaskInv.
LEMMA TaskInvStep == TypeOK /\ TaskInv /\ [Next]_vars => TaskInv'
<1> SUFFICES ASSUME TypeOK, TaskInv, [Next]_vars PROVE TaskInv'
  OBVIOUS
<1> DEFINE Same == UNCHANGED <<requestVars, pc, lock>>
<1>1. ASSUME Same PROVE TaskInv'
  BY <1>1 DEF TaskInv, AttemptsKnown, CancelledByStop, TaskKnown,
              NoForgottenAdvertisement, LockHeld, Live, stopping, requestVars
<1>2. CASE Setup
  <2>1. phase = "unloaded" /\ stopping
    BY <1>2 DEF Setup, stopping
  <2>2. cancelling = {} /\ \A u \in Tasks : ~Live(u)
    BY <2>1, QuietPhases DEF TaskInv, CancelledByStop, TypeOK
  <2>3. lock = NoTask
    BY <2>2 DEF TaskInv, LockHeld, TypeOK, Live, LockedAwaits
  <2>4. CASE \E t \in Tasks : /\ pc[t] = "free"
                              /\ pc' = [pc EXCEPT ![t] = "created"]
                              /\ connectTask' = t
    BY <1>2, <2>2, <2>3, <2>4, StartKeepsTaskInv DEF Setup
  <2>5. CASE connectTask' = NoTask /\ UNCHANGED pc
    BY <1>2, <2>2, <2>3, <2>5
       DEF Setup, TaskInv, AttemptsKnown, CancelledByStop, TaskKnown,
           NoForgottenAdvertisement, LockHeld, Live, stopping
  <2> QED
    BY <1>2, <2>4, <2>5 DEF Setup, StartTask
<1>3. CASE Stop
  <2>1. /\ phase = "loaded" /\ cancelling = {}
        /\ connectTask' = NoTask /\ pending' = FALSE /\ forcePending' = FALSE
        /\ UNCHANGED <<pc, lock>>
    BY <1>3 DEF Stop, TaskInv, CancelledByStop, TypeOK
  <2>2. \/ Busy /\ cancelling' = {connectTask} /\ phase' = "stopAwait"
        \/ ~Busy /\ cancelling' = {} /\ phase' \in {"stopDisconnect", "unloaded"}
    BY <1>3, <2>1 DEF Stop, StopDisconnect
  <2> QED
    BY <2>1, <2>2
       DEF TypeOK, TaskInv, AttemptsKnown, CancelledByStop, TaskKnown,
           NoForgottenAdvertisement, LockHeld, Busy, Live, stopping
<1>4. CASE StopTaskEnded \/ StopDisconnected
  <2>1. /\ stopping /\ stopping' /\ UNCHANGED <<connectTask, pending,
                                     forcePending, cancelling, pc, lock>>
    BY <1>4 DEF StopTaskEnded, StopDisconnect, StopDisconnected, stopping,
                taskVars
  <2>2. cancelling = {}
    BY <1>4 DEF StopTaskEnded, CancelledEnded, StopDisconnected, TaskInv,
                CancelledByStop, TypeOK
  <2> QED
    BY <2>1, <2>2 DEF TaskInv, AttemptsKnown, CancelledByStop, TaskKnown,
                      NoForgottenAdvertisement, LockHeld, Live
<1>5. CASE Advertisement
  <2>1. /\ phase = "loaded" /\ phase' = phase
        /\ UNCHANGED <<cancelling, lock>> /\ cancelling = {}
    BY <1>5 DEF Advertisement, Schedule, stopping, TaskInv, CancelledByStop,
                TypeOK
  <2>2. CASE Busy /\ pending' = TRUE /\ UNCHANGED <<connectTask, pc>>
    BY <2>1, <2>2 DEF TaskInv, AttemptsKnown, CancelledByStop, TaskKnown,
                      NoForgottenAdvertisement, LockHeld, Live, Busy, stopping
  <2>3. CASE /\ ~Busy /\ UNCHANGED <<pending, forcePending>>
             /\ \E f \in BOOLEAN : StartTask(f, pc)
    <3>1. \A u \in Tasks : ~Live(u)
      BY <2>1, <2>3 DEF Busy, TaskInv, AttemptsKnown
    <3>2. forcePending' => pending'
      BY <2>3 DEF TaskInv, NoForgottenAdvertisement
    <3> QED
      BY <2>1, <2>3, <3>1, <3>2, StartKeepsTaskInv DEF StartTask
  <2> QED
    BY <1>5, <2>2, <2>3 DEF Advertisement, Schedule, IsConnected
<1>6. CASE LinkLost
  BY <1>1, <1>6 DEF LinkLost, deviceVars, taskVars, requestVars
<1>7. ASSUME NEW t \in Tasks, TaskStep(t) PROVE TaskInv'
  <2>1. CASE ~Cancelled(t)
    BY <1>7, <2>1, AttemptMoves, MovesTaskInv
  <2>2. CASE Cancelled(t)
    <3>1. /\ t \in cancelling /\ cancelling' = cancelling \ {t}
          /\ \A u \in Tasks : u # t => pc'[u] = pc[u]
          /\ pc'[t] = "done"
          /\ lock' = IF lock = t THEN NoTask ELSE lock
          /\ UNCHANGED <<phase, connectTask, pending, forcePending>>
      BY <2>2 DEF Cancelled, deviceVars, TypeOK
    <3>2. cancelling' = {} /\ phase' = "stopAwait" /\ connectTask' = NoTask
      BY <3>1 DEF TaskInv, CancelledByStop, TaskKnown, stopping, TypeOK
    <3>3. LockHeld'
      BY <3>1 DEF TaskInv, LockHeld, LockedAwaits
    <3> QED
      BY <3>1, <3>2, <3>3
         DEF TaskInv, AttemptsKnown, CancelledByStop, TaskKnown,
             NoForgottenAdvertisement, Live, stopping
  <2> QED
    BY <2>1, <2>2
<1>8. ASSUME NEW t \in Tasks, TaskDone(t) PROVE TaskInv'
  <2>1. /\ pc[t] = "done" /\ UNCHANGED <<phase, cancelling, lock>>
    BY <1>8 DEF TaskDone
  <2>2. CASE connectTask = t /\ pending /\ ~stopping
    <3>1. PICK u \in Tasks :
             /\ [pc EXCEPT ![t] = "free"][u] = "free"
             /\ pc' = [[pc EXCEPT ![t] = "free"] EXCEPT ![u] = "created"]
             /\ connectTask' = u
      BY <1>8, <2>2 DEF TaskDone, StartTask
    <3>2. pending' = FALSE /\ forcePending' = FALSE
      BY <1>8, <2>2 DEF TaskDone
    <3>3. /\ pc'[u] = "created"
          /\ \A v \in Tasks : v # u => pc'[v] \in {pc[v], "free"} /\
                                       (v # t => pc'[v] = pc[v])
          /\ pc[u] \in {"free", "done"}
          /\ t # u => pc'[t] = "free"
      BY <2>1, <3>1 DEF TypeOK
    <3>4. \A v \in Tasks : ~Live(v)
      BY <2>1, <2>2 DEF TaskInv, AttemptsKnown, CancelledByStop, TaskKnown,
                        stopping, Live
    <3>5. cancelling = {}
      BY <3>4 DEF TaskInv, CancelledByStop, TypeOK
    <3>6. AttemptsKnown' /\ CancelledByStop'
      BY <2>1, <3>1, <3>3, <3>4, <3>5 DEF AttemptsKnown, CancelledByStop, Live
    <3>7. TaskKnown' /\ NoForgottenAdvertisement'
      BY <2>1, <2>2, <3>1, <3>2, <3>3
         DEF TaskKnown, NoForgottenAdvertisement, stopping
    <3>8. LockHeld'
      BY <2>1, <3>3, <3>4 DEF TaskInv, LockHeld, LockedAwaits, Live
    <3> QED
      BY <3>6, <3>7, <3>8 DEF TaskInv
  <2>3. CASE connectTask = t /\ ~(pending /\ ~stopping)
    <3>1. pending = FALSE /\ forcePending = FALSE
      BY <2>3 DEF TaskInv, NoForgottenAdvertisement, TypeOK
    <3> QED
      BY <1>8, <2>1, <2>3, <3>1, FreeKeepsTaskInv DEF TaskDone
  <2>4. CASE connectTask # t
    BY <1>8, <2>1, <2>4, FreeKeepsTaskInv DEF TaskDone
  <2> QED
    BY <2>2, <2>3, <2>4
<1>9. ASSUME NEW c \in Clients, ClientStep(c) PROVE TaskInv'
  BY <1>1, <1>9
     DEF ClientStep, Disconnected, SessionReady, SessionFails, FailureClosed,
         LossNoticed, deviceVars, taskVars, requestVars
<1>10. CASE UNCHANGED vars
  BY <1>1, <1>10 DEF vars, deviceVars, taskVars, requestVars
<1> QED
  BY <1>2, <1>3, <1>4, <1>5, <1>6, <1>7, <1>8, <1>9, <1>10 DEF Next, EntryStep

-----------------------------------------------------------------------------
(* The clients: none is overwritten or forgotten while it is connected *)

\* The part of IInv that is about clients.
ClientInv ==
    /\ CallbacksOwed
    /\ OverwriteSafe
    /\ NoLeakedConnection

\* The device may forget its client: it is down or being disconnected.
Forgettable == client = NoClient \/ ~connected'[client] \/ client \in dropped

\* A step that opens no connection keeps ClientInv if it keeps or forgets the
\* client, and leaves every task in an await that AwaitSafe allows.
LEMMA ClientKept ==
  ASSUME TypeOK, ClientInv, CallbacksOwed',
         dropped \subseteq dropped',
         \A c \in Clients : connected'[c] => connected[c],
         client' = client \/ (client' = NoClient /\ Forgettable),
         \A t \in Tasks : \/ AwaitSafe(t)'
                          \/ pc'[t] = pc[t] /\ local'[t] = local[t]
                          \/ pc'[t] \notin LockedAwaits,
         \/ phase' \in {phase, "loaded", "stopAwait"}
         \/ phase' = "stopDisconnect" /\ ClientDropped'
         \/ phase' = "unloaded" /\ client' = NoClient
  PROVE  ClientInv'
<1>1. client \in Clients \cup {NoClient}
  BY DEF TypeOK
<1>2. ClientDropped => ClientDropped'
  BY DEF ClientDropped
<1>3. ~IsConnected => ~IsConnected'
  BY <1>1 DEF IsConnected
<1>4. ASSUME NEW t \in Tasks PROVE AwaitSafe(t)'
  <2>1. CASE pc'[t] = pc[t] /\ local'[t] = local[t]
    BY <1>2, <1>3, <2>1 DEF ClientInv, OverwriteSafe, AwaitSafe
  <2>2. CASE pc'[t] \notin LockedAwaits
    BY <2>2 DEF AwaitSafe, LockedAwaits
  <2> QED
    BY <2>1, <2>2
<1>5. OverwriteSafe'
  BY <1>2, <1>4 DEF ClientInv, OverwriteSafe
<1>6. NoLeakedConnection'
  BY <1>1 DEF ClientInv, NoLeakedConnection, Forgettable
<1> QED
  BY <1>5, <1>6 DEF ClientInv

\* disconnect() opens no connection, and owes callbacks of lost ones only.
LEMMA DisconnectCloses ==
  ASSUME TypeOK, CallbacksOwed, NEW c \in Clients, DisconnectEnds(c)
  PROVE  CallbacksOwed' /\ \A d \in Clients : connected'[d] => connected[d]
<1>1. CASE UNCHANGED <<connected, cbOwed, link>>
  BY <1>1 DEF CallbacksOwed
<1>2. CASE /\ connected' = [connected EXCEPT ![c] = FALSE]
           /\ cbOwed' = IF connected[c] THEN cbOwed \cup {c} ELSE cbOwed
  BY <1>2 DEF TypeOK, CallbacksOwed
<1> QED
  BY <1>1, <1>2 DEF DisconnectEnds

\* The step of one coroutine leaves the other tasks where they are.
LEMMA MovesOne ==
  ASSUME TypeOK, NEW t \in Tasks, Moves(t)
  PROVE  \A u \in Tasks : u # t => pc'[u] = pc[u] /\ local'[u] = local[u]
  BY DEF TypeOK, Moves, Finish, Suspend

\* The exception handler disconnects the client it will forget.
LEMMA AttemptFailedSafe ==
  ASSUME TypeOK, NEW t \in Tasks, AttemptFailed(t)
  PROVE  client' = client /\ dropped \subseteq dropped' /\ AwaitSafe(t)'
<1>1. CASE client # NoClient
  BY <1>1 DEF AttemptFailed, Suspend, TypeOK, AwaitSafe, ClientDropped
<1>2. CASE client = NoClient
  BY <1>2 DEF AttemptFailed, Finish, TypeOK, AwaitSafe
<1> QED
  BY <1>1, <1>2

\* establish_connection replaces a client that is down: the lock keeps every
\* other attempt out of the awaits in which it could have connected one.
LEMMA EstablishedSafe ==
  ASSUME TypeOK, TaskInv, ClientInv, NEW t \in Tasks, NEW c \in Clients,
         Established(t, c)
  PROVE  ClientInv'
<1>1. /\ pc[t] = "establish" /\ lock = t /\ phase = "loaded"
      /\ phase' = phase /\ ~IsConnected /\ c \notin cbOwed
  BY RunnerIsCurrent
     DEF Established, TaskInv, LockHeld, LockedAwaits, Live, ClientInv,
         OverwriteSafe, AwaitSafe, Unused
<1>2. CallbacksOwed'
  BY <1>1 DEF Established, TypeOK, ClientInv, CallbacksOwed
<1>3. /\ pc'[t] = "notify"
      /\ \A u \in Tasks : u # t => pc'[u] \notin LockedAwaits
  BY <1>1 DEF Established, Suspend, TypeOK, TaskInv, LockHeld
<1>4. OverwriteSafe'
  BY <1>1, <1>3 DEF OverwriteSafe, AwaitSafe, LockedAwaits
<1>5. ASSUME NEW d \in Clients, connected'[d] PROVE d = client' \/ d \in dropped'
  <2>1. CASE d # c
    BY <1>1, <1>5, <2>1
       DEF Established, TypeOK, IsConnected, ClientInv, NoLeakedConnection
  <2> QED
    BY <2>1 DEF Established
<1> QED
  BY <1>2, <1>4, <1>5 DEF ClientInv, NoLeakedConnection

\* Every other step of an attempt keeps ClientInv.
LEMMA AttemptKeepsClients ==
  ASSUME TypeOK, TaskInv, ClientInv, NEW t \in Tasks, TaskStep(t)
  PROVE  ClientInv'
<1>1. CASE Cancelled(t)
  <2>1. /\ \A u \in Tasks : \/ pc'[u] = pc[u] /\ local'[u] = local[u]
                            \/ pc'[u] = "done"
        /\ UNCHANGED <<phase, client, connected, cbOwed, dropped>>
    BY <1>1 DEF Cancelled, TypeOK, deviceVars, bleVars
  <2> QED
    BY <2>1, ClientKept DEF ClientInv, CallbacksOwed, LockedAwaits
<1>2. ASSUME NEW c \in Clients, Established(t, c) PROVE ClientInv'
  BY <1>2, EstablishedSafe
<1> SUFFICES ASSUME ~Cancelled(t) PROVE ClientInv'
  BY <1>1
<1>3. /\ Moves(t) /\ phase' = phase
      /\ \A u \in Tasks : u # t => pc'[u] = pc[u] /\ local'[u] = local[u]
  BY AttemptMoves, MovesOne DEF requestVars
<1>4. CallbacksOwed /\ AwaitSafe(t)
  BY DEF ClientInv, OverwriteSafe
<1>5. ASSUME /\ AwaitSafe(t)' /\ CallbacksOwed' /\ dropped \subseteq dropped'
             /\ \A c \in Clients : connected'[c] => connected[c]
             /\ client' = client \/ (client' = NoClient /\ Forgettable)
      PROVE  ClientInv'
  BY <1>3, <1>5, ClientKept
<1>6. ASSUME /\ AwaitSafe(t)' /\ dropped \subseteq dropped'
             /\ UNCHANGED <<client, connected, cbOwed>>
      PROVE  ClientInv'
  BY <1>4, <1>5, <1>6 DEF CallbacksOwed
<1>7. CASE Begin(t)
  <2>1. CASE Finish(t) /\ UNCHANGED dropped
    BY <1>6, <1>7, <2>1 DEF Begin, deviceVars, Finish, TypeOK, AwaitSafe
  <2>2. CASE Suspend(t, "dropStale", client) /\ dropped' = dropped \cup {client}
    BY <1>6, <1>7, <2>2 DEF Begin, deviceVars, Suspend, TypeOK, AwaitSafe
  <2>3. CASE ~IsConnected /\ Suspend(t, "establish", NoClient) /\ UNCHANGED dropped
    BY <1>6, <1>7, <2>3
       DEF Begin, deviceVars, Suspend, TypeOK, AwaitSafe, IsConnected
  <2> QED
    BY <1>7, <2>1, <2>2, <2>3 DEF Begin, Lookup
<1>8. CASE StaleDisconnected(t)
  <2>1. /\ local[t] \in Clients /\ client \in {local[t], NoClient}
        /\ local[t] \in dropped /\ client' = NoClient /\ dropped' = dropped
    BY <1>4, <1>8
       DEF StaleDisconnected, ForgetClient, AwaitSafe, TypeOK, ClientAwaits,
           LockedAwaits
  <2>2. CallbacksOwed' /\ \A d \in Clients : connected'[d] => connected[d]
    BY <1>4, <1>8, <2>1, DisconnectCloses DEF StaleDisconnected
  <2>3. AwaitSafe(t)'
    BY <1>8, <2>1 DEF StaleDisconnected, Lookup, Finish, Suspend, TypeOK,
                      AwaitSafe, IsConnected
  <2> QED
    BY <1>5, <2>1, <2>2, <2>3 DEF Forgettable
<1>9. CASE NotifyStarted(t)
  BY <1>6, <1>9 DEF NotifyStarted, Suspend, TypeOK, AwaitSafe, deviceVars,
                    bleVars
<1>10. ASSUME ReadySeen(t), UNCHANGED <<connected, cbOwed>> PROVE ClientInv'
  <2>1. CASE Finish(t) /\ UNCHANGED <<client, dropped>>
    BY <1>6, <1>10, <2>1 DEF Finish, TypeOK, AwaitSafe
  <2>2. CASE AttemptFailed(t)
    BY <1>6, <1>10, <2>2, AttemptFailedSafe
  <2> QED
    BY <1>10, <2>1, <2>2 DEF ReadySeen
<1>11. CASE RequestSent(t)
  <2>1. CASE Suspend(t, "waitReady", local[t]) /\ UNCHANGED <<client, dropped>>
    BY <1>6, <1>11, <2>1 DEF RequestSent, Suspend, TypeOK, AwaitSafe
  <2> QED
    BY <1>10, <1>11, <2>1 DEF RequestSent
<1>12. CASE ReadyWoken(t)
  BY <1>10, <1>12 DEF ReadyWoken
<1>13. CASE AttemptRaises(t)
  BY <1>6, <1>13, AttemptFailedSafe DEF AttemptRaises
<1>14. CASE CleanedUp(t)
  <2>1. local[t] \in Clients /\ ClientDropped /\ client' = NoClient
    BY <1>4, <1>14 DEF CleanedUp, AwaitSafe, TypeOK, ClientAwaits, LockedAwaits
  <2>2. CallbacksOwed' /\ \A d \in Clients : connected'[d] => connected[d]
    BY <1>4, <1>14, <2>1, DisconnectCloses DEF CleanedUp
  <2>3. AwaitSafe(t)' /\ dropped' = dropped
    BY <1>14 DEF CleanedUp, Finish, TypeOK, AwaitSafe
  <2> QED
    BY <1>5, <2>1, <2>2, <2>3 DEF Forgettable, ClientDropped
<1> QED
  BY <1>2, <1>7, <1>8, <1>9, <1>11, <1>12, <1>13, <1>14 DEF TaskStep

\* Every step keeps ClientInv.
LEMMA ClientInvStep ==
  TypeOK /\ TaskInv /\ ClientInv /\ [Next]_vars => ClientInv'
<1> SUFFICES ASSUME TypeOK, TaskInv, ClientInv, [Next]_vars PROVE ClientInv'
  OBVIOUS
<1>1. ASSUME UNCHANGED <<client, connected, cbOwed, dropped>>,
             phase' \in {phase, "loaded"},
             \A t \in Tasks : \/ pc'[t] = pc[t] /\ local'[t] = local[t]
                              \/ pc'[t] \notin LockedAwaits
      PROVE  ClientInv'
  BY <1>1, ClientKept DEF ClientInv, CallbacksOwed
<1>2. CASE Setup
  <2>1. client' = client
    BY <1>2 DEF Setup, ClientInv, OverwriteSafe
  <2>2. \A t \in Tasks : pc'[t] = pc[t] \/ pc'[t] \notin LockedAwaits
    BY <1>2 DEF Setup, StartTask, TypeOK, LockedAwaits
  <2> QED
    BY <1>1, <1>2, <2>1, <2>2 DEF Setup, bleVars
<1>3. CASE Stop \/ StopTaskEnded
  <2>1. UNCHANGED <<client, connected, cbOwed, pc, local>>
    BY <1>3 DEF Stop, StopTaskEnded, taskVars
  <2>2. dropped \subseteq dropped'
    BY <1>3 DEF Stop, StopTaskEnded, StopDisconnect
  <2>3. \/ phase' \in {phase, "stopAwait"}
        \/ phase' = "stopDisconnect" /\ ClientDropped'
        \/ phase' = "unloaded" /\ client' = NoClient
    BY <1>3 DEF Stop, StopTaskEnded, StopDisconnect, ClientDropped
  <2> QED
    BY <2>1, <2>2, <2>3, ClientKept DEF ClientInv, CallbacksOwed
<1>4. CASE StopDisconnected
  <2>1. ClientDropped /\ client \in Clients \cup {NoClient}
    BY <1>4 DEF StopDisconnected, ClientInv, OverwriteSafe, TypeOK
  <2>2. CallbacksOwed' /\ \A d \in Clients : connected'[d] => connected[d]
    <3>1. CASE client # NoClient
      BY <1>4, <2>1, <3>1, DisconnectCloses DEF StopDisconnected, ClientInv
    <3>2. CASE client = NoClient
      BY <1>4, <3>2 DEF StopDisconnected, ClientInv, CallbacksOwed
    <3> QED
      BY <3>1, <3>2
  <2> QED
    BY <1>4, <2>1, <2>2, ClientKept
       DEF StopDisconnected, taskVars, ClientDropped, Forgettable
<1>5. CASE Advertisement
  <2>1. \A t \in Tasks : pc'[t] = pc[t] \/ pc'[t] \notin LockedAwaits
    BY <1>5 DEF Advertisement, Schedule, StartTask, TypeOK, LockedAwaits
  <2> QED
    BY <1>1, <1>5, <2>1 DEF Advertisement, bleVars
<1>6. CASE LinkLost
  BY <1>1, <1>6 DEF LinkLost, deviceVars, taskVars
<1>7. ASSUME NEW t \in Tasks, TaskStep(t) PROVE ClientInv'
  BY <1>7, AttemptKeepsClients
<1>8. ASSUME NEW t \in Tasks, TaskDone(t) PROVE ClientInv'
  <2>1. \A u \in Tasks : pc'[u] = pc[u] \/ pc'[u] \notin LockedAwaits
    BY <1>8 DEF TaskDone, StartTask, TypeOK, LockedAwaits
  <2> QED
    BY <1>1, <1>8, <2>1 DEF TaskDone, bleVars
<1>9. ASSUME NEW c \in Clients, ClientStep(c) PROVE ClientInv'
  <2>1. CASE Disconnected(c)
    <3>1. ~connected'[c] /\ CallbacksOwed'
      BY <2>1 DEF Disconnected, ClientInv, CallbacksOwed
    <3> QED
      BY <2>1, <3>1, ClientKept
         DEF Disconnected, ForgetClient, Forgettable, taskVars
  <2>2. CASE SessionReady(c)
    BY <1>1, <2>2 DEF SessionReady, deviceVars, taskVars, bleVars
  <2>3. CASE SessionFails(c)
    BY <2>3, ClientKept
       DEF SessionFails, deviceVars, taskVars, ClientInv, CallbacksOwed
  <2>4. CASE FailureClosed(c)
    BY <2>4, ClientKept, DisconnectCloses
       DEF FailureClosed, deviceVars, taskVars, ClientInv
  <2>5. CASE LossNoticed(c)
    <3>1. CallbacksOwed' /\ \A d \in Clients : connected'[d] => connected[d]
      BY <2>5 DEF LossNoticed, TypeOK, ClientInv, CallbacksOwed
    <3> QED
      BY <2>5, <3>1, ClientKept DEF LossNoticed, deviceVars, taskVars
  <2> QED
    BY <1>9, <2>1, <2>2, <2>3, <2>4, <2>5 DEF ClientStep
<1>10. CASE UNCHANGED vars
  BY <1>1, <1>10 DEF vars, deviceVars, taskVars, bleVars
<1> QED
  BY <1>2, <1>3, <1>4, <1>5, <1>6, <1>7, <1>8, <1>9, <1>10 DEF Next, EntryStep

-----------------------------------------------------------------------------
(* The theorems *)

\* IInv is inductive: it holds at first, and every step of the device, of its
\* tasks and of the Bluetooth stack keeps it.
THEOREM InductiveInvariant == Spec => []IInv
<1>1. Init => IInv
  BY TypeInit
     DEF Init, IInv, AttemptsKnown, CancelledByStop, TaskKnown, Live, stopping,
         NoForgottenAdvertisement, LockHeld, LockedAwaits, CallbacksOwed,
         OverwriteSafe, AwaitSafe, NoLeakedConnection
<1>2. IInv /\ [Next]_vars => IInv'
  BY TypeStep, TaskInvStep, ClientInvStep DEF IInv, TaskInv, ClientInv
<1> QED
  BY <1>1, <1>2, PTL DEF Spec

\* At most one connection attempt is alive at any time: a second one would
\* find self._client overwritten after its await.
THEOREM SingleFlightHolds == Spec => []SingleFlight
<1>1. IInv => SingleFlight
  BY DEF IInv, SingleFlight, AttemptsKnown, CancelledByStop, TaskKnown,
         stopping, TypeOK
<1> QED
  BY <1>1, InductiveInvariant, PTL

\* A request remembered during an attempt always has a task whose done
\* callback will serve it.
THEOREM AdvertisementsRemembered == Spec => []NoForgottenAdvertisement
<1>1. IInv => NoForgottenAdvertisement
  BY DEF IInv
<1> QED
  BY <1>1, InductiveInvariant, PTL

\* A connected client is the one the device holds, or disconnect() was called
\* on it: no path of async_connect or async_stop drops an open connection.
THEOREM ConnectionsOwned == Spec => []NoLeakedConnection
<1>1. IInv => NoLeakedConnection
  BY DEF IInv
<1> QED
  BY <1>1, InductiveInvariant, PTL

\* When unloading has returned, no client is held and no attempt is alive.
THEOREM UnloadLeavesNothing == Spec => []UnloadedIsQuiet
<1>1. IInv => UnloadedIsQuiet
  BY DEF IInv, UnloadedIsQuiet, AttemptsKnown, CancelledByStop, TaskKnown,
         OverwriteSafe, stopping, TypeOK
<1> QED
  BY <1>1, InductiveInvariant, PTL
=============================================================================
