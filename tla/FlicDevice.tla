------------------------------ MODULE FlicDevice ------------------------------
(***************************************************************************)
(* The connection lifecycle of one paired button: class FlicDevice of      *)
(* custom_components/flic_ble/runtime.py with the setup and unload of its  *)
(* config entry (custom_components/flic_ble/__init__.py).                  *)
(*                                                                         *)
(* Everything runs on one asyncio event loop, so an action is the code     *)
(* between two suspension points.  The control state of a connect task is  *)
(* the await it is suspended in (pc).  Bluetooth clients are drawn from    *)
(* Clients; a client that nothing refers to any more may be handed out     *)
(* again.  The handshake of a client's session is abstracted to its        *)
(* outcome here; module FlicSession has the detail.                        *)
(***************************************************************************)
CONSTANTS
    Clients,    \* BLE client objects returned by establish_connection
    Tasks,      \* asyncio tasks that run async_connect
    NoClient,   \* self._client is None
    NoTask      \* self._connect_task is None, or a lock nobody holds

ASSUME NoClientAssumption == NoClient \notin Clients
ASSUME NoTaskAssumption == NoTask \notin Tasks

VARIABLES
    phase,        \* where the config entry is between setup and unload
    available,    \* self.available
    client,       \* self._client
    connectTask,  \* self._connect_task
    pending,      \* self._connect_pending
    forcePending, \* self._force_reconnect_pending
    lock,         \* the holder of self._connect_lock
    pc,           \* the await each task is suspended in
    force,        \* the force_reconnect argument of each task
    local,        \* the client each task holds in a local variable
    cancelling,   \* tasks whose cancellation is requested, not yet delivered
    connected,    \* client.is_connected, as the Bluetooth stack reports it
    cbOwed,       \* clients whose disconnected callback has not run yet
    link,         \* the client that has the physical link to the button
    dropped,      \* clients on which disconnect() has been called
    session,      \* outcome of each client's session so far
    closing       \* clients a failed notification is disconnecting

deviceVars == <<phase, available, client, connectTask, pending, forcePending>>
taskVars == <<lock, pc, force, local, cancelling>>
bleVars == <<connected, cbOwed, link, dropped>>
sessionVars == <<session, closing>>
vars == <<deviceVars, taskVars, bleVars, sessionVars>>

Phases == {"unloaded", "loaded", "stopAwait", "stopDisconnect"}

\* Suspension points at which a task holds the connect lock.
LockedAwaits == {"dropStale", "establish", "notify", "sendRequest",
                 "waitReady", "cleanup"}
\* Suspension points inside _async_establish_session.
AttemptAwaits == {"establish", "notify", "sendRequest", "waitReady"}

\* Suspension points at which a local variable holds a client.
ClientAwaits == LockedAwaits \ {"establish"}

\* The domains of the variables; a task never awaits a method of a client that
\* is None (the "if self._client" tests of runtime.py).
TypeOK ==
    /\ phase \in Phases
    /\ available \in BOOLEAN
    /\ client \in Clients \cup {NoClient}
    /\ connectTask \in Tasks \cup {NoTask}
    /\ pending \in BOOLEAN
    /\ forcePending \in BOOLEAN
    /\ lock \in Tasks \cup {NoTask}
    /\ pc \in [Tasks -> LockedAwaits \cup {"free", "created", "done"}]
    /\ force \in [Tasks -> BOOLEAN]
    /\ local \in [Tasks -> Clients \cup {NoClient}]
    /\ cancelling \in SUBSET Tasks
    /\ connected \in [Clients -> BOOLEAN]
    /\ cbOwed \in SUBSET Clients
    /\ link \in Clients \cup {NoClient}
    /\ dropped \in SUBSET Clients
    /\ session \in [Clients -> {"idle", "waiting", "ready", "failed"}]
    /\ closing \in SUBSET Clients
    /\ \A t \in Tasks : pc[t] \in ClientAwaits => local[t] \in Clients

Init ==
    /\ phase = "unloaded"
    /\ available = FALSE
    /\ client = NoClient
    /\ connectTask = NoTask
    /\ pending = FALSE
    /\ forcePending = FALSE
    /\ lock = NoTask
    /\ pc = [t \in Tasks |-> "free"]
    /\ force = [t \in Tasks |-> FALSE]
    /\ local = [t \in Tasks |-> NoClient]
    /\ cancelling = {}
    /\ connected = [c \in Clients |-> FALSE]
    /\ cbOwed = {}
    /\ link = NoClient
    /\ dropped = {}
    /\ session = [c \in Clients |-> "idle"]
    /\ closing = {}

-----------------------------------------------------------------------------
(* Helpers *)

\* self._stopping.
stopping == phase # "loaded"

\* The task exists and task.done() is false.
Live(t) == pc[t] \notin {"free", "done"}

\* A plausible bug: _schedule_connect does not look at the running task.
MutBusyIgnored == FALSE

\* The guard of _schedule_connect: an attempt is already under way.
Busy == connectTask # NoTask /\ Live(connectTask)

\* "client and client.is_connected" for the client in self._client.
IsConnected == client # NoClient /\ connected[client]

\* Nothing refers to the client object, so it may stand for a new one.
Unused(c) ==
    /\ ~connected[c]
    /\ c \notin cbOwed \cup closing
    /\ c # client
    /\ c # link
    /\ \A t \in Tasks : local[t] # c

\* hass.async_create_task(self.async_connect(force_reconnect=f)).
StartTask(f, pcs) ==
    \E t \in Tasks :
        /\ pcs[t] = "free"
        /\ pc' = [pcs EXCEPT ![t] = "created"]
        /\ force' = [force EXCEPT ![t] = f]
        /\ connectTask' = t

\* _schedule_connect: remember the request while an attempt runs, else start
\* one.  It returns at once when the device is stopping.
Schedule(f) ==
    /\ ~stopping
    /\ \/ /\ Busy
          /\ pending' = TRUE
          /\ forcePending' = (forcePending \/ f)
          /\ UNCHANGED <<connectTask, pc, force>>
       \/ /\ ~Busy
          /\ StartTask(f, pc)
          /\ UNCHANGED <<pending, forcePending>>

\* client.disconnect() on c ends, returning or raising; the callers suppress
\* the exception.  When it raises the client may stay connected.
DisconnectEnds(c) ==
    \/ /\ connected' = [connected EXCEPT ![c] = FALSE]
       /\ cbOwed' = IF connected[c] THEN cbOwed \cup {c} ELSE cbOwed
       /\ link' = IF link = c THEN NoClient ELSE link
    \/ UNCHANGED <<connected, cbOwed, link>>

\* A plausible bug: the lock is taken without "async with" and not released.
MutFinishKeepsLock(t) ==
    /\ pc' = [pc EXCEPT ![t] = "done"]
    /\ local' = [local EXCEPT ![t] = NoClient]
    /\ lock' = t

\* The coroutine returns: the lock is released, the done callback is owed.
Finish(t) ==
    /\ pc' = [pc EXCEPT ![t] = "done"]
    /\ local' = [local EXCEPT ![t] = NoClient]
    /\ lock' = NoTask

\* The coroutine suspends in await a, holding the lock and client c.
Suspend(t, a, c) ==
    /\ pc' = [pc EXCEPT ![t] = a]
    /\ local' = [local EXCEPT ![t] = c]
    /\ lock' = t

\* Plausible bugs: the clients are not compared, or the wrong way round.
MutForgetAny(c) == client' = NoClient /\ available' = FALSE
MutForgetOther(c) ==
    IF client # c THEN client' = NoClient /\ available' = FALSE
                  ELSE UNCHANGED <<client, available>>

\* A client that is gone is forgotten unless it was replaced.
ForgetClient(c) ==
    IF client = c THEN client' = NoClient /\ available' = FALSE
                  ELSE UNCHANGED <<client, available>>

\* The device lookup: no connectable adapter sees the button and the attempt
\* is over, or establish_connection is awaited.
Lookup(t) == Finish(t) \/ Suspend(t, "establish", NoClient)

\* A plausible bug: the handler disconnects without testing self._client.
MutAttemptFailedUntested(t) ==
    /\ Suspend(t, "cleanup", client)
    /\ dropped' = dropped \cup ({client} \ {NoClient})
    /\ UNCHANGED <<client, available>>

\* The handler "except Exception" of async_connect.
AttemptFailed(t) ==
    \/ /\ client # NoClient
       /\ Suspend(t, "cleanup", client)
       /\ dropped' = dropped \cup {client}
       /\ UNCHANGED <<client, available>>
    \/ /\ client = NoClient
       /\ available' = FALSE
       /\ Finish(t)
       /\ UNCHANGED <<client, dropped>>

\* The tail of _async_establish_session, once session.ready is set.
ReadySeen(t) ==
    \/ /\ session[local[t]] = "ready"
       /\ available' = TRUE
       /\ Finish(t)
       /\ UNCHANGED <<client, dropped>>
    \/ /\ session[local[t]] = "failed"
       /\ AttemptFailed(t)

-----------------------------------------------------------------------------
(* The config entry *)

\* async_setup_entry: a new FlicDevice; async_start schedules an attempt when
\* the button is already known to the Bluetooth stack.
Setup ==
    /\ phase = "unloaded"
    /\ phase' = "loaded"
    /\ available' = FALSE
    /\ client' = NoClient
    /\ pending' = FALSE
    /\ forcePending' = FALSE
    /\ lock' = NoTask
    /\ \/ StartTask(FALSE, pc)
       \/ connectTask' = NoTask /\ UNCHANGED <<pc, force>>
    /\ UNCHANGED <<local, cancelling, bleVars, sessionVars>>

\* The tail of async_stop: disconnect the client if there is one.
StopDisconnect ==
    \/ /\ client # NoClient
       /\ phase' = "stopDisconnect"
       /\ dropped' = dropped \cup {client}
    \/ /\ client = NoClient
       /\ phase' = "unloaded"
       /\ UNCHANGED dropped

\* async_unload_entry calls async_stop: forget the task and the pending
\* request, then cancel a running attempt and wait for it.
Stop ==
    /\ phase = "loaded"
    /\ connectTask' = NoTask
    /\ pending' = FALSE
    /\ forcePending' = FALSE
    /\ \/ /\ Busy
          /\ cancelling' = cancelling \cup {connectTask}
          /\ phase' = "stopAwait"
          /\ UNCHANGED dropped
       \/ /\ ~Busy
          /\ StopDisconnect
          /\ UNCHANGED cancelling
    /\ UNCHANGED <<available, client, lock, pc, force, local,
                   connected, cbOwed, link, sessionVars>>

\* A plausible bug: async_stop cancels the attempt and does not wait for it.
MutCancelledAtOnce == TRUE

\* The cancelled attempt has ended.
CancelledEnded == cancelling = {}

\* "await connect_task" in async_stop returns.
StopTaskEnded ==
    /\ phase = "stopAwait"
    /\ CancelledEnded
    /\ StopDisconnect
    /\ UNCHANGED <<available, client, connectTask, pending, forcePending,
                   taskVars, connected, cbOwed, link, sessionVars>>

\* A plausible bug: async_stop waits for the disconnected callback instead.
MutStopAwaitsCallback ==
    /\ phase = "stopDisconnect"
    /\ client = NoClient
    /\ phase' = "unloaded"
    /\ UNCHANGED <<available, client, connectTask, pending, forcePending,
                   taskVars, bleVars, sessionVars>>

\* "await self._client.disconnect()" in async_stop ends.
StopDisconnected ==
    /\ phase = "stopDisconnect"
    /\ IF client # NoClient THEN DisconnectEnds(client)
                            ELSE UNCHANGED <<connected, cbOwed, link>>
    /\ client' = NoClient
    /\ phase' = "unloaded"
    /\ UNCHANGED <<available, connectTask, pending, forcePending, taskVars,
                   dropped, sessionVars>>

-----------------------------------------------------------------------------
(* Advertisements and the connect task *)

\* _advertisement: a button without a link advertises.
Advertisement ==
    /\ link = NoClient
    /\ Schedule(available /\ IsConnected)
    /\ UNCHANGED <<phase, available, client, lock, local, cancelling, bleVars,
                   sessionVars>>

\* async_connect from its start to its first await.
Begin(t) ==
    /\ pc[t] = "created" /\ t \notin cancelling
    /\ lock = NoTask
    /\ \/ /\ stopping \/ (IsConnected /\ ~force[t])
          /\ Finish(t)
          /\ UNCHANGED dropped
       \/ /\ ~stopping /\ IsConnected /\ force[t]
          /\ Suspend(t, "dropStale", client)
          /\ dropped' = dropped \cup {client}
       \/ /\ ~stopping /\ ~IsConnected
          /\ Lookup(t)
          /\ UNCHANGED dropped
    /\ UNCHANGED <<deviceVars, force, cancelling, connected, cbOwed, link,
                   sessionVars>>

\* "await current_client.disconnect()" ends; the client is forgotten unless
\* its callback did so already.
StaleDisconnected(t) ==
    /\ pc[t] = "dropStale" /\ t \notin cancelling
    /\ DisconnectEnds(local[t])
    /\ ForgetClient(local[t])
    /\ Lookup(t)
    /\ UNCHANGED <<phase, connectTask, pending, forcePending, force,
                   cancelling, dropped, sessionVars>>

\* establish_connection returns a client: the button had no link.
Established(t, c) ==
    /\ pc[t] = "establish" /\ t \notin cancelling
    /\ link = NoClient
    /\ Unused(c)
    /\ connected' = [connected EXCEPT ![c] = TRUE]
    /\ link' = c
    /\ dropped' = dropped \ {c}
    /\ session' = [session EXCEPT ![c] = "idle"]
    /\ client' = c
    /\ Suspend(t, "notify", c)
    /\ UNCHANGED <<phase, available, connectTask, pending, forcePending,
                   force, cancelling, cbOwed, closing>>

\* start_notify returns; session.start() enters its wait state and sends.  A
\* failure recorded by a notification that came before stays recorded.
NotifyStarted(t) ==
    /\ pc[t] = "notify" /\ t \notin cancelling
    /\ session' = [session EXCEPT ![local[t]] =
                     IF @ = "idle" THEN "waiting" ELSE @]
    /\ Suspend(t, "sendRequest", local[t])
    /\ UNCHANGED <<deviceVars, force, cancelling, bleVars, closing>>

\* session.start() returns; session.ready may be set by then.
RequestSent(t) ==
    /\ pc[t] = "sendRequest" /\ t \notin cancelling
    /\ \/ /\ session[local[t]] = "waiting"
          /\ Suspend(t, "waitReady", local[t])
          /\ UNCHANGED <<client, available, dropped>>
       \/ ReadySeen(t)
    /\ UNCHANGED <<phase, connectTask, pending, forcePending, force,
                   cancelling, connected, cbOwed, link, sessionVars>>

\* The task resumes after session.ready was set.
ReadyWoken(t) ==
    /\ pc[t] = "waitReady" /\ t \notin cancelling
    /\ ReadySeen(t)
    /\ UNCHANGED <<phase, connectTask, pending, forcePending, force,
                   cancelling, connected, cbOwed, link, sessionVars>>

\* An await of the attempt raises, or one of the two timeouts expires: also
\* when session.ready has been set but the task has not resumed yet.
AttemptRaises(t) ==
    /\ pc[t] \in AttemptAwaits /\ t \notin cancelling
    /\ AttemptFailed(t)
    /\ UNCHANGED <<phase, connectTask, pending, forcePending, force,
                   cancelling, connected, cbOwed, link, sessionVars>>

\* "await self._client.disconnect()" of the exception handler ends.
CleanedUp(t) ==
    /\ pc[t] = "cleanup" /\ t \notin cancelling
    /\ DisconnectEnds(local[t])
    /\ client' = NoClient
    /\ available' = FALSE
    /\ Finish(t)
    /\ UNCHANGED <<phase, connectTask, pending, forcePending, force,
                   cancelling, dropped, sessionVars>>

\* CancelledError reaches the task: no handler of async_connect catches it.
Cancelled(t) ==
    /\ t \in cancelling
    /\ cancelling' = cancelling \ {t}
    /\ pc' = [pc EXCEPT ![t] = "done"]
    /\ local' = [local EXCEPT ![t] = NoClient]
    /\ lock' = IF lock = t THEN NoTask ELSE lock
    /\ UNCHANGED <<deviceVars, force, bleVars, sessionVars>>

\* A plausible bug: the done callback forgets the task, not the request.
MutTaskDoneForgets(t) ==
    /\ pc[t] = "done"
    /\ pc' = [pc EXCEPT ![t] = "free"]
    /\ connectTask' = IF connectTask = t THEN NoTask ELSE connectTask
    /\ UNCHANGED <<phase, available, client, pending, forcePending, force,
                   lock, local, cancelling, bleVars, sessionVars>>

\* _connect_task_done: run the remembered request.  A callback of a task that
\* was replaced or stopped does nothing.
TaskDone(t) ==
    /\ pc[t] = "done"
    /\ LET pcs == [pc EXCEPT ![t] = "free"] IN
       \/ /\ connectTask = t /\ pending /\ ~stopping
          /\ pending' = FALSE
          /\ forcePending' = FALSE
          /\ StartTask(forcePending, pcs)
       \/ /\ connectTask = t /\ ~(pending /\ ~stopping)
          /\ connectTask' = NoTask
          /\ pc' = pcs
          /\ UNCHANGED <<pending, forcePending, force>>
       \/ /\ connectTask # t
          /\ pc' = pcs
          /\ UNCHANGED <<connectTask, pending, forcePending, force>>
    /\ UNCHANGED <<phase, available, client, lock, local, cancelling, bleVars,
                   sessionVars>>

-----------------------------------------------------------------------------
(* Callbacks and the Bluetooth stack *)

\* The disconnected callback of one connection; it ignores replaced clients.
Disconnected(c) ==
    /\ c \in cbOwed
    /\ cbOwed' = cbOwed \ {c}
    /\ ForgetClient(c)
    /\ UNCHANGED <<phase, connectTask, pending, forcePending, taskVars,
                   connected, link, dropped, sessionVars>>

\* A notification completes the handshake: session.ready is set.  It may have
\* been queued when the connection went down.
SessionReady(c) ==
    /\ ~Unused(c)
    /\ session[c] = "waiting"
    /\ session' = [session EXCEPT ![c] = "ready"]
    /\ UNCHANGED <<deviceVars, taskVars, bleVars, closing>>

\* _process_notification catches a failure of the session and disconnects the
\* client if it is still the current one.  Notifications are handled from the
\* subscription on, and the queued ones even after the connection is gone.
SessionFails(c) ==
    /\ ~Unused(c)
    /\ session' = [session EXCEPT ![c] = "failed"]
    /\ \/ /\ client = c
          /\ closing' = closing \cup {c}
          /\ dropped' = dropped \cup {c}
       \/ /\ client # c
          /\ UNCHANGED <<closing, dropped>>
    /\ UNCHANGED <<deviceVars, taskVars, connected, cbOwed, link>>

\* The disconnect() of a failed notification ends.
FailureClosed(c) ==
    /\ c \in closing
    /\ closing' = closing \ {c}
    /\ DisconnectEnds(c)
    /\ UNCHANGED <<deviceVars, taskVars, dropped, session>>

\* The button goes out of range or sleeps: the physical link is gone, and the
\* stack has not noticed yet.
LinkLost ==
    /\ link # NoClient
    /\ link' = NoClient
    /\ UNCHANGED <<deviceVars, taskVars, connected, cbOwed, dropped,
                   sessionVars>>

\* The stack notices a lost link.
LossNoticed(c) ==
    /\ connected[c] /\ link # c
    /\ connected' = [connected EXCEPT ![c] = FALSE]
    /\ cbOwed' = cbOwed \cup {c}
    /\ UNCHANGED <<deviceVars, taskVars, link, dropped, sessionVars>>

-----------------------------------------------------------------------------
(* The specification *)

\* The continuations the event loop runs for one connect task.
TaskStep(t) ==
    \/ Begin(t)
    \/ StaleDisconnected(t)
    \/ \E c \in Clients : Established(t, c)
    \/ NotifyStarted(t)
    \/ RequestSent(t)
    \/ ReadyWoken(t)
    \/ AttemptRaises(t)
    \/ CleanedUp(t)
    \/ Cancelled(t)

\* Setup, unload, and the continuations of async_stop.
EntryStep == Setup \/ Stop \/ StopTaskEnded \/ StopDisconnected

\* What the Bluetooth stack and the session do to one client.
ClientStep(c) ==
    \/ Disconnected(c)
    \/ SessionReady(c)
    \/ SessionFails(c)
    \/ FailureClosed(c)
    \/ LossNoticed(c)

Next ==
    \/ EntryStep
    \/ Advertisement
    \/ LinkLost
    \/ \E t \in Tasks : TaskStep(t) \/ TaskDone(t)
    \/ \E c \in Clients : ClientStep(c)

Spec == Init /\ [][Next]_vars

\* The event loop runs what is ready, every await of an attempt ends (the
\* awaits of the session have timeouts, disconnect() ends by contract of the
\* Bluetooth library), and the library delivers its disconnected callbacks.
\* Nothing is assumed of the button, the radio link or the user.
Fairness ==
    /\ \A t \in Tasks : WF_vars(TaskStep(t)) /\ WF_vars(TaskDone(t))
    /\ \A c \in Clients : WF_vars(Disconnected(c)) /\ WF_vars(FailureClosed(c))
    /\ WF_vars(StopTaskEnded \/ StopDisconnected)

FairSpec == Spec /\ Fairness

-----------------------------------------------------------------------------
(* Safety *)

\* At most one connection attempt is ever alive, across schedules, follow-ups,
\* done callbacks, unload and a later setup.  async_connect relies on it: its
\* exception handler and async_stop overwrite self._client after an await.
SingleFlight ==
    \A t, u \in Tasks : Live(t) /\ Live(u) => t = u

\* An advertisement heard during an attempt is not forgotten: as long as it is
\* remembered there is a task whose done callback will act on it, and the
\* device is loaded.  A remembered force never outlives the request it is for.
NoForgottenAdvertisement ==
    /\ pending => connectTask # NoTask /\ ~stopping
    /\ forcePending => pending

\* No connection is leaked: a client that is connected is the one the device
\* holds, or disconnect() was called on it (and raised, or is not over yet).
\* A leaked connection would hold a proxy slot and keep the button silent.
NoLeakedConnection ==
    \A c \in Clients : connected[c] => c = client \/ c \in dropped

\* When async_unload_entry has returned, nothing of the device is left that
\* could open a connection or use one.
UnloadedIsQuiet ==
    phase = "unloaded" => client = NoClient /\ \A t \in Tasks : ~Live(t)

(* The inductive invariant *)

\* A task that has not ended is the current one, or is being cancelled.
AttemptsKnown == \A t \in Tasks : Live(t) => connectTask = t \/ t \in cancelling

\* Cancellation belongs to unloading, and to at most one attempt.
CancelledByStop ==
    /\ \A t \in cancelling : Live(t) /\ phase = "stopAwait"
    /\ \A t, u \in cancelling : t = u

\* The current task exists, and there is none while the device stops.
TaskKnown ==
    /\ stopping => connectTask = NoTask
    /\ connectTask # NoTask => pc[connectTask] # "free"

\* The lock is held exactly from the first await of an attempt to its end.
LockHeld == \A t \in Tasks : pc[t] \in LockedAwaits <=> lock = t

\* A callback is owed for clients that went down only.
CallbacksOwed == \A c \in cbOwed : ~connected[c]

\* Before self._client is overwritten or reset it holds no connection that
\* disconnect() was not called on.
ClientDropped == client = NoClient \/ client \in dropped
AwaitSafe(t) ==
    /\ pc[t] = "dropStale" => client \in {local[t], NoClient}
                              /\ local[t] \in dropped
    /\ pc[t] = "establish" => ~IsConnected
    /\ pc[t] = "cleanup" => ClientDropped
OverwriteSafe ==
    /\ \A t \in Tasks : AwaitSafe(t)
    /\ phase = "stopDisconnect" => ClientDropped
    /\ phase = "unloaded" => client = NoClient

\* The invariant that every step preserves; the safety invariants above follow
\* from it.
IInv ==
    /\ TypeOK
    /\ AttemptsKnown
    /\ CancelledByStop
    /\ TaskKnown
    /\ NoForgottenAdvertisement
    /\ LockHeld
    /\ CallbacksOwed
    /\ OverwriteSafe
    /\ NoLeakedConnection

(* Liveness *)

\* A request remembered during an attempt leads to a fresh attempt, unless the
\* entry is unloaded first.
PendingServed ==
    pending ~> \/ stopping
               \/ connectTask # NoTask /\ pc[connectTask] = "created"

\* Every attempt ends: no interleaving leaves a task waiting for the lock or
\* for a session that will never be ready.
AttemptsEnd == \A t \in Tasks : Live(t) ~> ~Live(t)

\* Unloading terminates, whatever the attempt in progress was doing and
\* whether or not disconnect() raises.
StopCompletes == phase \in {"stopAwait", "stopDisconnect"} ~> phase = "unloaded"

\* A client the stack reports as disconnected does not stay self._client.
DeadClientForgotten ==
    \A c \in Clients : (client = c /\ ~connected[c]) ~> (client # c)

(* What comments and tests say of the device, and the code does not keep *)

\* tests/test_runtime.py asserts that a device whose client was dropped is not
\* available; the disconnected callback sets both together.
AvailableHasClient == available /\ ~stopping => client # NoClient

\* runtime.py: an advertisement means the button is physically disconnected,
\* so a forced reconnect replaces a client with stale link state.
ForcedDropIsStale ==
    [][\A t \in Tasks :
          pc[t] = "created" /\ pc'[t] = "dropStale" => link # client]_vars
=============================================================================
