# Verification of the Flic 2 integration

TLA+ models, model checks and proofs for `custom_components/flic_ble`, a Home
Assistant integration that keeps a Bluetooth LE session with each paired Flic
button and turns its notifications into Home Assistant events.

## The system

| Component | Code | State | Operations |
|---|---|---|---|
| Connection lifecycle | `runtime.py`, class `FlicDevice` | `_client`, `available`, `_connect_task`, `_connect_pending`, `_force_reconnect_pending`, `_connect_lock`, `_stopping` | advertisement callback, `_schedule_connect`, `_connect_task_done`, `async_connect`, `_async_establish_session`, disconnected callback, notification failure, `async_stop` |
| Config entry | `__init__.py` | the entry's runtime data | set up, unload, reload |
| Session protocol | `protocol.py`, class `FlicSession` | handshake state, `ready`, `pairing_complete`, `failure`, session key, the two signature counters, event counts, fragment buffer | `start`, `feed_gatt` and the handlers below it, `_send_packet`, `_send_signed`, `_verify_signed` |
| Notification tasks | `runtime.py:210-223`, `323-324` | the notification lock (runtime only) | one task per notification |
| Pairing | `runtime.py:291-339`, `config_flow.py` | the flow's step, the discovered button | `async_pair_device`, error mapping, entry creation |
| Event decoders | `protocol.py:159-463` | none (pure) | classic and Duo decoders, acknowledgement test |
| Cryptography | `protocol.py:315-412`, `650-778` | none (pure) | Chaskey signature, key derivation, certificate check |
| Event delivery, persistence | `runtime.py:234-272`, `event.py`, `sensor.py` | listeners, entry data | `_handle_event`, `_handle_state`, subscriptions |
| Entities, triggers, constants | `entity.py`, `device_trigger.py`, `const.py` | none | naming and registration |

How they interact. An advertisement, or the setup of the entry, schedules a
connect task; one that comes while a task runs is remembered and served by the
task's done callback. The task takes the lock, drops a stale client if it was
forced, awaits `establish_connection`, stores the client, subscribes to
notifications, starts a `FlicSession` and waits for `session.ready`. Every
notification becomes a task that feeds the session; the session answers with
GATT writes, calls the event and state callbacks, and reports failures by
raising and by waking its waiters. The Bluetooth library calls the
disconnected callback of a client at a time of its own. Unloading cancels the
connect task, waits for it and disconnects what is left.

What is hard. All of it runs on one event loop, so every `await` is a point at
which the other parties step: another advertisement, a notification, the
disconnected callback of an old client, the expiry of a timeout, unloading.
State read before an await is used after it; `disconnect()` may raise;
signature counters in both directions must move in the order in which packets
travel; packets are fragmented at small MTUs; other clients of the same button
share the characteristic. `PROJECT.json` lists each hazard at its line.

What makes each part correct.

* *Connection lifecycle*: one attempt at a time; a remembered advertisement is
  served; no open connection is lost; a dead client is forgotten; unloading
  ends and leaves nothing.
* *Session*: an honest button is never rejected and never rejects; waiters are
  woken with a decision; events are delivered once and in order, and before
  they are acknowledged; credentials are kept only when the button confirmed
  them; a session ends decided.
* *Event delivery*: the events of one boot of the button are handled from the
  first on and without a gap, none is forgotten by the button before it was
  handled, none is handled twice unless connections overlap or Home Assistant
  crashes, and a pressed button is served in the end.
* *Pairing*: an entry is created only with confirmed credentials and counters,
  once, every submitted form is answered, the link is released, and each
  failure is shown as what it is.
* *Decoders*: one event for each action of the user, an acknowledgement exactly
  when an action ends, and counts and times equal to the button's.
* *Chaskey*: the permutation and subkeys are the textbook's; different packets,
  counters and directions are absorbed differently.

## Modules

* `FlicDevice` — the connection lifecycle with setup and unload.
  `MCFlicDevice` has its symmetry set, `FlicDeviceProofs` its proofs.
* `FlicSession` — one session, its notification tasks and an external honest
  button. `MCFlicSession` has its set-ups and the packets of third parties.
  `FlicSessionInvariant` states what is invariably true beyond the properties;
  `FlicSessionProofs` has the proofs of its types, of the refinement and of its
  safety invariants. `FlicSessionOrder` states what is invariably true of the
  order and the numbers of the packets; `FlicSessionOrderProofs` proves it, and
  that events arrive in order.
* `SessionOutcome` — what a session promises its waiter: it starts once,
  becomes ready at most once, and a failure is final. `FlicSession` is shown to
  implement it (`ImplementsOutcome`), and `FlicDevice` uses sessions through it:
  its variable `session` takes these steps from one connection to the next.
* `EventDelivery` — the way of an event from the button to the listeners and
  the acknowledgement back, over several sessions, reloads, crashes of Home
  Assistant and reboots of the button. `MCEventDelivery` has its budgets,
  `EventDeliveryProofs` its proofs.
* `ReliableDelivery` — what the integration promises about events, which
  `EventDelivery` is shown to implement (`ImplementsDelivery`). The mapping is
  the identity on `pressed`, `handled` and `forgotten`.
* `Pairing` — `async_pair_device` and the config flow around it, for several
  flows about one button. `PairingProofs` has its proofs.
* `ButtonGestures` — what a user does with a button, the updates it is sent as
  and the events that are owed for it; used by the two decoder modules.
* `DuoEvents`, `ClassicEvents` — the decoders, fed by a button that fills
  notifications with updates wherever it likes.
* `ChaskeySignature`, `ChaskeyRounds` — what a signature absorbs; the
  permutation and the subkeys.
* `Framing` — packets of every length as fragments and bundles.
* `ProtocolFunctions` — composes instances of `DuoEvents`, `ClassicEvents`,
  `ChaskeySignature`, `ChaskeyRounds` and `Framing`; a behaviour exercises one of
  them, which `subject` names. `MCProtocolFunctions` has the ways a Duo is used in
  its run. `DecoderProofs` has the proofs about the two decoders, `ProtocolProofs`
  those about the other three.
* `DataInduction` — induction over numbers and folds, for these proofs.

How they compose. `FlicDevice` uses a session by its outcome, which
`SessionOutcome` states and `FlicSession` implements. `EventDelivery` takes
from `FlicSession` that events of one session are verified in order and handled
before they are acknowledged (`EventsInOrder`, `AckedWereDelivered`), and from
`FlicDevice` that attempts do not overlap but old sessions may have handlers
left. `Pairing` takes from `FlicSession` which failures each state allows.

### FlicDevice and the code

An action is the code between two awaits. `pc[t]` is the await a connect task
is suspended in: `created` (not started yet), `dropStale` (`runtime.py:132`),
`establish` (180), `notify` (225), `sendRequest` (226), `waitReady` (228),
`cleanup` (168), `done` (returned, the done callback has not run), `free` (no
task). Home Assistant's `async_create_task` starts a coroutine eagerly while the
test suite's replacement does not; the separate `created` state, which another
step may or may not follow, covers both.

| Action | Code |
|---|---|
| `Setup`, `Stop`, `StopTaskEnded`, `StopDisconnected` | `async_start`; `async_stop` up to each of its awaits |
| `Advertisement`, `TaskDone` | `_advertisement` with `_schedule_connect`; `_connect_task_done` with the follow-up |
| `Begin`, `StaleDisconnected`, `Established`, `NotifyStarted`, `RequestSent`, `ReadyWoken` | `async_connect` and `_async_establish_session`, await by await |
| `AttemptRaises`, `CleanedUp` | the `except Exception` handler, for failures and both timeouts |
| `Cancelled` | the `CancelledError` that no handler catches |
| `Disconnected`, `SessionReady`, `SessionFails`, `FailureClosed` | the disconnected callback; the outcome of the session; the disconnect of a failed notification |
| `LinkLost`, `LossNoticed` | the radio link and the stack's late view of it (external) |

`DisconnectEnds` is `disconnect()` with its exception suppressed: it closes the
connection and owes the callback, or raises and changes nothing. `connected` is
what `is_connected` says and `link` is the physical link; the two differ when
the stack has not noticed a loss, which is why the code forces reconnects. The
environment assumption about the button is the one of `runtime.py:72-73`: it
advertises only without a link. What a cancellation does inside
`establish_connection` is left to that library: it is assumed to close what it
opened. A client object that nothing refers to is reused for a new connection.

### FlicSession and the code

`current` is the coroutine the loop runs: it keeps the loop until it suspends
in `send_gatt` (it joins `writing`) or returns. `Feed` is `_defragment`; one
action per handler follows the order of the tests in `_handle_packet` and below.
Packets are records: opcode, logical connection, whether it is newly assigned,
the temporary id (`own` or `other`), a symbolic signature (key and counter),
the event count, whether events need an acknowledgement, and `fault`, the test
of the code the packet does not pass. A packet that exceeds the MTU of 23 is
two GATT values. `setup` says what the session is made for: `full` is a pairing,
`lock` the notification lock of the runtime (`runtime.py:210`), which
`async_pair_device` does not have, `duo` and `smallMtu` decide the length of
packets, `maxSigned` bounds what the button signs, and `honest` says that nobody
sends packets that pass for the button's. The event counters of a Duo's two
buttons are one counter.

The button (external, from how the code uses it) answers handshake requests,
signs with its own counter, and moves to `refused` if it receives a packet it
cannot verify, so that the sending side is checked too. A write may raise whether
or not its value went out and whether or not the link is lost; `failed` has the
coroutines whose value did not. It notifies single
events, two packets in one value, pings, battery levels and the end of the link.

### EventDelivery and the code

| Action | Code |
|---|---|
| `Setup`, `Subscribe` | `async_setup_entry` up to and after the forwarding of the platforms; `async_added_to_hass` of the event entity |
| `UnloadPlatforms`, `StopDevice` | `async_unload_platforms` (which may fail, and then `async_stop` is not called); `async_stop` |
| `Open` | an attempt that reaches the init request, with the counters of the entry |
| `Handle` (`HandleInit`, `HandleEvents`) | `feed_gatt` for an init response or events: `_handle_state` stores the counters, `_handle_event` fires, the acknowledgement is sent |
| `AckReturns`, `AckRaises`, `Close`, `Ignore` | the awaited write; `_process_notification` after a failure; a failed session ignoring packets |
| `Save`, `Crash` | Home Assistant's delayed write of the entry; its end without one (external) |
| `Press`, `ButtonInit`, `ButtonSends`, `AckArrives`, `LinkLost`, `Reboot` | the button and the link (external) |

`handled` is what reached `_handle_event` of the device, `heard` what a listener
was given; `left` is the rest of the budget of faults. A session that was made
by the `FlicDevice` before a reload (`current` FALSE) still stores its counters
and calls nobody. The two counters of a Duo are one. What is assumed of the
button: its init response carries the
count before the events it is going to send, which is the count of the request,
or what it forgot if that is higher, when the request names its boot, and what
it forgot otherwise; events it was not told to forget are sent again on the next
link. An init response without a boot id (`protocol.py:817`, 836) leaves the
session the boot of its request; here every response names the boot of the
button, which is the same thing unless the button has rebooted since and does
not say so.

### Pairing and the code

`step[f]` is the form a flow shows or the await it is suspended in:
`establish` (`runtime.py:303`), `startNotify` (325), `sendRequest` (326),
`waitComplete` (329), `waitReady` (330), `disconnect` (339). `Discovered`,
`UserStarts`, `UserChooses` and `Submit` are the steps of the config flow,
`Decided` and `Finally` the end of `async_pair_device`, `Disconnected` the
`except` clauses and the creation of the entry. `ErrorKey` and `TimeoutKey`
are the error keys the user sees. The session appears as its handshake state;
`Failures` lists what `FlicSession` may raise in each. What is assumed of the
flow manager: it refuses a second discovered flow, ends the other flows of an
entry's unique id, and drops the result of a flow that was closed meanwhile.
Once the outcome of an attempt is decided its session is frozen. The result it
shares with the flow is read after the disconnect (`config_flow.py:150-166`), but
what the session does meanwhile only replaces counters that were received, and
leaves credentials that were confirmed as they are.

### The decoders, Chaskey and framing

`Actions` of `ButtonGestures` is read off the cases the decoders tell apart: a
click that a timeout decides, a click decided at once, a hold, a double click,
and a double click whose second press is held. `Owed` is the promise of the
repository's README: swipes and holds without duplicate click events.
`DuoEvents.DecodeUpdate` is one turn of the loop of `decode_duo_button_events`;
the bitstream appears as the fields of an update and the number of bits they
take, which is what decides where the loop stops. `Notify` is the handler that
keeps counts, time and the queue flag between notifications. `Decode` offers the
loop one more update behind the last one, the zeros of the padding, which
`MorePayload` has to turn down; a payload that is read beyond its end raises and
leaves nothing behind. `ClassicEvents`
keeps the four encoded bits of an item as a number.

In `ChaskeySignature` the permutation is symbolic: a signature is what is
absorbed before each of its applications. `ChaskeyRounds` keeps the arithmetic
on words of six bits: rotations by half a word stay rotations by half a word,
the others are taken modulo the length, and `Carry` stands for 0x87.

`Framing` sends packets through `_send_packet` or, as only the button does,
several in a bundle, and reads them with `_defragment`, which stands for the
button's reassembly as well. `FlicSession` takes from it that fragments join.

## Runs

| Run | Question | Instance |
|---|---|---|
| `device_safety` | one attempt, no forgotten request, no leak, quiet after unload; the inductive invariant | 2 clients, 2 tasks, symmetric |
| `device_live` | requests served, attempts end, unloading ends, a dead client is forgotten | 1 client, 2 tasks |
| `session_safety` | signatures in step, delivery in order and before the acknowledgement, decided waiters, confirmed credentials; the refinement of `SessionOutcome`; the inductive invariant | 2 handlers, queue of 2, the set-ups below |
| `session_live` | quick verification and pairing are decided | 2 set-ups with fragments |
| `delivery_safety` | counters never run ahead of handled events, nothing is handled twice without a reason; the refinement of `ReliableDelivery`; the inductive invariant | 2 sessions, 2 boots, 2 presses, the budgets below |
| `delivery_live` | presses are handled in the end | 2 sessions, 2 presses, 1 loss |
| `pairing_flow` | links, entries and errors of concurrent flows; a submitted form is answered | 2 flows, 2 attempts |
| `protocol_functions` | the decoders, the signature, the permutation and the subkeys, fragments and bundles | see below |
| `device_available`, `device_forced`, `delivery_heard`, `pairing_timeout` | what comments and tests say and the code does not keep | see Findings |

Four runs choose among several small instances in the initial state, so that one
run answers one question: a set-up of `FlicSession` never changes during a
behaviour, a budget of `EventDelivery` only decreases, and a behaviour of
`ProtocolFunctions` exercises one function.

* `session_safety`: a reconnect of the runtime (lock, no fragments) and
  `async_pair_device` with a Duo (no lock, fragments), each with the traffic of
  another client, and five and four packets signed by the button; the same two with
  malformed and wrongly signed packets at any time, also before `start()`, and
  two signed packets. `session_live`: the two honest ones over fragments.
* `delivery_safety`: two presses and two of a crash, an unload and a loss, in
  every combination; one press in each boot with a crash, an unload and a reboot;
  and with `calm`, where a session opens only when the handlers of the earlier
  ones are done, a loss with a reboot or an unload, and all three with one press
  in each boot. `NothingRepeated` is about calm behaviours.
* `protocol_functions`: a Duo with one button used and swiped in one direction,
  6 updates, at most 5 in a notification; a Duo with two buttons, 4 updates, at
  most 3 in a notification; a round Flic, 8 updates; signatures of two packets of
  1 to 4 bytes in blocks of 2 with 2-bit counters; the permutation of 6-bit
  words, 256 inputs, 8 rounds; three packets of 1 to 6 bytes at MTUs that leave
  2, 3 and 7 bytes of a value.

Why the bounds are enough. Two tasks let a follow-up start while the previous
task's done callback is pending (or its cancellation is in progress), two
clients let a replaced client's callback arrive beside the current one; a third
of either adds no new relation, since every guard compares with the current task
or client, and the proofs lift the safety part to any number. `device_live` has
one client: a client that is replaced while connected still owes its callback
(`CallbacksOwed`, proved for any number), which finds another client or none. A
session needs five signed packets: response, init response and three events, so
that one can be verified while another handler is suspended in the
acknowledgement of the first and a third is on its way; four let two events be
acknowledged by handlers that overlap, the first with a write that raises. Two
handlers are two overlapping notifications. `MaxQueue` bounds only what the button
sends of its
own accord. Malformed packets fail the session at once: the response and the init
response bring it to every test that one of them can fail, the tests of events
behind the signature included. What they do beside genuine events is left to the
proofs, which bound neither.

Two sessions are the current one and one of an earlier connection with
handlers left; an older one behaves like the second. Two presses make a
notification that carries more than one event, an event that was handled and
not acknowledged, and one that was forgotten before the other. Calm behaviours
have no overlapping sessions because these may repeat events: the counter a new
session starts from was read while the old one had a handler left. The crash is
left out there for the same reason, since the entry on disk may be older than
what was handled. Two flows are the one that pairs and one that holds an older
look at the entries; a third has nobody to disagree with. Two attempts are one
that fails and one that succeeds, and a flow is the same before each of them. Six
updates of one button hold two actions, the first of which ends in the
notification that begins the second; counts jump by four, which changes the
width of their encoding. Packets up to twice the block length end in a padded
and in a full block.

Symmetry of clients, tasks, handlers and sessions is used in the safety runs
only.

Deadlock is checked for the device, which never stops: advertisements and
reloads go on. The delivery, pairing, decoder and Chaskey runs stop when the
bounds on presses, attempts, updates, packets or rounds are used up, and the
session runs have `CHECK_DEADLOCK FALSE`, because a failed session or a lost
connection is an end; `SessionDecided` says what must not be left undecided.

Fairness. `Fairness` of `FlicDevice`: the loop runs ready continuations
(`TaskStep`, `TaskDone`, the tail of `async_stop`), awaits of an attempt end
(the 75 s and 20 s timeouts; `disconnect()` has none, and its ending is assumed
of the library), and the library delivers its callback. Nothing is assumed of
the button, the link, advertisements or the user. `Fairness` of `FlicSession`:
ready coroutines run, writes return or raise (strongly fair: the loop takes what
is ready in turn, also while other clients' notifications keep it busy),
notifications are handled, and the button answers requests while connected; it
is not assumed to speak; when the write of a request fails, the caller of `start()`
disconnects (`runtime.py:165-168`, 338-339). `Fairness` of `EventDelivery`: handlers run, the write
of an acknowledgement returns or raises, a failed session is closed, a started
set-up or unload goes on, a running device without a link gets one (a button
with something to tell advertises, and `FlicDevice` serves advertisements:
`PendingServed`, `AttemptsEnd`), and a connected button answers and sends;
nothing is assumed of presses, crashes, losses, reboots, acknowledgements
arriving, and the user. `Fairness` of `Pairing`: each await ends, those of the
library by themselves and the waits by the 25 s timeout; nothing is assumed of
the button and the user.

### Findings

* `device_available` — the disconnected callback may run between
  `session.ready.set()` and the resumption of its waiter, which then sets
  `available` for a device whose client is `None` (`runtime.py:231`).
* `device_forced` — a force flag remembered while the forced attempt is already
  disconnecting the stale client outlives the reconnect: the follow-up drops
  the healthy new client (`runtime.py:99`, against the comment at 72-73).
* `delivery_heard` — the device connects before the event entity subscribes
  (`__init__.py:24`) and, on a reload, outlives the entity's listeners
  (`__init__.py:33-34`). An event handled in such a window is stored and
  acknowledged and fired to nobody, against `device_trigger.py:5-6` ("a press
  that was queued while the button slept and delivered on reconnect triggers
  reliably").
* `pairing_timeout` — the 25 s timeout may cancel a waiter whose event is
  already set; the handler (`runtime.py:331-332`) does not look at the session,
  so a decided pairing is reported as a button that "stopped responding"
  (`strings.json:23`) or "did not finish initializing" (`strings.json:24`).

One more disagreement needs no run: `entity.py:29` documents `available` as
"succeeded at least once", and the code resets it at each disconnect
(`runtime.py:156`).

Known limits that are no disagreement with a document: with unserialized
notifications (`async_pair_device`) an event that overtakes a suspended one
does fail the signature check, but only after `ready` is set
(`ReadyNotSpurious` holds); the window ends when pairing disconnects. Nor does
anything order their sends: if the write of one acknowledgement raises while the
link lasts, its counter is used up (`protocol.py:581`), another handler may send
the next one, and the button refuses it. `RefusesOnlyGaps` says that this is the
only case, and that the lock of the runtime excludes it. A packet of another client between
two fragments would be joined to them (`protocol.py:546-557` has no filter); that
the button keeps the fragments of a packet together is an assumption.

## Proofs

`FlicDeviceProofs`, for any sets of tasks and clients, from the two assumptions
that `NoClient` and `NoTask` are no members of them.

1. `TypeCorrect`: `TypeOK` is inductive by itself. Its last conjunct, that a
   task suspended in a method of a client holds one, needs the tests for `None`
   in the code.
2. `TaskInv` (attempts known, cancellation, known task, remembered request,
   lock) is inductive given `TypeOK`. `SingleFlight` is not: it needs that a
   live task is the current one or is being cancelled (`AttemptsKnown`), that
   only one cancellation is in progress and only while stopping
   (`CancelledByStop`), and that stopping has cleared the current task
   (`TaskKnown`). Every coroutine step is one *move* of one task
   (`AttemptMoves`), and a move by the current task keeps `TaskInv`
   (`MovesTaskInv`).
3. `ClientInv` (callbacks owed, safe overwrites, no leak) is inductive given the
   two. `NoLeakedConnection` is not: the code overwrites `_client` after four
   different awaits, so `OverwriteSafe` records what is known in each, and the
   lock (`LockHeld`) is what keeps another task from changing it meanwhile.
   `ClientKept` is the shared argument for every step that opens no connection,
   `EstablishedSafe` the one for the step that does.
4. `InductiveInvariant`, and from it `SingleFlightHolds`,
   `AdvertisementsRemembered`, `ConnectionsOwned` and `UnloadLeavesNothing`.

`EventDeliveryProofs`, for any set of sessions and any bounds on boots, presses
and faults, from the four assumptions on the constants (`NoSession` is no
session, there is a boot, the bound on presses is a number, the budgets are
records, and a calm one has no crash).

1. `TypeCorrect`: `TypeOK` is inductive by itself.
2. `InductiveInvariant`: `CountsAreHandled` is not inductive. A session takes
   over the count of an init response, so that count must be behind what was
   handled while it is in the queue (`NotesTrue`); the button computes it from
   what it was told to forget (`ForgottenHandled`), which it was told by an
   acknowledgement that was on its way (`AcksHandled`). Events may be stored
   only because they start where the session is when it comes to them
   (`Contiguous`), which the button knows of the session on its link
   (`LinkCurrent`), and then the handled events of a boot stay a prefix of the
   pressed ones (`HandledPrefix`), whatever older sessions have left in their
   queues. `HandledGrows` is the argument for handling events, `AppendedInv` the
   shared one for what the button sends, `LinkGone` the one for every way a link
   ends.
3. `CountsHandled` follows, and `Implementation`: handling events is `RHandle`
   by `HandledGrows`, an acknowledgement that arrives is `RForget` or a stutter,
   and every other step but a press is a stutter.
4. `DeliveryHolds`: `IInv` and `CalmInv` (together `DeliveryInv`) are inductive
   given `TypeOK`. `NothingRepeated` needs the other direction, that no count is
   *behind* what was handled. That is false of an overlapping session and of a
   disk copy that is read after a crash, hence the calm runs; those may lose
   links, fail acknowledgements, reload the entry and reboot the button as they
   like. The entry names every event of the boot that was handled (`Tells`), so
   does the session that waits for its init response, the init response that is
   on its way (`InitsTrue`), and what the button sent last; the notifications
   behind each other in the queue are in order (`Sequenced`), and only one
   session has a queue (`OneAtWork`). A boot that is still to come has no presses,
   so a reboot resets what must be told. `CalmKept` is the shared argument for
   steps that handle and send nothing, `CalmAppended` for what the button sends.
   `NothingTwice` follows.

`FlicSessionProofs`, for any coroutines, set-ups and stray packets: the
refinement.

1. `StepMoves`: as far as a waiter can tell, every step is one of four moves.
   The session starts (`StartMove`), fails for good (`FailMove`), becomes ready
   in a handshake state (`ReadyMove`), or keeps its outcome and only moves on in
   the handshake (`OtherMove`).
2. `StartsFirst`: before `start()` nothing is ready and no handshake is in
   progress. That is what makes the first step of a session its start.
3. `Implementation`: each move is a step of `SessionOutcome` or a stutter.

The same module, for any coroutines, set-ups, queue bound and packets of third
parties that `StrayAssumption` admits: types and safety. The assumption says what the certificate and the signatures are for, and no more: nobody but
the button can answer the first request of a pairing so that the answer passes
every test (address and temporary id under the certificate), and a packet that
is signed with the session key is one the button made or one that another test
rejects. In an honest set-up third-party packets belong to another client, whose
logical connection and temporary id are its own. The packets TLC is given
satisfy it.

1. `TypeCorrect`: `TypeOK` is inductive by itself.
2. `InvariantHolds`: `IInv` is inductive given `TypeOK`. None of the properties
   is: whether the button refuses a packet depends on what was written before,
   what was written on what the session believed, and that on what was notified.
   So the invariant follows the circle. `PacketsTrue`: a packet on its way to
   the session, in a queue, a handler or a buffer of fragments, tells the truth
   about how far the button is, because the button has not gone back since.
   `StateTrue`: a handshake state of the session is one its last request or the
   packet it trusted allows. `UplinkTrue`: before the button is open, nothing is
   on its way to it or exactly one request that it expects, whole or in pieces
   (`Sending`), whichever coroutine writes them; after that, unfragmented signed
   packets with consecutive counters (`InStep`). `EventsAscend`: later signatures are on later
   events, and those that the session has still to accept are later than the last
   delivered one, which is what an acknowledgement is for (`AcksTrue`).
   `NothingNew` is the argument for what arrives, `AcksSent` and `RequestSent`
   those for what is sent; there is a lemma for each action.
   A write that raises may have sent nothing, on a link that lasts. Of a request
   or a fragment it leaves the button waiting (`Stuck`); a signed packet leaves a
   gap in the counters, after which the lock lets nothing follow (`InStep`,
   `WritesTrue`), and only without it another handler may send (`Torn`).
3. `OnlyGapsAreRefused`, `DeliveredBeforeAcked`, `ReadyMeansDecided` and
   `CredentialsAreConfirmed` follow.

`FlicSessionOrderProofs`, on the same assumptions. What
they show of the events needs one more hypothesis, `KeySecret`: nobody but the
button signs packets of the session's logical connection. `StrayAssumption`
admits malformed packets with such a signature, so that TLC reaches the tests
behind the signature check; one of them takes the number of a packet of the
button, and without the lock a later event could then be handled in the place of
an earlier one. Nobody has the key, so every set-up of the real system satisfies
`KeySecret`; an honest one does by definition (`HonestSecret`). The run also has
set-ups that do not, in which the button sends no event.

1. `OrderInv` is inductive given `TypeOK` and `IInv`. `EventsInOrder` is not,
   since a handler that is suspended in an acknowledgement has packets left
   while another handler is fed. `Lines` says that the packets of the button
   keep their order (`InOrder`) wherever they are: in a handler, in the
   fragments held or on the link, where the pieces of a packet stay together
   (`FragmentsTogether`) and only events share a notification
   (`BundlesOfEvents`). Two handlers may overtake each other, which is why only
   one and the same handler is in order, and different ones are only apart.
   `Numbers` says what number each packet has (`PacketsNumbered`), how far each
   side has counted (`CountersTrue`), that what was handled is not on its way
   any more (`NoneBehind`) and nothing before what is on its way is missing
   (`NoneMissing`), and that the next event count is one more than the last one
   told (`CountsFollow`). A packet that overtakes another one fails the
   signature check, and nothing is handled after that: so the next packet to
   verify is the next event. `HandlerKinds` sorts the handlers into five kinds,
   `NumbersAccepted` is the argument for the kind that delivers, `PacketSent`
   and `NumbersSent` those for what the button says.
2. `HonestInv` is inductive given these. In an honest set-up an unsigned answer
   is on its way only while the session waits for it (`AnswersTrue`), and
   notifications are handled one by one (`OneByOne`): after the session is ready
   because of the lock, before that because the button says nothing that it is
   not asked for. `HonestFailure` goes through what each handler may raise.
3. `OrderHolds` (`SessionInv`: the three together), and from it `EventsOrdered`,
   `OnlyHonestFailures` and `ReadyIsHonest`. The last one is proved without the
   lock.

`PairingProofs`, for any flows and any number of attempts, from the two
assumptions on the constants (the sentinels are no flows and differ, the bound
on attempts is a number).

1. `TypeCorrect`: `TypeOK` is inductive by itself.
2. `PairingInvariant`: `PInv` is inductive given `TypeOK`. `EntryComplete` is
   not, because a flow decides its result before it disconnects and creates the
   entry after that. So the invariant says what a decided outcome stands for
   (`OutcomeTrue`), what each await knows of its session (`SessionTrue`), that a
   shown error comes from a failure its state allows (`ErrorTrue`), and that an
   attempt has a new session until it subscribes to notifications, and one that
   is not started while it does (`Fresh`). `EntryEnds`
   and `LinkHeld` say what a created entry does to the other flows and who holds
   the link. `FlowKept` and `OthersKept` are the arguments for flows a step
   leaves alone, `PReturn` and `PCreate` those for the two ends of an attempt.
3. `LinksReleased`, `EntriesComplete`, `ErrorsFit` and `NoSecondEntry` follow.

`DataInduction`. The functions of `protocol.py` are loops, so what they return
for every input needs induction. The library's induction theorems take the
property as an operator, which the provers cannot instantiate. A set can stand
for a property, though, and the library's theorem that a well-founded relation
has minima is about sets:

1. `Smallest`, from that theorem; `Induction` and `BoundedInduction` for a set of
   numbers, which is the set of those that have the property.
2. A recursive function is a `CHOOSE`, so a proof about it first has to show that
   there is such a function: `FoldExists` for a fold whose step is given as a
   function, `ReadingExists` for a list that is read from place to place, as
   bundles are. `FoldUnique` says that two folds with the same steps agree.

`DecoderProofs`, for any swipes, gaps between updates and ways to use a Duo that
the assumption `Parameters` of `ProtocolFunctions` admits, and notifications of
any number of updates.

1. A decoder is only called on a finished notification, so the properties are
   not inductive. `ClassicInv`: the notification a round Flic is filling would be
   decoded to what is owed for it, whatever count it is sent with, which is the
   count that all its events bear. `DuoInv`: the loop of the Duo's decoder,
   run on the updates so far in any payload that has room for them, is where the
   Duo is (`DuoRead`): the same counters and time, the events that are owed, and
   an acknowledgement if one is.
2. `ClassicDecodeAppended` and `LoopAppended` say what one more update does to
   the decoder; `ClassicCodes`, `ClassicAction` and `DuoAction` what each update
   of each action means; `ClassicUpdated` and `DuoUpdated` put them together.
3. The loop of the Duo's decoder takes the rest of a payload for padding when it
   is short. An update takes at least 39 bits (`UpdateBits`), which is why none is
   mistaken for padding, nor found truncated (`NotPadding`). Behind the last one
   a single byte is unread, so the padding is not taken for another one
   (`DuoNotified`).
4. `EventsReported`, `AcksAsked` and `DuoCounts` follow (`DecoderInvariant`).

`ProtocolProofs`, on the same assumption: a block of a signature has room for its
padding, an MTU for a header and a byte, a word has an even number of bits.

1. `PacketsArrive`: `PacketsSurvive` says that what is received is a beginning of
   what was sent, which does not say what the values under way still are. So
   `FramesInv` is: there is a run of `_defragment` over these values that starts
   with what it holds and ends with all packets sent and nothing held (`Run`).
   `RunExtended` joins two runs, `Fragments` is the run over the fragments of one
   packet, `BundleTaken` the one over a bundle.
2. `SignaturesApart`: different packets, counters and directions never absorb
   the same blocks. The blocks are those of the packet in order, the last one
   under a subkey that tells whether it is padded (`LoopAbsorbs`, `FullTurn`, `PaddedTurn`), so they
   determine the packet (`AbsorbedOnce`), and the start determines counter and
   direction (`StartOnce`). The permutation is symbolic here: the theorem says
   that a collision of signatures is one of the permutation.
3. `RoundsAlwaysAgree`: one turn of the loop of `_chaskey_permute` on words whose
   third is rotated is one round of the textbook (`RoundAgrees`), so the rotation
   before the loop and the one after it make up for all in between (`RoundInv`).
   Two rotations by half a word cancel (`SwappedTwice`) because a rotation swaps
   the high and the low part of a word (`PartsSwap`), which uses the laws of
   powers of two (`PowersMultiply`).
4. `KeysDouble`: doubling four words with a carry from each to the next doubles
   the number they stand for, reduced by `Carry` (`DoubledWord`, `CarriedUp`,
   `TwoDigits`, `SubkeyDoubles`).

Every invariant, action property and refinement that a run checks is proved.
Only model-checked are the liveness properties, which are out of the prover's
reach: `PendingServed`, `AttemptsEnd`, `StopCompletes`, `DeadClientForgotten`,
`SessionDecided`, `Served` and `SubmitAnswered`. What the proofs do not say is
what the models leave out: that the abstractions of bits, words and times are
those described above is for a reader to judge.

## Not modelled

* Logging, naming, translations, device info, the battery sensor and the
  trigger schemas: they keep no state and read what is modelled.
* The certificate check (Ed25519), X25519 and HMAC: library calls, symbolic in
  `FlicSession`. The bytes of a packet, lengths of fields and the conversion of
  timestamps to milliseconds.
* A set-up of the platforms that fails, which Home Assistant retries.
* A swipe on the first release of what becomes a double click: whether the
  button sends one is not visible in the code.
* A negative quick verification response meant for another client
  (`protocol.py:640`), for the same reason, and a `disconnect()` that never
  returns (`runtime.py:132`), against which the code offers nothing to check.

## Plan

Done: every module above, with its runs, and the proofs of every invariant, action
property and refinement the runs check. Left: liveness, which needs a prover that
knows `ENABLED`.
