-------------------------------- MODULE Pairing --------------------------------
(***************************************************************************)
(* Pairing one button from the config flow: the steps of FlicConfigFlow     *)
(* (config_flow.py) and async_pair_device (runtime.py), await by await, for *)
(* several flows about the same button.                                     *)
(*                                                                         *)
(* A session appears as the progress of its handshake; FlicSession checks   *)
(* how it gets there.  The flow manager of Home Assistant is external: it   *)
(* refuses a second discovered flow for a button, ends the other flows of a *)
(* button that got its entry, and drops the result of a flow that was       *)
(* closed while a step was running.                                         *)
(***************************************************************************)
EXTENDS Naturals

CONSTANTS
    Flows,       \* config flows about the button
    NoFlow,      \* the button has no link
    Abandoned,   \* the link of a client whose disconnect() raised
    MaxAttempts  \* bound on the pairing attempts

ASSUME FlowAssumption == NoFlow \notin Flows /\ Abandoned \notin Flows \cup {NoFlow}
ASSUME BoundAssumption == MaxAttempts \in Nat

VARIABLES
    step,      \* per flow: the form it shows or the await it is suspended in
    error,     \* per flow: errors["base"] of the confirm form
    closed,    \* flows that were closed while a step was running
    session,   \* per flow: the FlicSession of its attempt
    outcome,   \* per flow: how async_pair_device ends, while it disconnects
    link,      \* the flow whose client is connected to the button, if any
    entry,     \* the config entry of the button, and the flow that made it
    attempts   \* history: pairing attempts made

vars == <<step, error, closed, session, outcome, link, entry, attempts>>

\* The awaits of async_pair_device.
Awaits == {"establish", "startNotify", "sendRequest",
           "waitComplete", "waitReady", "disconnect"}
Steps == {"none", "user", "confirm"} \cup Awaits

States == {"IDLE", "WAIT_FULL_VERIFY_1", "WAIT_FULL_VERIFY_2", "ESTABLISHED", "FAILED"}

NoError == "None"
NoEntry == [owner |-> NoFlow, paired |-> FALSE, initialised |-> FALSE]

\* What may fail a session, by its state (FlicSession).  The packet without free
\* slots is parsed in every state, and a handler that is suspended in a write may
\* fail a session that failed before.
Failures == [
    IDLE |-> {"NoPairingSlotsError", "StructError"},
    WAIT_FULL_VERIFY_1 |-> {"NoPairingSlotsError", "PairingModeError",
                            "AuthenticationError", "PairingError", "BleakError", "StructError"},
    WAIT_FULL_VERIFY_2 |-> {"NoPairingSlotsError", "PairingRejectedError",
                            "AuthenticationError", "PairingError", "BleakError", "StructError"},
    ESTABLISHED |-> {"NoPairingSlotsError", "AuthenticationError",
                     "FlicProtocolError", "BleakError", "StructError"},
    FAILED |-> {"NoPairingSlotsError", "BleakError", "StructError"}]

\* The except clauses of async_step_confirm, in their order.
ErrorKey == [
    BleakError |-> "connection_failed",
    TimeoutError |-> "connection_failed",
    NoPairingSlotsError |-> "no_pairing_slots",
    PairingModeError |-> "public_mode_required",
    PairingRejectedError |-> "pairing_rejected",
    AuthenticationError |-> "authentication_failed",
    PairingError |-> "pairing_failed",
    FlicProtocolError |-> "pairing_failed",
    StructError |-> "unknown"]

\* Mutant: the two states of a timeout are exchanged.
MutTimeoutKeySwapped(state) ==
    CASE state = "WAIT_FULL_VERIFY_1" -> "public_mode_required"
      [] state = "ESTABLISHED" -> "pairing_interrupted"
      [] OTHER -> "initialization_timeout"

\* PairingTimeoutError is told by the state it was raised in.
TimeoutKey(state) ==
    CASE state = "WAIT_FULL_VERIFY_1" -> "public_mode_required"
      [] state = "ESTABLISHED" -> "initialization_timeout"
      [] OTHER -> "pairing_interrupted"

HasEntry == entry.owner # NoFlow

\* furthest and initialised are history: how far the button went along, and
\* whether its counters were received.
NewSession == [state |-> "IDLE", complete |-> FALSE, ready |-> FALSE,
               failure |-> NoError, paired |-> FALSE, initialised |-> FALSE,
               furthest |-> "IDLE"]

Running(f) == step[f] \in Awaits

\* The flow has told the flow manager the unique id of the button.
HasUniqueId(f) == step[f] = "confirm" \/ Running(f)

InProgress(f) == HasUniqueId(f) /\ f \notin closed

-----------------------------------------------------------------------------
Init ==
    /\ step = [f \in Flows |-> "none"] /\ error = [f \in Flows |-> NoError]
    /\ closed = {}
    /\ session = [f \in Flows |-> NewSession]
    /\ outcome = [f \in Flows |-> NoError]
    /\ link = NoFlow
    /\ entry = NoEntry
    /\ attempts = 0

Goto(f, s) == step' = [step EXCEPT ![f] = s]

attemptVars == <<session, outcome, link, attempts>>

-----------------------------------------------------------------------------
\* The flow up to the confirm form.  A flow that aborts at once is no step.

\* async_step_bluetooth: _abort_if_unique_id_configured, and the refusal of a
\* second flow by async_set_unique_id.
Discovered(f) ==
    /\ step[f] = "none" /\ ~HasEntry
    /\ ~\E g \in Flows : InProgress(g)
    /\ Goto(f, "confirm")
    /\ UNCHANGED <<error, closed, attemptVars, entry>>

\* async_step_user without input: the button is offered unless it is configured.
UserStarts(f) ==
    /\ step[f] = "none" /\ ~HasEntry
    /\ Goto(f, "user")
    /\ UNCHANGED <<error, closed, attemptVars, entry>>

\* Mutant: the choice is not checked against the entries a second time.
MutUserChoosesUnchecked(f) ==
    /\ step[f] = "user" /\ Goto(f, "confirm")
    /\ UNCHANGED <<error, closed, attemptVars, entry>>

\* async_step_user with input: it may join a flow that is in progress, but not
\* a button that was configured since the form was made.
UserChooses(f) ==
    /\ step[f] = "user"
    /\ Goto(f, IF ~HasEntry THEN "confirm" ELSE "none")
    /\ UNCHANGED <<error, closed, attemptVars, entry>>

\* The user closes the dialog.  A step that is running goes on, for nobody.
CloseFlow(f) ==
    /\ step[f] # "none" /\ f \notin closed
    /\ IF Running(f)
         THEN closed' = closed \cup {f} /\ UNCHANGED <<step, error>>
         ELSE Goto(f, "none") /\ error' = [error EXCEPT ![f] = NoError] /\ UNCHANGED closed
    /\ UNCHANGED <<attemptVars, entry>>

-----------------------------------------------------------------------------
\* async_step_confirm with input, and async_pair_device.

Submit(f) ==
    /\ step[f] = "confirm" /\ attempts < MaxAttempts
    /\ Goto(f, "establish")
    /\ error' = [error EXCEPT ![f] = NoError]
    /\ session' = [session EXCEPT ![f] = NewSession]
    /\ attempts' = attempts + 1
    /\ UNCHANGED <<closed, outcome, link, entry>>

\* Mutant: a closed flow is never taken off the list.
MutReturnKeepsClosed(f, e) ==
    /\ Goto(f, IF f \in closed THEN "none" ELSE "confirm")
    /\ error' = [error EXCEPT ![f] = e]
    /\ UNCHANGED closed

\* The flow ends, or shows its form again with an error.
Return(f, e) ==
    /\ Goto(f, IF f \in closed THEN "none" ELSE "confirm")
    /\ error' = [error EXCEPT ![f] = IF f \in closed THEN NoError ELSE e]
    /\ closed' = closed \ {f}

\* establish_connection raises BleakError or TimeoutError: there is no client.
EstablishRaises(f) ==
    /\ step[f] = "establish"
    /\ Return(f, ErrorKey["BleakError"])
    /\ UNCHANGED <<attemptVars, entry>>

Established(f) ==
    /\ step[f] = "establish" /\ link = NoFlow
    /\ link' = f /\ Goto(f, "startNotify")
    /\ UNCHANGED <<error, closed, session, outcome, entry, attempts>>

\* start() sets the state, also of a session that failed before, and suspends in
\* the write of the request.
NotifyStarted(f) ==
    /\ step[f] = "startNotify" /\ Goto(f, "sendRequest")
    /\ session' = [session EXCEPT ![f].state = "WAIT_FULL_VERIFY_1",
                                  ![f].furthest = "WAIT_FULL_VERIFY_1"]
    /\ UNCHANGED <<error, closed, outcome, link, entry, attempts>>

\* The finally clause: from here async_pair_device only disconnects.
Finally(f, o) ==
    /\ Goto(f, "disconnect")
    /\ outcome' = [outcome EXCEPT ![f] = o]
    /\ UNCHANGED <<error, closed, session, link, entry, attempts>>

\* Mutant: these two calls are made outside the try block.
MutCallRaisesLeaks(f) ==
    /\ step[f] \in {"startNotify", "sendRequest"}
    /\ Return(f, ErrorKey["BleakError"])
    /\ UNCHANGED <<attemptVars, entry>>

\* start_notify or the write of the request raises.
CallRaises(f) ==
    /\ step[f] \in {"startNotify", "sendRequest"}
    /\ Finally(f, ErrorKey["BleakError"])

\* What follows the two waits: the failure is raised or the result returned.
Decided(f) ==
    Finally(f, IF session[f].failure # NoError
                 THEN ErrorKey[session[f].failure]
                 ELSE "result")

\* Mutant: pairing returns as soon as the button confirmed the credentials.
MutAwaitSessionNotReady(f) ==
    IF ~session[f].complete
      THEN Goto(f, "waitComplete") /\ UNCHANGED <<error, closed, attemptVars, entry>>
      ELSE Decided(f)

\* The code up to the first wait that is not over.
AwaitSession(f) ==
    IF ~session[f].complete
      THEN Goto(f, "waitComplete") /\ UNCHANGED <<error, closed, attemptVars, entry>>
      ELSE IF ~session[f].ready
             THEN Goto(f, "waitReady") /\ UNCHANGED <<error, closed, attemptVars, entry>>
             ELSE Decided(f)

RequestSent(f) == step[f] = "sendRequest" /\ AwaitSession(f)

CompleteWoken(f) ==
    step[f] = "waitComplete" /\ session[f].complete /\ AwaitSession(f)

ReadyWoken(f) ==
    step[f] = "waitReady" /\ session[f].ready /\ Decided(f)

\* Mutant: the timeout covers the wait for pairing_complete only.
MutTimedOutFirstWait(f) ==
    /\ step[f] = "waitComplete"
    /\ Finally(f, TimeoutKey(session[f].state))

\* The 25 s are over.  The cancellation overtakes a wake-up that is already
\* scheduled, so the session may have been decided by then.
TimedOut(f) ==
    /\ step[f] \in {"waitComplete", "waitReady"}
    /\ Finally(f, TimeoutKey(session[f].state))

\* Creating the entry ends the other flows of its unique id (external).
CreateEntry(f) ==
    LET others == {g \in Flows \ {f} : HasUniqueId(g)} IN
    /\ entry' = [owner |-> f, paired |-> session[f].paired,
                 initialised |-> session[f].initialised]
    /\ step' = [g \in Flows |->
                  IF g = f \/ (g \in others /\ ~Running(g)) THEN "none" ELSE step[g]]
    /\ closed' = closed \cup {g \in others : Running(g)}
    /\ error' = [g \in Flows |-> IF g \in others \cup {f} THEN NoError ELSE error[g]]

\* disconnect() is over, or its exception is suppressed, and async_step_confirm
\* turns the outcome into a result.
Disconnected(f) ==
    /\ step[f] = "disconnect"
    /\ link' \in IF link = f THEN {NoFlow, Abandoned} ELSE {link}
    /\ CASE outcome[f] # "result" -> Return(f, outcome[f]) /\ UNCHANGED entry
         [] outcome[f] = "result" /\ ~session[f].paired ->
              Return(f, "pairing_failed") /\ UNCHANGED entry
         [] outcome[f] = "result" /\ session[f].paired ->
              IF f \in closed
                THEN Return(f, NoError) /\ UNCHANGED entry
                ELSE CreateEntry(f)
    /\ outcome' = [outcome EXCEPT ![f] = NoError]
    /\ UNCHANGED <<session, attempts>>

-----------------------------------------------------------------------------
\* The session, fed by the tasks of the notifications as soon as start_notify is
\* called.  The outcome is decided when the client is being disconnected.  The
\* result is shared with the session and read after that: what the session does
\* meanwhile replaces the counters of a result that has them and leaves credentials
\* that were confirmed, which is all an entry is asked for here.

Fed(f) == link = f /\ step[f] # "disconnect"

SessionChanges(f, s) ==
    /\ session' = [session EXCEPT ![f] = s]
    /\ UNCHANGED <<step, error, closed, outcome, link, entry, attempts>>

FirstVerified(f) ==
    /\ Fed(f) /\ session[f].state = "WAIT_FULL_VERIFY_1"
    /\ SessionChanges(f, [session[f] EXCEPT !.state = "WAIT_FULL_VERIFY_2",
                                            !.furthest = "WAIT_FULL_VERIFY_2"])

SecondVerified(f) ==
    /\ Fed(f) /\ session[f].state = "WAIT_FULL_VERIFY_2"
    /\ SessionChanges(f, [session[f] EXCEPT !.state = "ESTABLISHED", !.complete = TRUE,
                                            !.paired = TRUE, !.furthest = "ESTABLISHED"])

SessionReady(f) ==
    /\ Fed(f) /\ session[f].state = "ESTABLISHED" /\ ~session[f].ready
    /\ SessionChanges(f, [session[f] EXCEPT !.ready = TRUE, !.initialised = TRUE])

\* feed_gatt: a failure wakes both waits.  Nothing is written before the request.
SessionFails(f, e) ==
    /\ Fed(f) /\ e \in Failures[session[f].state]
    /\ e = "BleakError" => session[f].furthest # "IDLE"
    /\ SessionChanges(f, [session[f] EXCEPT !.state = "FAILED", !.failure = e,
                                            !.ready = TRUE, !.complete = TRUE])

\* The button goes out of range (external).
LinkLost ==
    /\ link # NoFlow /\ link' = NoFlow
    /\ UNCHANGED <<step, error, closed, session, outcome, entry, attempts>>

-----------------------------------------------------------------------------
UserStep(f) ==
    Discovered(f) \/ UserStarts(f) \/ UserChooses(f) \/ CloseFlow(f) \/ Submit(f)

PairStep(f) ==
    \/ EstablishRaises(f) \/ Established(f) \/ NotifyStarted(f) \/ CallRaises(f)
    \/ RequestSent(f) \/ CompleteWoken(f) \/ ReadyWoken(f) \/ TimedOut(f)
    \/ Disconnected(f)

SessionStep(f) ==
    \/ FirstVerified(f) \/ SecondVerified(f) \/ SessionReady(f)
    \/ \E e \in DOMAIN ErrorKey : SessionFails(f, e)

Next == LinkLost \/ \E f \in Flows : UserStep(f) \/ PairStep(f) \/ SessionStep(f)

Spec == Init /\ [][Next]_vars

\* The awaits of the Bluetooth library end and the 25 s pass; nothing is assumed
\* of the button and the user.
Fairness == \A f \in Flows : WF_vars(PairStep(f))
FairSpec == Spec /\ Fairness

-----------------------------------------------------------------------------
Keys == {ErrorKey[e] : e \in DOMAIN ErrorKey} \cup {TimeoutKey(s) : s \in States}

TypeOK ==
    /\ step \in [Flows -> Steps]
    /\ error \in [Flows -> Keys \cup {NoError}]
    /\ closed \in SUBSET {f \in Flows : Running(f)}
    /\ session \in [Flows -> [state : States, complete : BOOLEAN, ready : BOOLEAN,
                              failure : DOMAIN ErrorKey \cup {NoError}, paired : BOOLEAN,
                              initialised : BOOLEAN, furthest : States]]
    /\ outcome \in [Flows -> Keys \cup {NoError, "result"}]
    /\ \A f \in Flows : (outcome[f] # NoError) <=> (step[f] = "disconnect")
    /\ link \in Flows \cup {NoFlow, Abandoned}
    /\ entry \in [owner : Flows \cup {NoFlow}, paired : BOOLEAN, initialised : BOOLEAN]
    /\ attempts \in 0..MaxAttempts

\* However an attempt ends, the code has called disconnect() on its client by
\* the time the form is answered: a link left open keeps the runtime out.
LinkReleased == link \in Flows => Running(link)

\* An entry holds credentials the button confirmed and the counters of its init
\* response: with zeroes instead the first session would replay or skip events.
EntryComplete == HasEntry => entry.paired /\ entry.initialised

\* The error shown fits how far the button went along (strings.json).
ErrorFitsProgress ==
    \A f \in Flows :
        /\ error[f] = "public_mode_required" => session[f].furthest = "WAIT_FULL_VERIFY_1"
        /\ error[f] = "pairing_rejected" => session[f].furthest = "WAIT_FULL_VERIFY_2"
        /\ error[f] = "initialization_timeout" => session[f].furthest = "ESTABLISHED"

\* A button that got its entry from one flow does not get it again from another,
\* whichever checks the other made before.
EntryNeverReplaced == [][HasEntry => entry' = entry]_vars

\* A submitted form is answered, whatever the button does.
SubmitAnswered == \A f \in Flows : Running(f) ~> ~Running(f)

\* A timeout is reported when the button went silent (strings.json: "stopped
\* responding", "did not finish initializing"), not when it was heard in time.
TimeoutMeansSilence ==
    \A f \in Flows :
        error[f] \in {"pairing_interrupted", "initialization_timeout"} => ~session[f].ready
=============================================================================
