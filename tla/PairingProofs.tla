----------------------------- MODULE PairingProofs -----------------------------
(***************************************************************************)
(* Proofs, for any number of flows and attempts, that pairing releases its  *)
(* link, creates complete entries only, and creates no second one.          *)
(***************************************************************************)
EXTENDS Pairing, TLAPS

USE FlowAssumption

SessionRecords ==
    [state : States, complete : BOOLEAN, ready : BOOLEAN,
     failure : DOMAIN ErrorKey \cup {NoError}, paired : BOOLEAN,
     initialised : BOOLEAN, furthest : States]

-----------------------------------------------------------------------------
(* Type correctness *)

\* Error keys are told apart from no error and from a result.
LEMMA ProperKeys ==
  /\ \A e \in DOMAIN ErrorKey : ErrorKey[e] \in Keys
  /\ \A s \in States : TimeoutKey(s) \in Keys
  /\ ErrorKey["BleakError"] \in Keys
  /\ "result" \notin Keys /\ NoError \notin Keys
<1>1. DOMAIN ErrorKey = {"BleakError", "TimeoutError", "NoPairingSlotsError", "PairingModeError",
                         "PairingRejectedError", "AuthenticationError", "PairingError",
                         "FlicProtocolError", "StructError"}
  BY DEF ErrorKey
<1>2. ErrorKey["BleakError"] \in Keys
  BY <1>1 DEF Keys
<1>3. \A e \in DOMAIN ErrorKey :
        ErrorKey[e] \in {"connection_failed", "no_pairing_slots", "public_mode_required",
                         "pairing_rejected", "authentication_failed", "pairing_failed", "unknown"}
  BY <1>1 DEF ErrorKey
<1>4. \A s \in States :
        TimeoutKey(s) \in {"public_mode_required", "initialization_timeout",
                           "pairing_interrupted"}
  BY DEF TimeoutKey
<1>5. "result" \notin Keys /\ NoError \notin Keys
  BY <1>3, <1>4 DEF Keys, NoError
<1> QED
  BY <1>2, <1>5 DEF Keys

\* What the session does keeps its type.
LEMMA SessionUpdates ==
  ASSUME NEW s \in SessionRecords, NEW e \in DOMAIN ErrorKey
  PROVE  /\ [s EXCEPT !.state = "WAIT_FULL_VERIFY_1", !.furthest = "WAIT_FULL_VERIFY_1"]
              \in SessionRecords
         /\ [s EXCEPT !.state = "WAIT_FULL_VERIFY_2", !.furthest = "WAIT_FULL_VERIFY_2"]
              \in SessionRecords
         /\ [s EXCEPT !.state = "ESTABLISHED", !.complete = TRUE, !.paired = TRUE,
                      !.furthest = "ESTABLISHED"] \in SessionRecords
         /\ [s EXCEPT !.ready = TRUE, !.initialised = TRUE] \in SessionRecords
         /\ [s EXCEPT !.state = "FAILED", !.failure = e, !.ready = TRUE, !.complete = TRUE]
              \in SessionRecords
BY DEF SessionRecords, States

\* A flow that returns is not running, and keeps the domains.
LEMMA ReturnTypes ==
  ASSUME TypeOK, NEW f \in Flows, NEW e \in Keys \cup {NoError}, Return(f, e)
  PROVE  /\ step' \in [Flows -> Steps] /\ step'[f] \notin Awaits
         /\ \A g \in Flows \ {f} : step'[g] = step[g]
         /\ error' \in [Flows -> Keys \cup {NoError}]
         /\ closed' \in SUBSET {g \in Flows : step'[g] \in Awaits}
<1>1. step \in [Flows -> Steps] /\ step' = [step EXCEPT ![f] = IF f \in closed THEN "none" ELSE "confirm"]
  BY DEF TypeOK, Return, Goto
<1>2. step' \in [Flows -> Steps]
  BY <1>1 DEF Steps
<1>3. step'[f] \in {"none", "confirm"} /\ \A g \in Flows \ {f} : step'[g] = step[g]
  BY <1>1
<1>4. error' \in [Flows -> Keys \cup {NoError}]
  BY DEF TypeOK, Return
<1>5. closed' \in SUBSET {g \in Flows : step'[g] \in Awaits}
  BY <1>3 DEF TypeOK, Return, Running
<1> QED
  BY <1>2, <1>3, <1>4, <1>5 DEF Awaits

\* A flow that goes from one await to the next.
LEMMA GotoTypes ==
  ASSUME TypeOK, NEW f \in Flows, NEW a \in Steps, Goto(f, a),
         a \in Awaits \/ f \notin closed
  PROVE  /\ step' \in [Flows -> Steps] /\ step'[f] = a
         /\ \A g \in Flows \ {f} : step'[g] = step[g]
         /\ closed \in SUBSET {g \in Flows : step'[g] \in Awaits}
<1>1. step \in [Flows -> Steps] /\ step' = [step EXCEPT ![f] = a]
  BY DEF TypeOK, Goto
<1>2. step' \in [Flows -> Steps] /\ step'[f] = a /\ \A g \in Flows \ {f} : step'[g] = step[g]
  BY <1>1
<1> QED
  BY <1>2 DEF TypeOK, Running

\* The parts of TypeOK, with the domain of a session named.
LEMMA TypeParts ==
  TypeOK <=>
    /\ step \in [Flows -> Steps]
    /\ error \in [Flows -> Keys \cup {NoError}]
    /\ closed \in SUBSET {f \in Flows : step[f] \in Awaits}
    /\ session \in [Flows -> SessionRecords]
    /\ outcome \in [Flows -> Keys \cup {NoError, "result"}]
    /\ \A f \in Flows : (outcome[f] # NoError) <=> (step[f] = "disconnect")
    /\ link \in Flows \cup {NoFlow, Abandoned}
    /\ entry \in [owner : Flows \cup {NoFlow}, paired : BOOLEAN, initialised : BOOLEAN]
    /\ attempts \in 0..MaxAttempts
BY DEF TypeOK, SessionRecords, Running

\* The same for the next state.
LEMMA TypeNext ==
  ASSUME step' \in [Flows -> Steps],
         error' \in [Flows -> Keys \cup {NoError}],
         closed' \in SUBSET {f \in Flows : step'[f] \in Awaits},
         session' \in [Flows -> SessionRecords],
         outcome' \in [Flows -> Keys \cup {NoError, "result"}],
         \A f \in Flows : (outcome'[f] # NoError) <=> (step'[f] = "disconnect"),
         link' \in Flows \cup {NoFlow, Abandoned},
         entry' \in [owner : Flows \cup {NoFlow}, paired : BOOLEAN, initialised : BOOLEAN],
         attempts' \in 0..MaxAttempts
  PROVE  TypeOK'
BY DEF TypeOK, SessionRecords, Running

LEMMA TypeInit == Init => TypeOK
<1> SUFFICES ASSUME Init PROVE TypeOK
  OBVIOUS
<1>1. NewSession \in SessionRecords
  BY DEF NewSession, SessionRecords, States
<1>2. step \in [Flows -> Steps] /\ session \in [Flows -> SessionRecords]
  BY <1>1 DEF Init, Steps
<1>3. entry \in [owner : Flows \cup {NoFlow}, paired : BOOLEAN, initialised : BOOLEAN]
  BY DEF Init, NoEntry
<1>4. attempts \in 0..MaxAttempts
  BY BoundAssumption DEF Init
<1> QED
  BY <1>2, <1>3, <1>4, TypeParts DEF Init

\* Steps of the user.
LEMMA TypeUser ==
  ASSUME TypeOK, NEW f \in Flows, UserStep(f)
  PROVE  TypeOK'
<1> USE DEF attemptVars
<1>0. f \in closed => step[f] \in Awaits
  BY DEF TypeOK, Running
<1>1. ASSUME NEW a \in {"none", "user", "confirm"}, Goto(f, a), step[f] \notin Awaits,
             UNCHANGED <<closed, session, outcome, link, entry, attempts>>,
             error' \in [Flows -> Keys \cup {NoError}]
      PROVE  TypeOK'
  <2>1. a \in Steps /\ f \notin closed /\ a # "disconnect" /\ step[f] # "disconnect"
    BY <1>0, <1>1 DEF Steps, Awaits
  <2>2. /\ step' \in [Flows -> Steps] /\ step'[f] = a
        /\ \A g \in Flows \ {f} : step'[g] = step[g]
        /\ closed \in SUBSET {g \in Flows : step'[g] \in Awaits}
    BY <1>1, <2>1, GotoTypes
  <2>3. \A g \in Flows : (outcome[g] # NoError) <=> (step'[g] = "disconnect")
    BY <2>1, <2>2, TypeParts
  <2> QED
    BY <1>1, <2>2, <2>3, TypeParts, TypeNext
<1>2. CASE Discovered(f)
  BY <1>1, <1>2, TypeParts DEF Discovered, Awaits
<1>3. CASE UserStarts(f)
  BY <1>1, <1>3, TypeParts DEF UserStarts, Awaits
<1>4. CASE UserChooses(f)
  BY <1>1, <1>4, TypeParts DEF UserChooses, Awaits
<1>5. CASE CloseFlow(f)
  <2>1. CASE Running(f)
    <3>1. closed' = closed \cup {f} /\ UNCHANGED <<step, error, session, outcome, link, entry, attempts>>
      BY <1>5, <2>1 DEF CloseFlow
    <3>2. closed' \in SUBSET {g \in Flows : step[g] \in Awaits}
      BY <2>1, <3>1 DEF Running, TypeOK
    <3> QED
      BY <3>1, <3>2, TypeParts, TypeNext
  <2>2. CASE ~Running(f)
    <3>1. /\ Goto(f, "none") /\ error' = [error EXCEPT ![f] = NoError]
          /\ UNCHANGED <<closed, session, outcome, link, entry, attempts>>
      BY <1>5, <2>2 DEF CloseFlow
    <3>2. error' \in [Flows -> Keys \cup {NoError}]
      BY <3>1, TypeParts
    <3> QED
      BY <1>1, <2>2, <3>1, <3>2 DEF Running
  <2> QED
    BY <2>1, <2>2
<1>6. CASE Submit(f)
  <2>1. step[f] # "disconnect" /\ "establish" \in Awaits /\ "establish" \in Steps
    BY <1>6 DEF Submit, Awaits, Steps
  <2>2. /\ step' \in [Flows -> Steps] /\ step'[f] = "establish"
        /\ \A g \in Flows \ {f} : step'[g] = step[g]
        /\ closed \in SUBSET {g \in Flows : step'[g] \in Awaits}
    BY <1>6, <2>1, GotoTypes DEF Submit
  <2>3. \A g \in Flows : (outcome[g] # NoError) <=> (step'[g] = "disconnect")
    BY <2>1, <2>2, TypeParts
  <2>4. NewSession \in SessionRecords
    BY DEF NewSession, SessionRecords, States
  <2>5. session' \in [Flows -> SessionRecords] /\ error' \in [Flows -> Keys \cup {NoError}]
    BY <1>6, <2>4, TypeParts DEF Submit
  <2>6. attempts' \in 0..MaxAttempts
    BY <1>6, BoundAssumption DEF Submit, TypeOK
  <2> QED
    BY <1>6, <2>2, <2>3, <2>5, <2>6, TypeParts, TypeNext DEF Submit
<1> QED
  BY <1>2, <1>3, <1>4, <1>5, <1>6 DEF UserStep

\* The end of an attempt.
LEMMA TypeDisconnected ==
  ASSUME TypeOK, NEW f \in Flows, Disconnected(f)
  PROVE  TypeOK'
<1>1. /\ link' \in Flows \cup {NoFlow, Abandoned}
      /\ outcome' = [outcome EXCEPT ![f] = NoError]
      /\ UNCHANGED <<session, attempts>>
  BY TypeParts DEF Disconnected
<1>2. /\ outcome' \in [Flows -> Keys \cup {NoError, "result"}]
      /\ outcome'[f] = NoError /\ \A g \in Flows \ {f} : outcome'[g] = outcome[g]
  BY <1>1, TypeParts
<1>3. ASSUME NEW e \in Keys \cup {NoError}, Return(f, e), entry' = entry
      PROVE  TypeOK'
  <2>1. /\ step' \in [Flows -> Steps] /\ step'[f] \notin Awaits
        /\ \A g \in Flows \ {f} : step'[g] = step[g]
        /\ error' \in [Flows -> Keys \cup {NoError}]
        /\ closed' \in SUBSET {g \in Flows : step'[g] \in Awaits}
    BY <1>3, ReturnTypes
  <2>2. "disconnect" \in Awaits
    BY DEF Awaits
  <2>3. \A g \in Flows : (outcome'[g] # NoError) <=> (step'[g] = "disconnect")
    BY <1>2, <2>1, <2>2, TypeParts
  <2> QED
    BY <1>1, <1>2, <1>3, <2>1, <2>3, TypeParts, TypeNext
<1>4. CASE outcome[f] # "result"
  <2>1. outcome[f] \in Keys \cup {NoError}
    BY <1>4, TypeParts
  <2>2. Return(f, outcome[f]) /\ entry' = entry
    BY <1>4 DEF Disconnected
  <2> QED
    BY <1>3, <2>1, <2>2
<1>5. CASE outcome[f] = "result" /\ ~session[f].paired
  <2>1. "pairing_failed" \in Keys
    BY DEF Keys, ErrorKey
  <2>2. Return(f, "pairing_failed") /\ entry' = entry
    BY <1>5 DEF Disconnected
  <2> QED
    BY <1>3, <2>1, <2>2
<1>6. CASE outcome[f] = "result" /\ session[f].paired /\ f \in closed
  <2>1. Return(f, NoError) /\ entry' = entry
    BY <1>6 DEF Disconnected
  <2> QED
    BY <1>3, <2>1
<1>7. CASE outcome[f] = "result" /\ session[f].paired /\ f \notin closed
  <2>1. CreateEntry(f)
    BY <1>7 DEF Disconnected
  <2>2. step \in [Flows -> Steps] /\ closed \in SUBSET {g \in Flows : step[g] \in Awaits}
    BY TypeParts
  <2>3. /\ step' \in [Flows -> Steps] /\ step'[f] = "none"
        /\ \A g \in Flows \ {f} : step'[g] = step[g] \/ (step'[g] = "none" /\ ~Running(g))
    BY <2>1, <2>2 DEF CreateEntry, Steps
  <2>4. closed' \in SUBSET {g \in Flows : step'[g] \in Awaits}
    BY <1>7, <2>1, <2>2, <2>3 DEF CreateEntry, Running
  <2>5. error' \in [Flows -> Keys \cup {NoError}]
    BY <2>1, TypeParts DEF CreateEntry
  <2>6. session[f] \in SessionRecords
    BY TypeParts
  <2>7. entry' \in [owner : Flows \cup {NoFlow}, paired : BOOLEAN, initialised : BOOLEAN]
    BY <2>1, <2>6 DEF CreateEntry, SessionRecords
  <2>8. "disconnect" \in Awaits /\ "none" # "disconnect"
    BY DEF Awaits
  <2>9. \A g \in Flows : (outcome'[g] # NoError) <=> (step'[g] = "disconnect")
    BY <1>2, <2>3, <2>8, TypeParts DEF Running
  <2> QED
    BY <1>1, <1>2, <2>3, <2>4, <2>5, <2>7, <2>9, TypeParts, TypeNext
<1> QED
  BY <1>4, <1>5, <1>6, <1>7

\* Steps of async_pair_device.
LEMMA TypePair ==
  ASSUME TypeOK, NEW f \in Flows, PairStep(f)
  PROVE  TypeOK'
<1> USE DEF attemptVars
<1>1. ASSUME NEW a \in Awaits \ {"disconnect"}, Goto(f, a), step[f] \in Awaits \ {"disconnect"},
             session' \in [Flows -> SessionRecords], link' \in Flows \cup {NoFlow, Abandoned},
             UNCHANGED <<error, closed, outcome, entry, attempts>>
      PROVE  TypeOK'
  <2>1. /\ step' \in [Flows -> Steps] /\ step'[f] = a
        /\ \A g \in Flows \ {f} : step'[g] = step[g]
        /\ closed \in SUBSET {g \in Flows : step'[g] \in Awaits}
    BY <1>1, GotoTypes DEF Steps
  <2>2. \A g \in Flows : (outcome[g] # NoError) <=> (step'[g] = "disconnect")
    BY <1>1, <2>1, TypeParts
  <2> QED
    BY <1>1, <2>1, <2>2, TypeParts, TypeNext
<1>2. ASSUME NEW o \in Keys \cup {"result"}, Finally(f, o) PROVE TypeOK'
  <2>1. "disconnect" \in Awaits /\ "disconnect" \in Steps
    BY DEF Awaits, Steps
  <2>2. /\ step' \in [Flows -> Steps] /\ step'[f] = "disconnect"
        /\ \A g \in Flows \ {f} : step'[g] = step[g]
        /\ closed \in SUBSET {g \in Flows : step'[g] \in Awaits}
    BY <1>2, <2>1, GotoTypes DEF Finally
  <2>3. o # NoError
    BY ProperKeys DEF NoError
  <2>4. /\ outcome' \in [Flows -> Keys \cup {NoError, "result"}]
        /\ outcome'[f] = o /\ \A g \in Flows \ {f} : outcome'[g] = outcome[g]
    BY <1>2, TypeParts DEF Finally
  <2>5. \A g \in Flows : (outcome'[g] # NoError) <=> (step'[g] = "disconnect")
    BY <2>2, <2>3, <2>4, TypeParts
  <2> QED
    BY <1>2, <2>2, <2>4, <2>5, TypeParts, TypeNext DEF Finally
<1>3. ASSUME Decided(f) PROVE TypeOK'
  <2>1. session[f].failure # NoError => session[f].failure \in DOMAIN ErrorKey
    <3>1. session[f] \in SessionRecords
      BY TypeParts
    <3> QED
      BY <3>1 DEF SessionRecords
  <2>2. (IF session[f].failure # NoError THEN ErrorKey[session[f].failure] ELSE "result")
           \in Keys \cup {"result"}
    BY <2>1, ProperKeys
  <2> QED
    BY <1>2, <1>3, <2>2 DEF Decided
<1>4. CASE EstablishRaises(f)
  <2>1. /\ step' \in [Flows -> Steps] /\ step'[f] \notin Awaits
        /\ \A g \in Flows \ {f} : step'[g] = step[g]
        /\ error' \in [Flows -> Keys \cup {NoError}]
        /\ closed' \in SUBSET {g \in Flows : step'[g] \in Awaits}
    BY <1>4, ReturnTypes, ProperKeys DEF EstablishRaises
  <2>2. "disconnect" \in Awaits /\ step[f] # "disconnect"
    BY <1>4 DEF Awaits, EstablishRaises
  <2>3. \A g \in Flows : (outcome[g] # NoError) <=> (step'[g] = "disconnect")
    BY <2>1, <2>2, TypeParts
  <2> QED
    BY <1>4, <2>1, <2>3, TypeParts, TypeNext DEF EstablishRaises
<1>5. CASE Established(f)
  BY <1>1, <1>5, TypeParts DEF Established, Awaits
<1>6. CASE NotifyStarted(f)
  <2>1. session \in [Flows -> SessionRecords] /\ session[f] \in SessionRecords
    BY TypeParts
  <2>2. session' = [session EXCEPT ![f] = [session[f] EXCEPT !.state = "WAIT_FULL_VERIFY_1",
                                                            !.furthest = "WAIT_FULL_VERIFY_1"]]
    BY <1>6 DEF NotifyStarted
  <2>3. "BleakError" \in DOMAIN ErrorKey
    BY DEF ErrorKey
  <2>4. session' \in [Flows -> SessionRecords]
    BY <2>1, <2>2, <2>3, SessionUpdates
  <2> QED
    BY <1>1, <1>6, <2>4, TypeParts DEF NotifyStarted, Awaits
<1>7. CASE CallRaises(f)
  BY <1>2, <1>7, ProperKeys DEF CallRaises
<1>8. ASSUME AwaitSession(f), step[f] \in {"sendRequest", "waitComplete"} PROVE TypeOK'
  BY <1>1, <1>3, <1>8, TypeParts DEF AwaitSession, Awaits
<1>9. CASE RequestSent(f) \/ CompleteWoken(f)
  BY <1>8, <1>9 DEF RequestSent, CompleteWoken
<1>10. CASE ReadyWoken(f)
  BY <1>3, <1>10 DEF ReadyWoken
<1>11. CASE TimedOut(f)
  <2>1. session[f] \in SessionRecords
    BY TypeParts
  <2>2. session[f].state \in States
    BY <2>1 DEF SessionRecords
  <2> QED
    BY <1>2, <1>11, <2>2, ProperKeys DEF TimedOut
<1>12. CASE Disconnected(f)
  BY <1>12, TypeDisconnected
<1> QED
  BY <1>4, <1>5, <1>6, <1>7, <1>9, <1>10, <1>11, <1>12 DEF PairStep

\* Steps of the session and the link.
LEMMA TypeSession ==
  ASSUME TypeOK, NEW f \in Flows, SessionStep(f)
  PROVE  TypeOK'
<1>1. ASSUME NEW s \in SessionRecords, SessionChanges(f, s) PROVE TypeOK'
  <2>1. session' \in [Flows -> SessionRecords]
    BY <1>1, TypeParts DEF SessionChanges
  <2> QED
    BY <1>1, <2>1, TypeParts, TypeNext DEF SessionChanges
<1>2. session[f] \in SessionRecords /\ "BleakError" \in DOMAIN ErrorKey
  BY TypeParts DEF ErrorKey
<1>3. CASE FirstVerified(f)
  BY <1>1, <1>2, <1>3, SessionUpdates DEF FirstVerified
<1>4. CASE SecondVerified(f)
  BY <1>1, <1>2, <1>4, SessionUpdates DEF SecondVerified
<1>5. CASE SessionReady(f)
  BY <1>1, <1>2, <1>5, SessionUpdates DEF SessionReady
<1>6. ASSUME NEW e \in DOMAIN ErrorKey, SessionFails(f, e) PROVE TypeOK'
  BY <1>1, <1>2, <1>6, SessionUpdates DEF SessionFails
<1> QED
  BY <1>3, <1>4, <1>5, <1>6 DEF SessionStep

LEMMA TypeStep == TypeOK /\ [Next]_vars => TypeOK'
<1> SUFFICES ASSUME TypeOK, [Next]_vars PROVE TypeOK'
  OBVIOUS
<1>1. CASE LinkLost
  BY <1>1, TypeParts, TypeNext DEF LinkLost
<1>2. CASE UNCHANGED vars
  BY <1>2, TypeParts, TypeNext DEF vars
<1> QED
  BY <1>1, <1>2, TypeUser, TypePair, TypeSession DEF Next

\* Every variable keeps its domain: a flow that was closed while running is
\* taken off the list, and an outcome is kept while the client is disconnected.
THEOREM TypeCorrect == Spec => []TypeOK
<1> QED
  BY TypeInit, TypeStep, PTL DEF Spec

-----------------------------------------------------------------------------
(* The inductive invariant *)

\* A link belongs to a running attempt that has passed establish_connection.
LinkHeld == link \in Flows => step[link] \in Awaits \ {"establish"}

\* A button with an entry is in no flow that can still give it one.
EntryEnds == HasEntry => \A f \in Flows : ~InProgress(f)

\* What a session has reached, and when certain failures are possible.  Only a failure
\* before start() is left behind by the handshake.
SessionTrue(s) ==
    /\ s.state # "FAILED" => /\ s.failure \notin {"PairingModeError", "PairingRejectedError"}
                             /\ s.furthest = s.state
    /\ s.state = "ESTABLISHED" => s.paired
    /\ s.failure = NoError /\ s.ready => s.paired /\ s.initialised
    /\ s.failure = "PairingModeError" => s.furthest = "WAIT_FULL_VERIFY_1"
    /\ s.failure = "PairingRejectedError" => s.furthest = "WAIT_FULL_VERIFY_2"

\* An error key that fits how far the button went along.
Fits(key, s) ==
    /\ key = "public_mode_required" => s.furthest = "WAIT_FULL_VERIFY_1"
    /\ key = "pairing_rejected" => s.furthest = "WAIT_FULL_VERIFY_2"
    /\ key = "initialization_timeout" => s.furthest = "ESTABLISHED"

\* What is decided about an attempt is true of its session.
OutcomeTrue(f) ==
    /\ outcome[f] = "result" => session[f].failure = NoError /\ session[f].ready
    /\ Fits(outcome[f], session[f])

\* An error is shown between attempts only.
ErrorTrue(f) ==
    /\ Running(f) => error[f] = NoError
    /\ Fits(error[f], session[f])

\* The handshake of an attempt starts with start().
Fresh(f) ==
    /\ step[f] = "establish" => session[f] = NewSession
    /\ step[f] = "startNotify" => session[f].furthest = "IDLE"

FlowTrue(f) == SessionTrue(session[f]) /\ OutcomeTrue(f) /\ ErrorTrue(f) /\ Fresh(f)
FlowsTrue == \A f \in Flows : FlowTrue(f)

PInv == LinkHeld /\ EntryEnds /\ EntryComplete /\ FlowsTrue

\* What is true of a flow stays true when its session does not change, its error
\* and outcome are at most cleared, and no attempt begins.
LEMMA FlowKept ==
  ASSUME NEW g \in Flows, FlowTrue(g), session'[g] = session[g],
         outcome'[g] \in {outcome[g], NoError}, error'[g] \in {error[g], NoError},
         step'[g] \in Awaits => step[g] \in Awaits,
         step'[g] = "startNotify" => step[g] \in {"startNotify", "establish"},
         step'[g] # "establish" \/ step[g] = "establish"
  PROVE  FlowTrue(g)'
<1>1. SessionTrue(session[g])'
  BY DEF FlowTrue, SessionTrue
<1>2. OutcomeTrue(g)'
  BY DEF FlowTrue, OutcomeTrue, Fits, NoError
<1>3. ErrorTrue(g)'
  BY DEF FlowTrue, ErrorTrue, Fits, NoError, Running
<1>4. Fresh(g)'
  BY DEF FlowTrue, Fresh, NewSession
<1> QED
  BY <1>1, <1>2, <1>3, <1>4 DEF FlowTrue

\* When one flow changes alone, the others need no look.
LEMMA OthersKept ==
  ASSUME TypeOK, PInv, NEW f \in Flows, FlowTrue(f)',
         \A g \in Flows \ {f} : /\ session'[g] = session[g] /\ outcome'[g] = outcome[g]
                               /\ error'[g] = error[g] /\ step'[g] = step[g]
  PROVE  FlowsTrue'
<1> SUFFICES ASSUME NEW g \in Flows PROVE FlowTrue(g)'
  BY DEF FlowsTrue
<1>1. CASE g # f
  BY <1>1, FlowKept DEF PInv, FlowsTrue
<1> QED
  BY <1>1

\* An entry excludes the attempts of flows that are not closed.
LEMMA NoEntryWhile ==
  ASSUME TypeOK, PInv, NEW f \in Flows, f \notin closed, HasUniqueId(f)
  PROVE  ~HasEntry
BY DEF PInv, EntryEnds, InProgress

LEMMA PInit == Init => PInv
<1> SUFFICES ASSUME Init PROVE PInv
  OBVIOUS
<1>1. \A f \in Flows : /\ step[f] = "none" /\ error[f] = NoError /\ outcome[f] = NoError
                       /\ session[f] = NewSession
  BY DEF Init
<1>2. SessionTrue(NewSession)
  BY DEF SessionTrue, NewSession, NoError
<1>3. \A f \in Flows : OutcomeTrue(f) /\ ErrorTrue(f) /\ Fresh(f)
  BY <1>1 DEF OutcomeTrue, ErrorTrue, Fresh, Fits, NoError
<1>4. FlowsTrue
  BY <1>1, <1>2, <1>3 DEF FlowsTrue, FlowTrue
<1>5. LinkHeld /\ ~HasEntry
  BY DEF Init, LinkHeld, HasEntry, NoEntry
<1> QED
  BY <1>4, <1>5 DEF PInv, EntryEnds, EntryComplete

\* Steps of the user keep the invariant.
LEMMA PUser ==
  ASSUME TypeOK, TypeOK', PInv, NEW f \in Flows, UserStep(f)
  PROVE  PInv'
<1> USE DEF attemptVars
<1>0. step \in [Flows -> Steps] /\ error \in [Flows -> Keys \cup {NoError}]
  BY TypeParts
<1>1. ASSUME NEW a \in {"none", "user", "confirm"}, Goto(f, a), step[f] \notin Awaits,
             a = "confirm" => ~HasEntry,
             UNCHANGED <<closed, session, outcome, link, entry, attempts>>,
             error' = error \/ error' = [error EXCEPT ![f] = NoError]
      PROVE  PInv'
  <2>1. step'[f] = a /\ \A g \in Flows \ {f} : step'[g] = step[g]
    BY <1>0, <1>1 DEF Goto
  <2>2. error'[f] \in {error[f], NoError} /\ \A g \in Flows \ {f} : error'[g] = error[g]
    BY <1>0, <1>1
  <2>3. a \notin Awaits /\ a \notin {"establish", "startNotify"}
    BY DEF Awaits
  <2>4. FlowTrue(f)'
    BY <1>1, <2>1, <2>2, <2>3, FlowKept DEF PInv, FlowsTrue
  <2>5. FlowsTrue'
    BY <1>1, <2>1, <2>2, <2>4, OthersKept
  <2>6. LinkHeld'
    BY <1>1, <2>1 DEF PInv, LinkHeld
  <2>7. EntryEnds'
    BY <1>1, <2>1, <2>3 DEF PInv, EntryEnds, HasEntry, InProgress, HasUniqueId, Running
  <2>8. EntryComplete'
    BY <1>1 DEF PInv, EntryComplete, HasEntry
  <2> QED
    BY <2>5, <2>6, <2>7, <2>8 DEF PInv
<1>2. CASE Discovered(f)
  BY <1>1, <1>2 DEF Discovered, Awaits
<1>3. CASE UserStarts(f)
  BY <1>1, <1>3 DEF UserStarts, Awaits
<1>4. CASE UserChooses(f)
  BY <1>1, <1>4 DEF UserChooses, Awaits
<1>5. CASE CloseFlow(f)
  <2>1. CASE Running(f)
    <3>1. closed' = closed \cup {f} /\ UNCHANGED <<step, error, session, outcome, link, entry, attempts>>
      BY <1>5, <2>1 DEF CloseFlow
    <3>2. FlowsTrue'
      BY <3>1 DEF PInv, FlowsTrue, FlowTrue, SessionTrue, OutcomeTrue, ErrorTrue, Fresh, Running,
                  Fits
    <3>3. LinkHeld' /\ EntryEnds' /\ EntryComplete'
      BY <3>1 DEF PInv, LinkHeld, EntryEnds, EntryComplete, HasEntry, InProgress, HasUniqueId,
                  Running
    <3> QED
      BY <3>2, <3>3 DEF PInv
  <2>2. CASE ~Running(f)
    BY <1>1, <1>5, <2>2 DEF CloseFlow, Running
  <2> QED
    BY <2>1, <2>2
<1>6. CASE Submit(f)
  <2>1. /\ step[f] = "confirm" /\ step'[f] = "establish"
        /\ error'[f] = NoError /\ session'[f] = NewSession
        /\ UNCHANGED <<closed, outcome, link, entry>>
        /\ \A g \in Flows \ {f} : /\ step'[g] = step[g] /\ error'[g] = error[g]
                                 /\ session'[g] = session[g] /\ outcome'[g] = outcome[g]
    BY <1>6, TypeParts DEF Submit, Goto
  <2>2. outcome[f] = NoError
    BY <2>1, TypeParts
  <2>3. SessionTrue(NewSession)
    BY DEF SessionTrue, NewSession, NoError
  <2>4. FlowTrue(f)'
    BY <2>1, <2>2, <2>3 DEF FlowTrue, OutcomeTrue, ErrorTrue, Fresh, Fits, NoError
  <2>5. FlowsTrue'
    BY <2>1, <2>4, OthersKept
  <2>6. "confirm" \notin Awaits
    BY DEF Awaits
  <2>7. LinkHeld'
    BY <2>1, <2>6 DEF PInv, LinkHeld
  <2>8. f \notin closed
    BY <2>1, <2>6, TypeParts
  <2>9. ~HasEntry
    BY <2>1, <2>8, NoEntryWhile DEF HasUniqueId
  <2>10. EntryEnds' /\ EntryComplete'
    BY <2>1, <2>9 DEF EntryEnds, EntryComplete, HasEntry
  <2> QED
    BY <2>5, <2>7, <2>10 DEF PInv
<1> QED
  BY <1>2, <1>3, <1>4, <1>5, <1>6 DEF UserStep

\* A flow that returns, whose client is not the one of the link any more.
LEMMA PReturn ==
  ASSUME TypeOK, TypeOK', PInv, NEW f \in Flows, NEW e \in Keys \cup {NoError}, Return(f, e),
         step[f] \in {"establish", "disconnect"}, Fits(e, session[f]),
         link' \in Flows => link' = link /\ link # f,
         outcome' = outcome \/ outcome' = [outcome EXCEPT ![f] = NoError],
         UNCHANGED <<session, entry>>
  PROVE  PInv'
<1>1. /\ step'[f] = IF f \in closed THEN "none" ELSE "confirm"
      /\ error'[f] = IF f \in closed THEN NoError ELSE e
      /\ \A g \in Flows \ {f} : step'[g] = step[g] /\ error'[g] = error[g]
      /\ closed' = closed \ {f}
  BY TypeParts DEF Return, Goto
<1>2. outcome'[f] \in {outcome[f], NoError} /\ \A g \in Flows \ {f} : outcome'[g] = outcome[g]
  BY TypeParts
<1>3. step[f] \in Awaits /\ step'[f] \notin Awaits /\ step'[f] \notin {"establish", "startNotify"}
  BY <1>1 DEF Awaits
<1>4. FlowTrue(f)
  BY DEF PInv, FlowsTrue
<1>5. FlowTrue(f)'
  <2>1. SessionTrue(session[f])'
    BY <1>4 DEF FlowTrue, SessionTrue
  <2>2. OutcomeTrue(f)'
    BY <1>2, <1>4 DEF FlowTrue, OutcomeTrue, Fits, NoError
  <2>3. ErrorTrue(f)' /\ Fresh(f)'
    BY <1>1, <1>3 DEF ErrorTrue, Fresh, Running, Fits, NoError
  <2> QED
    BY <2>1, <2>2, <2>3 DEF FlowTrue
<1>6. FlowsTrue'
  BY <1>1, <1>2, <1>5, OthersKept
<1>7. LinkHeld'
  BY <1>1 DEF PInv, LinkHeld
<1>8. EntryEnds'
  <2>1. ASSUME HasEntry PROVE f \in closed
    BY <1>3, <2>1, NoEntryWhile DEF HasUniqueId, Running
  <2>2. HasEntry' <=> HasEntry
    BY DEF HasEntry
  <2>3. ASSUME HasEntry, NEW g \in Flows PROVE ~InProgress(g)'
    <3>1. CASE g = f
      BY <1>1, <1>3, <2>1, <2>3, <3>1 DEF InProgress, HasUniqueId, Running
    <3>2. CASE g # f
      BY <1>1, <2>3, <3>2 DEF PInv, EntryEnds, InProgress, HasUniqueId, Running
    <3> QED
      BY <3>1, <3>2
  <2> QED
    BY <2>2, <2>3 DEF EntryEnds
<1>9. EntryComplete'
  BY DEF PInv, EntryComplete, HasEntry
<1> QED
  BY <1>6, <1>7, <1>8, <1>9 DEF PInv

\* The entry is made from a session that has confirmed credentials and counters,
\* and takes the button from all other flows.
LEMMA PCreate ==
  ASSUME TypeOK, TypeOK', PInv, NEW f \in Flows, step[f] = "disconnect", outcome[f] = "result",
         session[f].paired, f \notin closed, CreateEntry(f),
         link' \in Flows => link' = link /\ link # f,
         outcome' = [outcome EXCEPT ![f] = NoError], UNCHANGED session
  PROVE  PInv'
<1>1. /\ step'[f] = "none" /\ error'[f] = NoError
      /\ \A g \in Flows \ {f} :
           /\ step'[g] = IF HasUniqueId(g) /\ ~Running(g) THEN "none" ELSE step[g]
           /\ error'[g] \in {error[g], NoError}
           /\ HasUniqueId(g) /\ Running(g) => g \in closed'
      /\ closed \subseteq closed'
  BY DEF CreateEntry
<1>2. \A g \in Flows : outcome'[g] \in {outcome[g], NoError}
  BY TypeParts
<1>3. "none" \notin Awaits
  BY DEF Awaits
<1>4. ASSUME NEW g \in Flows PROVE FlowTrue(g)'
  <2>1. FlowTrue(g)
    BY DEF PInv, FlowsTrue
  <2>2. step'[g] = "none" \/ step'[g] = step[g]
    BY <1>1
  <2>3. error'[g] \in {error[g], NoError}
    BY <1>1
  <2> QED
    BY <1>2, <1>3, <2>1, <2>2, <2>3, FlowKept
<1>5. LinkHeld'
  <2> SUFFICES ASSUME link' \in Flows PROVE step'[link'] \in Awaits \ {"establish"}
    BY DEF LinkHeld
  <2>1. step[link] \in Awaits \ {"establish"} /\ link' = link /\ link \in Flows \ {f}
    BY DEF PInv, LinkHeld
  <2> QED
    BY <1>1, <2>1 DEF Running
<1>6. EntryEnds'
  <2>1. ASSUME NEW g \in Flows PROVE ~InProgress(g)'
    <3>1. CASE g = f \/ step'[g] = "none"
      BY <1>1, <1>3, <3>1 DEF InProgress, HasUniqueId, Running
    <3>2. CASE g # f /\ step'[g] # "none"
      <4>1. step'[g] = step[g] /\ (HasUniqueId(g) => g \in closed')
        BY <1>1, <3>2
      <4> QED
        BY <4>1 DEF InProgress, HasUniqueId, Running
    <3> QED
      BY <3>1, <3>2
  <2> QED
    BY <2>1 DEF EntryEnds
<1>7. EntryComplete'
  <2>1. session[f].initialised /\ session[f].paired
    BY DEF PInv, FlowsTrue, FlowTrue, OutcomeTrue, SessionTrue
  <2>2. entry'.paired = session[f].paired /\ entry'.initialised = session[f].initialised
    BY DEF CreateEntry
  <2> QED
    BY <2>1, <2>2 DEF EntryComplete
<1> QED
  BY <1>4, <1>5, <1>6, <1>7 DEF PInv, FlowsTrue

\* The error key of a failure, or of a timeout, fits the progress.
LEMMA KeysFit ==
  ASSUME NEW s \in SessionRecords, SessionTrue(s)
  PROVE  /\ s.failure # NoError => Fits(ErrorKey[s.failure], s)
         /\ Fits(TimeoutKey(s.state), s)
         /\ Fits(ErrorKey["BleakError"], s) /\ Fits("pairing_failed", s)
         /\ Fits("result", s) /\ Fits(NoError, s)
<1>1. ASSUME s.failure # NoError PROVE Fits(ErrorKey[s.failure], s)
  <2>1. s.failure \in {"BleakError", "TimeoutError", "NoPairingSlotsError", "PairingModeError",
                       "PairingRejectedError", "AuthenticationError", "PairingError",
                       "FlicProtocolError", "StructError"}
    BY <1>1 DEF SessionRecords, ErrorKey
  <2>2. /\ ErrorKey[s.failure] = "public_mode_required" => s.failure = "PairingModeError"
        /\ ErrorKey[s.failure] = "pairing_rejected" => s.failure = "PairingRejectedError"
        /\ ErrorKey[s.failure] # "initialization_timeout"
    BY <2>1 DEF ErrorKey
  <2> QED
    BY <2>2 DEF Fits, SessionTrue
<1>2. Fits(TimeoutKey(s.state), s)
  <2>1. s.state \in States
    BY DEF SessionRecords
  <2>2. /\ TimeoutKey(s.state) = "public_mode_required" => s.state = "WAIT_FULL_VERIFY_1"
        /\ TimeoutKey(s.state) = "initialization_timeout" => s.state = "ESTABLISHED"
        /\ TimeoutKey(s.state) # "pairing_rejected"
    BY <2>1 DEF TimeoutKey, States
  <2> QED
    BY <2>2 DEF Fits, SessionTrue
<1>3. Fits(ErrorKey["BleakError"], s) /\ Fits("pairing_failed", s)
  BY DEF Fits, ErrorKey
<1>4. Fits("result", s) /\ Fits(NoError, s)
  BY DEF Fits, NoError
<1> QED
  BY <1>1, <1>2, <1>3, <1>4

\* Steps of async_pair_device keep the invariant.
LEMMA PPair ==
  ASSUME TypeOK, TypeOK', PInv, NEW f \in Flows, PairStep(f)
  PROVE  PInv'
<1> USE DEF attemptVars
<1>0. FlowTrue(f) /\ session[f] \in SessionRecords /\ SessionTrue(session[f])
  BY TypeParts DEF PInv, FlowsTrue, FlowTrue
\* From one await to another, with the link and the session at most as given.
<1>1. ASSUME NEW a \in Awaits \ {"establish"}, Goto(f, a), step[f] \in Awaits,
             FlowTrue(f)', link' \in {link, f},
             \A g \in Flows \ {f} : session'[g] = session[g] /\ outcome'[g] = outcome[g],
             UNCHANGED <<error, closed, entry>>
      PROVE  PInv'
  <2>1. step'[f] = a /\ \A g \in Flows \ {f} : step'[g] = step[g]
    BY <1>1, TypeParts DEF Goto
  <2>2. FlowsTrue'
    BY <1>1, <2>1, OthersKept
  <2>3. LinkHeld'
    BY <1>1, <2>1 DEF PInv, LinkHeld
  <2>4. EntryEnds'
    BY <1>1, <2>1 DEF PInv, EntryEnds, HasEntry, InProgress, HasUniqueId, Running
  <2>5. EntryComplete'
    BY <1>1 DEF PInv, EntryComplete, HasEntry
  <2> QED
    BY <2>2, <2>3, <2>4, <2>5 DEF PInv
<1>2. ASSUME NEW a \in Awaits \ {"establish", "startNotify"}, Goto(f, a), step[f] \in Awaits,
             UNCHANGED <<error, closed, session, outcome, link, entry>>
      PROVE  PInv'
  <2>1. step'[f] = a
    BY <1>2, TypeParts DEF Goto
  <2>2. FlowTrue(f)'
    BY <1>0, <1>2, <2>1, FlowKept
  <2> QED
    BY <1>1, <1>2, <2>2
<1>3. ASSUME NEW o \in Keys \cup {"result"}, Finally(f, o), step[f] \in Awaits,
             Fits(o, session[f]),
             o = "result" => session[f].failure = NoError /\ session[f].ready
      PROVE  PInv'
  <2>1. "disconnect" \in Awaits \ {"establish"} /\ "disconnect" # "startNotify"
    BY DEF Awaits
  <2>2. /\ step'[f] = "disconnect" /\ outcome'[f] = o
        /\ \A g \in Flows \ {f} : outcome'[g] = outcome[g]
        /\ UNCHANGED <<error, closed, session, link, entry>>
    BY <1>3, TypeParts DEF Finally, Goto
  <2>3. SessionTrue(session[f])' /\ OutcomeTrue(f)'
    BY <1>0, <1>3, <2>2 DEF SessionTrue, OutcomeTrue, Fits
  <2>4. ErrorTrue(f)' /\ Fresh(f)'
    BY <1>0, <1>3, <2>2 DEF FlowTrue, ErrorTrue, Fresh, Running, Fits
  <2>5. FlowTrue(f)'
    BY <2>3, <2>4 DEF FlowTrue
  <2> QED
    BY <1>1, <1>3, <2>1, <2>2, <2>5 DEF Finally
<1>4. ASSUME Decided(f), session[f].ready, step[f] \in Awaits PROVE PInv'
  <2>1. CASE session[f].failure # NoError
    <3>1. session[f].failure \in DOMAIN ErrorKey
      BY <1>0, <2>1 DEF SessionRecords
    <3>2. ErrorKey[session[f].failure] \in Keys
      BY <3>1, ProperKeys
    <3>3. ErrorKey[session[f].failure] # "result"
      BY <3>2, ProperKeys
    <3>4. Fits(ErrorKey[session[f].failure], session[f])
      BY <1>0, <2>1, KeysFit
    <3> QED
      BY <1>3, <1>4, <2>1, <3>2, <3>3, <3>4 DEF Decided
  <2>2. CASE session[f].failure = NoError
    <3>1. Fits("result", session[f])
      BY <1>0, KeysFit
    <3> QED
      BY <1>3, <1>4, <2>2, <3>1 DEF Decided
  <2> QED
    BY <2>1, <2>2
<1>5. CASE EstablishRaises(f)
  <2>1. link \in Flows => link # f
    BY <1>5 DEF EstablishRaises, PInv, LinkHeld
  <2>2. Fits(ErrorKey["BleakError"], session[f]) /\ ErrorKey["BleakError"] \in Keys
    BY <1>0, KeysFit, ProperKeys
  <2> QED
    BY <1>5, <2>1, <2>2, PReturn DEF EstablishRaises
<1>6. CASE Established(f)
  <2>1. "startNotify" \in Awaits \ {"establish"} /\ "establish" \in Awaits
    BY DEF Awaits
  <2>2. step[f] = "establish" /\ step'[f] = "startNotify"
    BY <1>6, TypeParts DEF Established, Goto
  <2>3. FlowTrue(f)'
    BY <1>0, <1>6, <2>1, <2>2, FlowKept DEF Established
  <2> QED
    BY <1>1, <1>6, <2>1, <2>2, <2>3 DEF Established
<1>7. CASE NotifyStarted(f)
  <2>1. /\ "sendRequest" \in Awaits \ {"establish", "startNotify"} /\ "startNotify" \in Awaits
        /\ "startNotify" # "disconnect"
    BY DEF Awaits
  <2>2. /\ step[f] = "startNotify" /\ step'[f] = "sendRequest"
        /\ session'[f] = [session[f] EXCEPT !.state = "WAIT_FULL_VERIFY_1",
                                            !.furthest = "WAIT_FULL_VERIFY_1"]
        /\ \A g \in Flows \ {f} : session'[g] = session[g]
    BY <1>7, TypeParts DEF NotifyStarted, Goto
  <2>3. /\ session[f].furthest = "IDLE" /\ outcome[f] = NoError /\ error[f] = NoError
        /\ session[f] \in SessionRecords /\ SessionTrue(session[f])
    BY <1>0, <2>1, <2>2, TypeParts DEF FlowTrue, Fresh, ErrorTrue, Running
  <2>4. SessionTrue(session[f])'
    <3> DEFINE s == [session[f] EXCEPT !.state = "WAIT_FULL_VERIFY_1",
                                       !.furthest = "WAIT_FULL_VERIFY_1"]
    <3>1. /\ s.state = "WAIT_FULL_VERIFY_1" /\ s.furthest = "WAIT_FULL_VERIFY_1"
          /\ s.failure = session[f].failure /\ s.ready = session[f].ready
          /\ s.paired = session[f].paired /\ s.initialised = session[f].initialised
      BY <2>3 DEF SessionRecords
    <3>2. SessionTrue(s)
      BY <2>3, <3>1 DEF SessionTrue
    <3> QED
      BY <2>2, <3>2 DEF SessionTrue
  <2>5. OutcomeTrue(f)' /\ ErrorTrue(f)' /\ Fresh(f)'
    BY <1>7, <2>1, <2>2, <2>3 DEF NotifyStarted, OutcomeTrue, ErrorTrue, Fresh, Fits, NoError
  <2>6. FlowTrue(f)'
    BY <2>4, <2>5 DEF FlowTrue
  <2> QED
    BY <1>1, <1>7, <2>1, <2>2, <2>6 DEF NotifyStarted
<1>8. CASE CallRaises(f)
  <2>1. /\ Fits(ErrorKey["BleakError"], session[f]) /\ ErrorKey["BleakError"] \in Keys
        /\ ErrorKey["BleakError"] # "result"
    BY <1>0, KeysFit, ProperKeys
  <2> QED
    BY <1>3, <1>8, <2>1 DEF CallRaises, Awaits
<1>9. ASSUME AwaitSession(f), step[f] \in Awaits PROVE PInv'
  BY <1>2, <1>4, <1>9 DEF AwaitSession, Awaits
<1>10. CASE RequestSent(f) \/ CompleteWoken(f)
  BY <1>9, <1>10 DEF RequestSent, CompleteWoken, Awaits
<1>11. CASE ReadyWoken(f)
  BY <1>4, <1>11 DEF ReadyWoken, Awaits
<1>12. CASE TimedOut(f)
  <2>1. session[f].state \in States
    BY <1>0 DEF SessionRecords
  <2>2. TimeoutKey(session[f].state) \in Keys /\ Fits(TimeoutKey(session[f].state), session[f])
    BY <1>0, <2>1, KeysFit, ProperKeys
  <2>3. TimeoutKey(session[f].state) # "result"
    BY <2>2, ProperKeys
  <2> QED
    BY <1>3, <1>12, <2>2, <2>3 DEF TimedOut, Awaits
<1>13. CASE Disconnected(f)
  <2>1. /\ step[f] = "disconnect" /\ outcome' = [outcome EXCEPT ![f] = NoError]
        /\ UNCHANGED session
        /\ link' \in Flows => link' = link /\ link # f
    BY <1>13, FlowAssumption DEF Disconnected
  <2>2. CASE outcome[f] # "result"
    <3>1. outcome[f] \in Keys \cup {NoError} /\ Fits(outcome[f], session[f])
      BY <1>0, <2>2, TypeParts DEF FlowTrue, OutcomeTrue
    <3>2. Return(f, outcome[f]) /\ UNCHANGED entry
      BY <1>13, <2>2 DEF Disconnected
    <3> QED
      BY <2>1, <3>1, <3>2, PReturn
  <2>3. CASE outcome[f] = "result" /\ ~session[f].paired
    <3>1. "pairing_failed" \in Keys /\ Fits("pairing_failed", session[f])
      BY <1>0, KeysFit DEF Keys, ErrorKey
    <3>2. Return(f, "pairing_failed") /\ UNCHANGED entry
      BY <1>13, <2>3 DEF Disconnected
    <3> QED
      BY <2>1, <3>1, <3>2, PReturn
  <2>4. CASE outcome[f] = "result" /\ session[f].paired /\ f \in closed
    <3>1. Return(f, NoError) /\ UNCHANGED entry /\ Fits(NoError, session[f])
      BY <1>0, <1>13, <2>4, KeysFit DEF Disconnected
    <3> QED
      BY <2>1, <3>1, PReturn
  <2>5. CASE outcome[f] = "result" /\ session[f].paired /\ f \notin closed
    <3>1. CreateEntry(f)
      BY <1>13, <2>5 DEF Disconnected
    <3> QED
      BY <2>1, <2>5, <3>1, PCreate
  <2> QED
    BY <2>2, <2>3, <2>4, <2>5
<1> QED
  BY <1>5, <1>6, <1>7, <1>8, <1>10, <1>11, <1>12, <1>13 DEF PairStep

\* Steps of the session keep the invariant.
LEMMA PSession ==
  ASSUME TypeOK, TypeOK', PInv, NEW f \in Flows, SessionStep(f)
  PROVE  PInv'
<1>0. FlowTrue(f) /\ session[f] \in SessionRecords /\ SessionTrue(session[f])
  BY TypeParts DEF PInv, FlowsTrue, FlowTrue
<1>1. ASSUME NEW s \in SessionRecords, SessionChanges(f, s), Fed(f), SessionTrue(s),
             s.furthest = session[f].furthest \/ step[f] # "startNotify"
      PROVE  PInv'
  <2>1. /\ session'[f] = s /\ \A g \in Flows \ {f} : session'[g] = session[g]
        /\ UNCHANGED <<step, error, closed, outcome, link, entry>>
    BY <1>1, TypeParts DEF SessionChanges
  <2>2. Running(f)
    BY <1>1 DEF Fed, PInv, LinkHeld, Running
  <2>3. error[f] = NoError /\ outcome[f] = NoError
    BY <1>0, <1>1, <2>2, TypeParts DEF Fed, FlowTrue, ErrorTrue
  <2>4. step[f] # "establish" /\ (step[f] = "startNotify" => s.furthest = "IDLE")
    BY <1>0, <1>1 DEF Fed, FlowTrue, Fresh, PInv, LinkHeld
  <2>5. FlowTrue(f)'
    <3>1. SessionTrue(session[f])'
      BY <1>1, <2>1 DEF SessionTrue
    <3>2. OutcomeTrue(f)' /\ ErrorTrue(f)' /\ Fresh(f)'
      BY <2>1, <2>3, <2>4 DEF OutcomeTrue, ErrorTrue, Fresh, Fits, Running, NoError
    <3> QED
      BY <3>1, <3>2 DEF FlowTrue
  <2>6. FlowsTrue'
    BY <2>1, <2>5, OthersKept
  <2>7. LinkHeld' /\ EntryEnds' /\ EntryComplete'
    BY <2>1 DEF PInv, LinkHeld, EntryEnds, EntryComplete, HasEntry, InProgress, HasUniqueId,
                Running
  <2> QED
    BY <2>6, <2>7 DEF PInv
<1>2. "BleakError" \in DOMAIN ErrorKey
  BY DEF ErrorKey
<1>3. CASE FirstVerified(f)
  <2> DEFINE s == [session[f] EXCEPT !.state = "WAIT_FULL_VERIFY_2",
                                     !.furthest = "WAIT_FULL_VERIFY_2"]
  <2>1. s \in SessionRecords
    BY <1>0, <1>2, SessionUpdates
  <2>2. SessionTrue(s)
    BY <1>0, <1>3 DEF FirstVerified, SessionTrue, SessionRecords, NoError
  <2>3. step[f] # "startNotify"
    BY <1>0, <1>3 DEF FirstVerified, SessionTrue, FlowTrue, Fresh
  <2> QED
    BY <1>1, <1>3, <2>1, <2>2, <2>3 DEF FirstVerified
<1>4. CASE SecondVerified(f)
  <2> DEFINE s == [session[f] EXCEPT !.state = "ESTABLISHED", !.complete = TRUE, !.paired = TRUE,
                                     !.furthest = "ESTABLISHED"]
  <2>1. s \in SessionRecords
    BY <1>0, <1>2, SessionUpdates
  <2>2. SessionTrue(s)
    BY <1>0, <1>4 DEF SecondVerified, SessionTrue, SessionRecords, NoError
  <2>3. step[f] # "startNotify"
    BY <1>0, <1>4 DEF SecondVerified, SessionTrue, FlowTrue, Fresh
  <2> QED
    BY <1>1, <1>4, <2>1, <2>2, <2>3 DEF SecondVerified
<1>5. CASE SessionReady(f)
  <2> DEFINE s == [session[f] EXCEPT !.ready = TRUE, !.initialised = TRUE]
  <2>1. s \in SessionRecords
    BY <1>0, <1>2, SessionUpdates
  <2>2. SessionTrue(s)
    BY <1>0, <1>5 DEF SessionReady, SessionTrue, SessionRecords, NoError
  <2>3. s.furthest = session[f].furthest
    BY <1>0 DEF SessionRecords
  <2> QED
    BY <1>1, <1>5, <2>1, <2>2, <2>3 DEF SessionReady
<1>6. ASSUME NEW e \in DOMAIN ErrorKey, SessionFails(f, e) PROVE PInv'
  <2> DEFINE s == [session[f] EXCEPT !.state = "FAILED", !.failure = e, !.ready = TRUE,
                                     !.complete = TRUE]
  <2>1. s \in SessionRecords
    BY <1>0, <1>2, SessionUpdates
  <2>2. SessionTrue(s)
    <3>1. e # NoError
      BY DEF ErrorKey, NoError
    <3>2. /\ e = "PairingModeError" => session[f].state = "WAIT_FULL_VERIFY_1"
          /\ e = "PairingRejectedError" => session[f].state = "WAIT_FULL_VERIFY_2"
      <4>1. session[f].state \in States /\ e \in Failures[session[f].state]
        BY <1>0, <1>6 DEF SessionFails, SessionRecords
      <4> QED
        BY <4>1 DEF Failures, States
    <3>3. session[f].state # "FAILED" => session[f].furthest = session[f].state
      BY <1>0 DEF SessionTrue
    <3>4. /\ s.state = "FAILED" /\ s.failure = e /\ s.furthest = session[f].furthest
      BY <1>0 DEF SessionRecords
    <3> QED
      BY <3>1, <3>2, <3>3, <3>4 DEF SessionTrue
  <2>3. s.furthest = session[f].furthest
    BY <1>0 DEF SessionRecords
  <2> QED
    BY <1>1, <1>6, <2>1, <2>2, <2>3 DEF SessionFails
<1> QED
  BY <1>3, <1>4, <1>5, <1>6 DEF SessionStep

LEMMA PStep == TypeOK /\ TypeOK' /\ PInv /\ [Next]_vars => PInv'
<1> SUFFICES ASSUME TypeOK, TypeOK', PInv, [Next]_vars PROVE PInv'
  OBVIOUS
<1>1. CASE UNCHANGED <<step, error, closed, session, outcome, entry>> /\ link' \in {link, NoFlow}
  <2>1. FlowsTrue'
    BY <1>1 DEF PInv, FlowsTrue, FlowTrue, SessionTrue, OutcomeTrue, ErrorTrue, Fresh, Running, Fits
  <2>2. LinkHeld'
    BY <1>1 DEF PInv, LinkHeld
  <2>3. EntryEnds' /\ EntryComplete'
    BY <1>1 DEF PInv, EntryEnds, EntryComplete, HasEntry, InProgress, HasUniqueId, Running
  <2> QED
    BY <2>1, <2>2, <2>3 DEF PInv
<1>2. CASE LinkLost
  BY <1>1, <1>2 DEF LinkLost
<1>3. CASE UNCHANGED vars
  BY <1>1, <1>3 DEF vars
<1> QED
  BY <1>2, <1>3, PUser, PPair, PSession DEF Next

\* A link is held by a running attempt, an entry excludes further attempts, and
\* what is decided and shown about an attempt is true of its session.
THEOREM PairingInvariant == Spec => []PInv
<1> QED
  BY TypeInit, TypeStep, PInit, PStep, PTL DEF Spec

\* However an attempt ends, its client was told to disconnect by the time the
\* form is answered.
THEOREM LinksReleased == Spec => []LinkReleased
<1>1. PInv => LinkReleased
  BY DEF PInv, LinkHeld, LinkReleased, Running
<1> QED
  BY <1>1, PairingInvariant, PTL

\* An entry holds confirmed credentials and received counters, whatever timeouts
\* and failures race with the session.
THEOREM EntriesComplete == Spec => []EntryComplete
<1>1. PInv => EntryComplete
  BY DEF PInv
<1> QED
  BY <1>1, PairingInvariant, PTL

\* The error that a form shows fits how far the button went along.
THEOREM ErrorsFit == Spec => []ErrorFitsProgress
<1>1. PInv => ErrorFitsProgress
  BY DEF PInv, FlowsTrue, FlowTrue, ErrorTrue, Fits, ErrorFitsProgress
<1> QED
  BY <1>1, PairingInvariant, PTL

\* A button with an entry does not get another one, whichever flow asks.
THEOREM NoSecondEntry == Spec => EntryNeverReplaced
<1>1. TypeOK /\ PInv /\ [Next]_vars => [HasEntry => entry' = entry]_vars
  <2> SUFFICES ASSUME TypeOK, PInv, [Next]_vars, HasEntry PROVE entry' = entry
    OBVIOUS
  <2>1. ASSUME NEW f \in Flows, Disconnected(f) PROVE entry' = entry
    <3>1. f \in closed
      BY <2>1, NoEntryWhile DEF Disconnected, HasUniqueId, Running, Awaits
    <3> QED
      BY <2>1, <3>1 DEF Disconnected
  <2>2. ASSUME NEW f \in Flows, UserStep(f) PROVE entry' = entry
    BY <2>2 DEF UserStep, Discovered, UserStarts, UserChooses, CloseFlow, Submit
  <2>3. ASSUME NEW f \in Flows, PairStep(f) PROVE entry' = entry
    BY <2>1, <2>3 DEF PairStep, EstablishRaises, Established, NotifyStarted, CallRaises,
       RequestSent, CompleteWoken, ReadyWoken, TimedOut, AwaitSession, Decided, Finally
  <2>4. ASSUME NEW f \in Flows, SessionStep(f) PROVE entry' = entry
    BY <2>4 DEF SessionStep, FirstVerified, SecondVerified, SessionReady, SessionFails,
       SessionChanges
  <2>5. CASE LinkLost \/ UNCHANGED vars
    BY <2>5 DEF LinkLost, vars
  <2> QED
    BY <2>2, <2>3, <2>4, <2>5 DEF Next
<1> QED
  BY <1>1, TypeCorrect, PairingInvariant, PTL DEF Spec, EntryNeverReplaced
=============================================================================
