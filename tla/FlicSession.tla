------------------------------ MODULE FlicSession ------------------------------
(***************************************************************************)
(* One authenticated session with a button: class FlicSession of           *)
(* custom_components/flic_ble/protocol.py, the notification tasks that     *)
(* feed it (runtime.py), and a button as that code uses one.               *)
(*                                                                         *)
(* A notification is handled by a coroutine that is suspended only in      *)
(* send_gatt.  current is the coroutine the event loop is running: it      *)
(* keeps the loop until it suspends or returns, so nothing else steps.     *)
(* Cryptography is symbolic: a signature is the pair of a key and a        *)
(* counter, and only equal pairs verify.                                   *)
(***************************************************************************)
EXTENDS Naturals, Sequences

CONSTANTS
    Handlers,          \* coroutines running feed_gatt
    Starter,           \* the coroutine running start()
    NoCoro,            \* the event loop is free
    Setups,            \* what sessions are set up for: see SetupAssumption
    Strays,            \* per setup: packets that are not replies to the session
    MaxQueue           \* bound on notifications in flight for spontaneous ones

ASSUME CoroAssumption == Starter \notin Handlers /\ NoCoro \notin Handlers \cup {Starter}
\* full: no credentials are stored, so the verification is the full one; lock:
\* feed_gatt calls are serialized; smallMtu: the MTU is 23 and long packets are
\* fragmented; duo: the button is a Flic Duo; honest: what is not a reply is for
\* another client; maxSigned: bound on the packets the button signs.
ASSUME SetupAssumption ==
    Setups \subseteq [full : BOOLEAN, lock : BOOLEAN, smallMtu : BOOLEAN,
                      duo : BOOLEAN, honest : BOOLEAN, maxSigned : Nat]
ASSUME BoundAssumption == MaxQueue \in Nat

VARIABLES
    setup,            \* one of Setups; it never changes
    started,          \* start() has been called
    state,            \* self.state
    ready,            \* self.ready
    pairingComplete,  \* self.pairing_complete
    failure,          \* self.failure
    pairing,          \* self.result.pairing is not None
    connId,           \* self._conn_id
    sessionKey,       \* self._session_key
    rxCounter,        \* self._rx_counter
    txCounter,        \* self._tx_counter
    eventCount,       \* self.result.event_count
    pendingFragment,  \* self._pending_fragment, the packets it has pieces of
    packets,          \* packets each coroutine has still to handle
    out,              \* GATT writes each coroutine has still to issue
    writing,          \* coroutines suspended in send_gatt
    failed,           \* coroutines that had a write that did not go out
    current,          \* the coroutine on the event loop
    delivered,        \* event counts given to the event callback, in order
    downlink,         \* notifications on their way from the button
    uplink,           \* GATT writes on their way to the button
    broken,           \* the connection is lost
    bState,           \* the button: where it is in the handshake
    bKey,             \* the button: its session key
    bTx,              \* the button: packets signed so far
    bRx,              \* the button: signed packets accepted so far
    bCount,           \* the button: its event counter
    bAcked,           \* the button: the last event count acknowledged
    bPending,         \* the button: writes of a packet not complete yet
    refused           \* the button: it has refused a packet and goes on no more

stateVars == <<started, state, ready, pairingComplete, failure, pairing>>
authVars == <<connId, sessionKey, rxCounter>>
eventVars == <<eventCount, delivered>>
coroVars == <<packets, out, writing, failed, current>>
linkVars == <<downlink, uplink, broken>>
buttonVars == <<bState, bKey, bTx, bRx, bCount, bAcked, bPending, refused>>
vars == <<setup, stateVars, authVars, txCounter, eventVars, pendingFragment,
          coroVars, linkVars, buttonVars>>

Coros == Handlers \cup {Starter}

States == {"IDLE", "WAIT_FULL_VERIFY_1", "WAIT_FULL_VERIFY_2",
           "WAIT_QUICK_VERIFY", "ESTABLISHED", "FAILED"}
Errors == {"PairingError", "AuthenticationError", "PairingModeError",
           "NoPairingSlotsError", "PairingRejectedError", "FlicProtocolError",
           "BleakError", "StructError"}
NoFailure == "None"
NoKey == "None"
NoSig == <<>>

(* Packets.  fault names the test of the code that the packet does not pass. *)

Opcodes == {"EMPTY", "NO_LOGICAL_CONNECTION_SLOTS",
            "FULL_VERIFY_REQUEST_1", "FULL_VERIFY_RESPONSE_1", "FULL_VERIFY_REQUEST_2",
            "FULL_VERIFY_RESPONSE_2", "FULL_VERIFY_FAIL_RESPONSE",
            "QUICK_VERIFY_REQUEST", "QUICK_VERIFY_RESPONSE",
            "QUICK_VERIFY_NEGATIVE_RESPONSE", "INIT_BUTTON_EVENTS", "INIT_RESPONSE",
            "BUTTON_EVENT", "ACK_BUTTON_EVENTS", "PING_REQUEST", "PING_RESPONSE",
            "GET_BATTERY_LEVEL_RESPONSE", "DISCONNECT_VERIFIED_LINK", "OTHER", "GARBLED"}

\* The key of this session, one that only one side has, another session's, none
\* yet, and what a packet that was put together wrongly is signed with.
Keys == {"own", "mixed", "theirs", NoKey, "garbled"}

Faults == {"none", "short", "address", "mode", "certificate", "credentials", "bootId"}

Packets == [op : Opcodes, conn : Nat, new : BOOLEAN, tmp : {"own", "other"},
            sig : {NoSig} \cup (Keys \X Nat), fault : Faults, count : Nat,
            ack : BOOLEAN]

Plain == [op |-> "OTHER", conn |-> 0, new |-> FALSE, tmp |-> "own",
          sig |-> NoSig, fault |-> "none", count |-> 0, ack |-> FALSE]

\* The logical connection the button assigns.
OwnConn == 1

\* Packets for another client of the button: their logical connection is not the
\* session's, and an assignment of one carries another temporary id.
Foreign(p) ==
    \/ p.op = "EMPTY"
    \/ /\ p.op = "NO_LOGICAL_CONNECTION_SLOTS"
       /\ p.tmp # "own" /\ p.fault = "none"
    \/ /\ p.op # "NO_LOGICAL_CONNECTION_SLOTS"
       /\ p.conn # OwnConn
       /\ p.op \in {"FULL_VERIFY_RESPONSE_1", "QUICK_VERIFY_RESPONSE"} =>
              p.new /\ p.tmp # "own" /\ p.fault # "short"

\* A packet with a signature made with the session key.
OwnSigned(p) == p.sig # NoSig /\ p.sig[1] = "own"

\* An answer to the first request of a pairing that passes every test: only the
\* button can sign its address and the session's temporary id.
Offer(p) ==
    /\ p.op = "FULL_VERIFY_RESPONSE_1" /\ p.new /\ p.tmp = "own"
    /\ p.fault = "none"

\* Packets of the session that another test than that of the signature rejects.
Malformed(p) ==
    /\ p.op \in {"FULL_VERIFY_RESPONSE_2", "INIT_RESPONSE", "BUTTON_EVENT"}
    /\ p.fault # "none" \/ p.conn # OwnConn

\* Nobody but the button has its certificate and the session key.
ASSUME StrayAssumption ==
    \A s \in Setups : \A p \in Strays[s] :
        /\ p \in Packets
        /\ s.honest => Foreign(p)
        /\ ~Offer(p)
        /\ OwnSigned(p) => Malformed(p)

\* Packets that do not fit a GATT write of 23 bytes.
Long(op) ==
    /\ setup.smallMtu
    /\ \/ op \in {"FULL_VERIFY_RESPONSE_1", "FULL_VERIFY_REQUEST_2",
                  "FULL_VERIFY_RESPONSE_2"}
       \/ setup.duo /\ op \in {"INIT_BUTTON_EVENTS", "INIT_RESPONSE"}

\* A packet in a value of its own, and the piece of it that another one follows;
\* more is the fragment bit.
Whole(p) == [more |-> FALSE, packets |-> <<p>>]
Piece(p) == [more |-> TRUE, packets |-> <<p>>]

\* A plausible bug: the last fragment keeps the fragment bit.
MutFragmentsNeverEnd(p) == IF Long(p.op) THEN <<Piece(p), Piece(p)>> ELSE <<Whole(p)>>

\* A packet as the GATT values that carry it.
Fragments(p) == IF Long(p.op) THEN <<Piece(p), Whole(p)>> ELSE <<Whole(p)>>

\* What the pieces held so far and the last piece, of packet p, amount to.
Joined(pieces, p) ==
    IF pieces = <<>> \/ pieces = <<p>>
    THEN p
    ELSE [p EXCEPT !.op = "GARBLED", !.sig = <<"garbled", 0>>]

\* The session key is derived from the randoms of both sides: a response
\* meant for another client gives a key nobody has.
DerivedKey(p) == IF p.tmp = "own" THEN "own" ELSE "mixed"

Init ==
    /\ setup \in Setups
    /\ started = FALSE
    /\ state = "IDLE"
    /\ ready = FALSE
    /\ pairingComplete = FALSE
    /\ failure = NoFailure
    /\ pairing = ~setup.full
    /\ connId = 0
    /\ sessionKey = NoKey
    /\ rxCounter = 0
    /\ txCounter = 0
    /\ eventCount = 0
    /\ delivered = <<>>
    /\ pendingFragment = <<>>
    /\ packets = [h \in Coros |-> <<>>]
    /\ out = [h \in Coros |-> <<>>]
    /\ writing = {}
    /\ failed = {}
    /\ current = NoCoro
    /\ downlink = <<>>
    /\ uplink = <<>>
    /\ broken = FALSE
    /\ bState = "idle"
    /\ bKey = NoKey
    /\ bTx = 0
    /\ bRx = 0
    /\ bCount = 0
    /\ bAcked = 0
    /\ bPending = <<>>
    /\ refused = FALSE

-----------------------------------------------------------------------------
(* Sending *)

\* send_gatt with the first of these values: the value is on its way, or it is
\* not, though the link may last, and the call will raise.
Write(h, values) ==
    \/ /\ uplink' = Append(uplink, Head(values))
       /\ out' = [out EXCEPT ![h] = Tail(values)]
       /\ UNCHANGED failed
    \/ /\ failed' = failed \cup {h}
       /\ out' = [out EXCEPT ![h] = <<>>]
       /\ UNCHANGED uplink

\* _send_packet up to its first suspension; the rest is written as each
\* send_gatt returns.
Send(h, p) == Write(h, Fragments(p)) /\ writing' = writing \cup {h}

\* start(): choose the handshake and send its request.
Start ==
    /\ ~started /\ current = NoCoro
    /\ started' = TRUE
    /\ \/ /\ ~pairing
          /\ state' = "WAIT_FULL_VERIFY_1"
          /\ Send(Starter, [Plain EXCEPT !.op = "FULL_VERIFY_REQUEST_1"])
       \/ /\ pairing
          /\ state' = "WAIT_QUICK_VERIFY"
          /\ Send(Starter, [Plain EXCEPT !.op = "QUICK_VERIFY_REQUEST"])
    /\ UNCHANGED <<setup, ready, pairingComplete, failure, pairing, authVars,
                   txCounter, eventVars, pendingFragment, packets, current,
                   downlink, broken, buttonVars>>

\* send_gatt returns: write the next fragment, or go on with what follows.
WriteReturns(h) ==
    /\ h \in writing \ failed /\ current = NoCoro
    /\ \/ /\ out[h] # <<>>
          /\ Write(h, out[h])
          /\ UNCHANGED <<writing, current>>
       \/ /\ out[h] = <<>>
          /\ writing' = writing \ {h}
          /\ current' = IF packets[h] = <<>> THEN NoCoro ELSE h
          /\ UNCHANGED <<out, uplink, failed>>
    /\ UNCHANGED <<setup, stateVars, authVars, txCounter, eventVars, pendingFragment,
                   packets, downlink, broken, buttonVars>>

\* A plausible bug: the waiters are woken and the failure is not recorded.
MutFailUnrecorded(h, err) ==
    /\ state' = "FAILED"
    /\ ready' = TRUE
    /\ pairingComplete' = TRUE
    /\ packets' = [packets EXCEPT ![h] = <<>>]
    /\ current' = NoCoro
    /\ UNCHANGED failure

\* The handler of feed_gatt: the failure is recorded and wakes the waiters.
Fail(h, err) ==
    /\ failure' = err
    /\ state' = "FAILED"
    /\ ready' = TRUE
    /\ pairingComplete' = TRUE
    /\ packets' = [packets EXCEPT ![h] = <<>>]
    /\ current' = NoCoro

\* A plausible bug: a handler that cannot write is dropped, the session goes on.
MutWriteErrorDropped(h) ==
    /\ h \in writing /\ current = NoCoro
    /\ writing' = writing \ {h}
    /\ out' = [out EXCEPT ![h] = <<>>]
    /\ packets' = [packets EXCEPT ![h] = <<>>]
    /\ UNCHANGED <<setup, stateVars, authVars, txCounter, eventVars, current,
                   pendingFragment, failed, linkVars, buttonVars>>

\* send_gatt raises, whether the value went out or not: in start() the caller gets the
\* exception, in a handler feed_gatt records it.
WriteRaises(h) ==
    /\ h \in writing /\ current = NoCoro
    /\ writing' = writing \ {h}
    /\ out' = [out EXCEPT ![h] = <<>>]
    /\ \/ /\ h = Starter
          /\ UNCHANGED <<state, ready, pairingComplete, failure, packets,
                         current>>
       \/ /\ h # Starter
          /\ Fail(h, "BleakError")
    /\ UNCHANGED <<setup, started, pairing, authVars, txCounter, eventVars,
                   pendingFragment, failed, linkVars, buttonVars>>

-----------------------------------------------------------------------------
(* Receiving *)

Idle(h) == packets[h] = <<>> /\ h \notin writing

\* A plausible bug: the notification tasks share no lock.
MutLockFreeAlways == TRUE

\* The lock admits one feed_gatt at a time and is first come, first served.
LockFree == setup.lock => \A g \in Handlers : Idle(g)

\* feed_gatt on the next notification, up to its first packet: _defragment.
Feed(h) ==
    /\ downlink # <<>> /\ current = NoCoro
    /\ Idle(h) /\ LockFree
    /\ downlink' = Tail(downlink)
    /\ LET value == Head(downlink) IN
       \/ /\ value.more
          /\ pendingFragment' = pendingFragment \o value.packets
          /\ UNCHANGED <<packets, current>>
       \/ /\ ~value.more /\ pendingFragment # <<>>
          /\ pendingFragment' = <<>>
          /\ packets' = [packets EXCEPT
                           ![h] = <<Joined(pendingFragment, Head(value.packets))>>]
          /\ current' = h
       \/ /\ ~value.more /\ pendingFragment = <<>>
          /\ packets' = [packets EXCEPT ![h] = value.packets]
          /\ current' = h
          /\ UNCHANGED pendingFragment
    /\ UNCHANGED <<setup, stateVars, authVars, txCounter, eventVars, out, writing,
                   failed, uplink, broken, buttonVars>>

\* A plausible bug: the loop over the packets of a notification does not end.
MutReturnGoesOn(h) ==
    /\ packets' = [packets EXCEPT ![h] = Tail(@)]
    /\ current' = h
    /\ UNCHANGED <<out, writing, failed, uplink>>

\* _handle_packet returns without suspending.
Return(h) ==
    /\ packets' = [packets EXCEPT ![h] = Tail(@)]
    /\ current' = IF Tail(packets[h]) = <<>> THEN NoCoro ELSE h
    /\ UNCHANGED <<out, writing, failed, uplink>>

\* _handle_packet suspends in the send of packet p.
Reply(h, p) ==
    /\ packets' = [packets EXCEPT ![h] = Tail(@)]
    /\ current' = NoCoro
    /\ Send(h, p)

\* _handle_packet raises.
Raise(h, err) ==
    /\ Fail(h, err)
    /\ UNCHANGED <<out, writing, failed, uplink>>

\* _send_signed: the counter moves with the signature.
ReplySigned(h, p, key) ==
    /\ Reply(h, [p EXCEPT !.sig = <<key, txCounter>>])
    /\ txCounter' = txCounter + 1

\* Packets that reach _verify_signed in the established state.
ForSession(p) ==
    /\ state = "ESTABLISHED"
    /\ p.op \notin {"EMPTY", "NO_LOGICAL_CONNECTION_SLOTS"}
    /\ p.conn = connId

\* Plausible bugs: the signature is not checked at all, not against the
\* counter, or after the counter has moved.
MutGenuineUnchecked(p) == TRUE
MutGenuineAnyCounter(p) == p.sig # NoSig /\ p.sig[1] = sessionKey
MutGenuineNextCounter(p) == p.sig = <<sessionKey, rxCounter + 1>>

\* _verify_signed finds the expected signature.
Genuine(p) == p.sig = <<sessionKey, rxCounter>>

\* What every handler of a packet leaves alone.
HandlerFrame == UNCHANGED <<setup, pendingFragment, downlink, broken, buttonVars>>

\* The packets that _handle_packet returns on without looking further.
Ignored(h, p) ==
    /\ \/ p.op = "EMPTY"
       \/ /\ p.op = "NO_LOGICAL_CONNECTION_SLOTS"
          /\ p.tmp # "own" /\ p.fault = "none"
       \/ /\ p.op # "NO_LOGICAL_CONNECTION_SLOTS"
          /\ \/ state \in {"IDLE", "FAILED"}
             \/ /\ state = "WAIT_FULL_VERIFY_1"
                /\ p.op # "FULL_VERIFY_RESPONSE_1"
             \/ /\ state = "WAIT_FULL_VERIFY_2"
                /\ p.op \notin {"FULL_VERIFY_RESPONSE_2",
                                "FULL_VERIFY_FAIL_RESPONSE"}
             \/ /\ state = "WAIT_QUICK_VERIFY"
                /\ p.op \notin {"QUICK_VERIFY_RESPONSE",
                                "QUICK_VERIFY_NEGATIVE_RESPONSE"}
             \/ state = "ESTABLISHED" /\ p.conn # connId
    /\ Return(h)
    /\ UNCHANGED <<stateVars, authVars, txCounter, eventVars>>
    /\ HandlerFrame

\* The button is out of slots, for this client: in any state.
NoSlots(h, p) ==
    /\ p.op = "NO_LOGICAL_CONNECTION_SLOTS"
    /\ \/ p.fault # "none" /\ Raise(h, "StructError")
       \/ p.fault = "none" /\ p.tmp = "own" /\ Raise(h, "NoPairingSlotsError")
    /\ UNCHANGED <<started, pairing, authVars, txCounter, eventVars>>
    /\ HandlerFrame

\* _handle_full_verify_1: check the button's identity, derive the session key
\* and answer; the new state is set before the answer is sent.
HandleFullVerify1(h, p) ==
    /\ state = "WAIT_FULL_VERIFY_1" /\ p.op = "FULL_VERIFY_RESPONSE_1"
    /\ \/ /\ ~p.new \/ p.fault = "short"
          /\ Raise(h, "PairingError")
          /\ UNCHANGED authVars
       \/ /\ p.new /\ p.fault # "short" /\ p.tmp # "own"
          /\ Return(h)
          /\ UNCHANGED <<stateVars, authVars>>
       \/ /\ p.new /\ p.tmp = "own"
          /\ \/ p.fault = "address" /\ Raise(h, "PairingError")
             \/ p.fault = "mode" /\ Raise(h, "PairingModeError")
             \/ p.fault = "certificate" /\ Raise(h, "AuthenticationError")
          /\ UNCHANGED authVars
       \/ /\ p.new /\ p.tmp = "own" /\ p.fault = "none"
          /\ connId' = p.conn
          /\ sessionKey' = DerivedKey(p)
          /\ state' = "WAIT_FULL_VERIFY_2"
          /\ Reply(h, [Plain EXCEPT !.op = "FULL_VERIFY_REQUEST_2",
                                    !.conn = p.conn])
          /\ UNCHANGED <<rxCounter, ready, pairingComplete, failure>>
    /\ UNCHANGED <<started, pairing, txCounter, eventVars>>
    /\ HandlerFrame

\* The button refuses the pairing.
PairingRejected(h, p) ==
    /\ state = "WAIT_FULL_VERIFY_2" /\ p.op = "FULL_VERIFY_FAIL_RESPONSE"
    /\ Raise(h, "PairingRejectedError")
    /\ UNCHANGED <<started, pairing, authVars, txCounter, eventVars>>
    /\ HandlerFrame

\* A plausible bug: the waiters are woken before the button has answered.
MutEstablishReady ==
    /\ state' = "ESTABLISHED"
    /\ ready' = TRUE
    /\ UNCHANGED failure

\* The session is established; it is not ready yet.
Establish ==
    /\ state' = "ESTABLISHED"
    /\ UNCHANGED <<ready, failure>>

\* _send_init, signed with the first counter of a new session.
SendInit(h, conn, key) ==
    ReplySigned(h, [Plain EXCEPT !.op = "INIT_BUTTON_EVENTS", !.conn = conn,
                                 !.count = eventCount], key)

\* _handle_full_verify_2: the credentials are stored, then the session starts.
HandleFullVerify2(h, p) ==
    /\ state = "WAIT_FULL_VERIFY_2" /\ p.op = "FULL_VERIFY_RESPONSE_2"
    /\ \/ /\ p.conn # connId
          /\ Return(h)
          /\ UNCHANGED <<stateVars, rxCounter, txCounter>>
       \/ /\ p.conn = connId /\ ~Genuine(p)
          /\ rxCounter' = IF p.sig = NoSig THEN rxCounter ELSE rxCounter + 1
          /\ Raise(h, "AuthenticationError")
          /\ UNCHANGED <<pairing, txCounter>>
       \/ /\ p.conn = connId /\ Genuine(p) /\ p.fault # "none"
          /\ rxCounter' = rxCounter + 1
          /\ Raise(h, IF p.fault = "credentials" THEN "AuthenticationError"
                                                 ELSE "PairingError")
          /\ UNCHANGED <<pairing, txCounter>>
       \/ /\ p.conn = connId /\ Genuine(p) /\ p.fault = "none"
          /\ rxCounter' = rxCounter + 1
          /\ pairing' = TRUE
          /\ Establish
          /\ pairingComplete' = TRUE
          /\ SendInit(h, connId, sessionKey)
    /\ UNCHANGED <<started, connId, sessionKey, eventVars>>
    /\ HandlerFrame

\* The button does not know the stored pairing.
QuickVerifyNegative(h, p) ==
    /\ state = "WAIT_QUICK_VERIFY" /\ p.op = "QUICK_VERIFY_NEGATIVE_RESPONSE"
    /\ Raise(h, "PairingError")
    /\ UNCHANGED <<started, pairing, authVars, txCounter, eventVars>>
    /\ HandlerFrame

\* _handle_quick_verify: the session key and the logical connection are taken
\* from the response before its signature is verified.
HandleQuickVerify(h, p) ==
    /\ state = "WAIT_QUICK_VERIFY" /\ p.op = "QUICK_VERIFY_RESPONSE"
    /\ \/ /\ ~p.new \/ p.fault = "short"
          /\ Raise(h, "AuthenticationError")
          /\ UNCHANGED <<authVars, txCounter>>
       \/ /\ p.new /\ p.fault # "short" /\ p.tmp # "own"
          /\ Return(h)
          /\ UNCHANGED <<stateVars, authVars, txCounter>>
       \/ /\ p.new /\ p.fault # "short" /\ p.tmp = "own"
          /\ sessionKey' = DerivedKey(p)
          /\ connId' = p.conn
          /\ rxCounter' = rxCounter + 1
          /\ \/ /\ p.sig # <<DerivedKey(p), rxCounter>>
                /\ Raise(h, "AuthenticationError")
                /\ UNCHANGED txCounter
             \/ /\ p.sig = <<DerivedKey(p), rxCounter>>
                /\ Establish
                /\ SendInit(h, p.conn, DerivedKey(p))
                /\ UNCHANGED pairingComplete
    /\ UNCHANGED <<started, pairing, eventVars>>
    /\ HandlerFrame

(* The established session: _verify_signed, then _handle_established *)

\* The signature is missing or not the expected one.
VerifyFails(h, p) ==
    /\ ForSession(p) /\ ~Genuine(p)
    /\ rxCounter' = IF p.sig = NoSig THEN rxCounter ELSE rxCounter + 1
    /\ Raise(h, "AuthenticationError")
    /\ UNCHANGED <<started, pairing, connId, sessionKey, txCounter, eventVars>>
    /\ HandlerFrame

\* The next packet of the session verifies; kind selects its handler.
Verified(p, kinds) ==
    /\ ForSession(p) /\ Genuine(p)
    /\ p.op \in kinds
    /\ rxCounter' = rxCounter + 1
    /\ UNCHANGED <<started, pairing, connId, sessionKey>>
    /\ HandlerFrame

\* The response to the init packet: the session is ready.  The count is stored
\* before a missing boot id is noticed.
InitResponse(h, p) ==
    /\ Verified(p, {"INIT_RESPONSE"})
    /\ eventCount' = IF p.fault = "short" THEN eventCount ELSE p.count
    /\ \/ /\ p.fault # "none"
          /\ Raise(h, "FlicProtocolError")
       \/ /\ p.fault = "none"
          /\ ready' = TRUE
          /\ Return(h)
          /\ UNCHANGED <<state, pairingComplete, failure>>
    /\ UNCHANGED <<delivered, txCounter>>

\* A plausible bug: events that are acknowledged do not reach the listeners.
MutDeliverUnacked(p) ==
    /\ eventCount' = p.count
    /\ delivered' = IF p.ack THEN delivered ELSE Append(delivered, p.count)

\* The count is stored, then the listeners are called.
Deliver(p) ==
    /\ eventCount' = p.count
    /\ delivered' = Append(delivered, p.count)

\* Button events: store the count, call the listeners, then acknowledge.  A
\* truncated notification is ignored, or raises in the Duo decoder.
ButtonEvents(h, p) ==
    /\ Verified(p, {"BUTTON_EVENT"})
    /\ \/ /\ p.fault # "none" /\ setup.duo
          /\ Raise(h, "FlicProtocolError")
          /\ UNCHANGED <<eventVars, txCounter>>
       \/ /\ p.fault # "none" /\ ~setup.duo
          /\ Return(h)
          /\ UNCHANGED <<stateVars, eventVars, txCounter>>
       \/ /\ p.fault = "none"
          /\ Deliver(p)
          /\ \/ /\ p.ack
                /\ ReplySigned(h, [Plain EXCEPT !.op = "ACK_BUTTON_EVENTS",
                                                !.conn = connId,
                                                !.count = p.count], sessionKey)
             \/ /\ ~p.ack
                /\ Return(h)
                /\ UNCHANGED txCounter
          /\ UNCHANGED stateVars

\* A keep-alive: answer it.
Ping(h, p) ==
    /\ Verified(p, {"PING_REQUEST"})
    /\ ReplySigned(h, [Plain EXCEPT !.op = "PING_RESPONSE", !.conn = connId],
                   sessionKey)
    /\ UNCHANGED <<stateVars, eventVars>>

\* The battery level, and opcodes nobody handles.
OtherPacket(h, p) ==
    /\ Verified(p, {"GET_BATTERY_LEVEL_RESPONSE", "OTHER"})
    /\ Return(h)
    /\ UNCHANGED <<stateVars, eventVars, txCounter>>

\* The button ends the session.
DisconnectLink(h, p) ==
    /\ Verified(p, {"DISCONNECT_VERIFIED_LINK"})
    /\ Raise(h, "FlicProtocolError")
    /\ UNCHANGED <<eventVars, txCounter>>

HandlePacket(h, p) ==
    \/ Ignored(h, p)
    \/ NoSlots(h, p)
    \/ HandleFullVerify1(h, p)
    \/ PairingRejected(h, p)
    \/ HandleFullVerify2(h, p)
    \/ QuickVerifyNegative(h, p)
    \/ HandleQuickVerify(h, p)
    \/ VerifyFails(h, p)
    \/ InitResponse(h, p)
    \/ ButtonEvents(h, p)
    \/ Ping(h, p)
    \/ OtherPacket(h, p)
    \/ DisconnectLink(h, p)

-----------------------------------------------------------------------------
(* The button and the characteristic, as the code uses them (external) *)

sessionVars == <<setup, stateVars, authVars, txCounter, eventVars, pendingFragment,
                 coroVars>>

\* The button's packets of this session.
FromButton(op) == [Plain EXCEPT !.op = op, !.conn = OwnConn]
Assigned(op) == [FromButton(op) EXCEPT !.new = TRUE]

\* The button notifies packet p, in as many values as it takes.
Notify(p) == downlink' = downlink \o Fragments(p)

\* A write reaches the button and completes packet u.
Takes(u) ==
    /\ ~broken /\ uplink # <<>> /\ ~Head(uplink).more
    /\ u = Joined(bPending, Head(uplink).packets[1])
    /\ uplink' = Tail(uplink)
    /\ bPending' = <<>>
    /\ UNCHANGED <<sessionVars, broken>>

\* A fragment that does not complete a packet.
ButtonHolds ==
    /\ ~broken /\ uplink # <<>> /\ Head(uplink).more
    /\ bPending' = bPending \o Head(uplink).packets
    /\ uplink' = Tail(uplink)
    /\ UNCHANGED <<sessionVars, downlink, broken, bState, bKey, bTx, bRx,
                   bCount, bAcked, refused>>

\* The handshake requests, each with the answers a button may give.
ButtonAnswers(u) ==
    /\ Takes(u) /\ ~refused
    /\ \/ /\ bState = "idle" /\ u.op = "FULL_VERIFY_REQUEST_1"
          /\ \/ /\ Notify(Assigned("FULL_VERIFY_RESPONSE_1"))
                /\ bState' = "offered" /\ bKey' = "own"
             \/ /\ \/ Notify([Assigned("FULL_VERIFY_RESPONSE_1") EXCEPT
                                !.fault = "mode"])
                   \/ Notify(FromButton("NO_LOGICAL_CONNECTION_SLOTS"))
                /\ UNCHANGED <<bState, bKey>>
          /\ UNCHANGED bTx
       \/ /\ bState = "offered" /\ u.op = "FULL_VERIFY_REQUEST_2"
          /\ \/ /\ Notify([FromButton("FULL_VERIFY_RESPONSE_2") EXCEPT
                             !.sig = <<bKey, bTx>>])
                /\ bState' = "verified" /\ bTx' = bTx + 1
             \/ /\ Notify(FromButton("FULL_VERIFY_FAIL_RESPONSE"))
                /\ UNCHANGED <<bState, bTx>>
          /\ UNCHANGED bKey
       \/ /\ bState = "idle" /\ u.op = "QUICK_VERIFY_REQUEST"
          /\ \/ /\ Notify([Assigned("QUICK_VERIFY_RESPONSE") EXCEPT
                             !.sig = <<"own", bTx>>])
                /\ bState' = "verified" /\ bKey' = "own" /\ bTx' = bTx + 1
             \/ /\ Notify(FromButton("QUICK_VERIFY_NEGATIVE_RESPONSE"))
                /\ UNCHANGED <<bState, bKey, bTx>>
    /\ UNCHANGED <<bRx, bCount, bAcked, refused>>

\* A packet with the button's logical connection and the next signature.
InSession(u) == u.sig = <<bKey, bRx>> /\ u.conn = OwnConn

\* A packet of the session: the init packet is answered.
ButtonAccepts(u) ==
    /\ Takes(u) /\ ~refused
    /\ InSession(u)
    /\ bRx' = bRx + 1
    /\ \/ /\ bState = "verified" /\ u.op = "INIT_BUTTON_EVENTS"
          /\ \E n \in u.count .. u.count + 1 :
                /\ Notify([FromButton("INIT_RESPONSE") EXCEPT
                             !.sig = <<bKey, bTx>>, !.count = n])
                /\ bCount' = n
          /\ bState' = "active"
          /\ bTx' = bTx + 1
          /\ UNCHANGED bAcked
       \/ /\ bState \in {"active", "closed"} /\ u.op = "ACK_BUTTON_EVENTS"
          /\ bAcked' = u.count
          /\ UNCHANGED <<downlink, bState, bTx, bCount>>
       \/ /\ bState \in {"active", "closed"} /\ u.op = "PING_RESPONSE"
          /\ UNCHANGED <<downlink, bState, bTx, bCount, bAcked>>
    /\ UNCHANGED <<bKey, refused>>

\* What the button expects to receive.
Expects(u) ==
    \/ /\ bState = "idle"
       /\ u.op \in {"FULL_VERIFY_REQUEST_1", "QUICK_VERIFY_REQUEST"}
    \/ bState = "offered" /\ u.op = "FULL_VERIFY_REQUEST_2"
    \/ bState = "verified" /\ u.op = "INIT_BUTTON_EVENTS" /\ InSession(u)
    \/ /\ bState \in {"active", "closed"} /\ InSession(u)
       /\ u.op \in {"ACK_BUTTON_EVENTS", "PING_RESPONSE"}

\* Anything else is garbled, out of order or out of place, and ends what the
\* button does in this session.
ButtonRefuses(u) ==
    /\ Takes(u)
    /\ refused \/ ~Expects(u)
    /\ refused' = TRUE
    /\ UNCHANGED <<downlink, bState, bKey, bTx, bRx, bCount, bAcked>>

\* One packet of the session with the button's counter at n.
ButtonPacket(op, n) == [FromButton(op) EXCEPT !.sig = <<bKey, n>>]
ButtonEvent(n, ack) ==
    [ButtonPacket("BUTTON_EVENT", bTx + n) EXCEPT !.count = bCount + n + 1,
                                                  !.ack = ack]

\* The button notifies on its own: one packet, or two events in one value.
ButtonSpeaks ==
    /\ bState = "active" /\ ~broken /\ ~refused
    /\ Len(downlink) < MaxQueue
    /\ \/ /\ bTx < setup.maxSigned
          /\ \E ack \in BOOLEAN : Notify(ButtonEvent(0, ack))
          /\ bTx' = bTx + 1 /\ bCount' = bCount + 1
          /\ UNCHANGED bState
       \/ /\ bTx + 1 < setup.maxSigned
          /\ \E ack \in BOOLEAN :
                downlink' = Append(downlink,
                    [more |-> FALSE,
                     packets |-> <<ButtonEvent(0, ack), ButtonEvent(1, FALSE)>>])
          /\ bTx' = bTx + 2 /\ bCount' = bCount + 2
          /\ UNCHANGED bState
       \/ /\ bTx < setup.maxSigned
          /\ \E op \in {"PING_REQUEST", "GET_BATTERY_LEVEL_RESPONSE"} :
                Notify(ButtonPacket(op, bTx))
          /\ bTx' = bTx + 1
          /\ UNCHANGED <<bState, bCount>>
       \/ /\ bTx < setup.maxSigned
          /\ Notify(ButtonPacket("DISCONNECT_VERIFIED_LINK", bTx))
          /\ bTx' = bTx + 1 /\ bState' = "closed"
          /\ UNCHANGED bCount
    /\ UNCHANGED <<sessionVars, uplink, broken, bKey, bRx, bAcked, bPending,
                   refused>>

\* A value that is no part of the session, between two packets of it.
StrayNotification ==
    /\ Len(downlink) < MaxQueue /\ ~broken
    /\ downlink # <<>> => ~downlink[Len(downlink)].more
    /\ downlink = <<>> => pendingFragment = <<>>
    /\ \E p \in Strays[setup] : downlink' = Append(downlink, Whole(p))
    /\ UNCHANGED <<sessionVars, uplink, broken, buttonVars>>

\* The connection is lost: writes raise, nothing more arrives.
ConnectionLost ==
    /\ ~broken
    /\ broken' = TRUE
    /\ uplink' = <<>>
    /\ \E n \in 0 .. Len(downlink) : downlink' = SubSeq(downlink, 1, n)
    /\ UNCHANGED <<sessionVars, buttonVars>>

-----------------------------------------------------------------------------
(* The specification *)

CoroStep ==
    \/ Start
    \/ \E h \in Coros : WriteReturns(h) \/ WriteRaises(h)
    \/ \E h \in Handlers : Feed(h)
    \/ \E h \in Handlers : current = h /\ HandlePacket(h, Head(packets[h]))

ButtonStep ==
    \/ ButtonHolds
    \/ \E u \in {Joined(bPending, Head(uplink).packets[1]) : i \in 1 .. Len(uplink)} :
          ButtonAnswers(u) \/ ButtonAccepts(u) \/ ButtonRefuses(u)

Next == CoroStep \/ ButtonStep \/ ButtonSpeaks \/ StrayNotification \/ ConnectionLost

Spec == Init /\ [][Next]_vars

\* start() was left by the exception of a write that did not go out: its caller
\* disconnects.
CallerDisconnects == Starter \in failed \ writing /\ ConnectionLost

\* The event loop runs what is ready in turn, so that a write which ended goes on
\* though notifications keep arriving; the button answers while the connection
\* lasts.  Nothing is assumed of what the button does by itself.
Fairness ==
    /\ \A h \in Coros : SF_vars(WriteReturns(h) \/ WriteRaises(h))
    /\ WF_vars(\E h \in Handlers : Feed(h))
    /\ WF_vars(\E h \in Handlers :
                  current = h /\ HandlePacket(h, Head(packets[h])))
    /\ WF_vars(ButtonStep)
    /\ WF_vars(CallerDisconnects)

FairSpec == Spec /\ Fairness

-----------------------------------------------------------------------------
(* Safety *)

Values == [more : BOOLEAN, packets : Seq(Packets) \ {<<>>}]

ButtonStates == {"idle", "offered", "verified", "active", "closed"}

\* The domains of the variables; the event loop only runs a coroutine that has
\* a packet to handle, and no coroutine runs while it is suspended.
TypeOK ==
    /\ setup \in Setups
    /\ state \in States
    /\ {started, ready, pairingComplete, pairing, broken, refused} \subseteq BOOLEAN
    /\ failure \in Errors \cup {NoFailure}
    /\ connId \in Nat /\ sessionKey \in {NoKey, "own", "mixed"}
    /\ {rxCounter, txCounter, eventCount} \subseteq Nat
    /\ delivered \in Seq(Nat)
    /\ packets \in [Coros -> Seq(Packets)] /\ packets[Starter] = <<>>
    /\ out \in [Coros -> Seq(Values)]
    /\ \A h \in Coros : out[h] # <<>> => h \in writing
    /\ writing \subseteq Coros /\ failed \subseteq Coros
    /\ current \in Handlers \cup {NoCoro}
    /\ current # NoCoro => packets[current] # <<>> /\ current \notin writing
    /\ downlink \in Seq(Values) /\ uplink \in Seq(Values)
    /\ pendingFragment \in Seq(Packets) /\ bPending \in Seq(Packets)
    /\ bState \in ButtonStates /\ bKey \in {NoKey, "own"}
    /\ {bTx, bRx, bCount, bAcked} \subseteq Nat

\* An honest button never makes a signature, a length or a state check fail, in
\* no interleaving of notifications, sends and foreign packets, if notifications
\* are serialized.  What is left of failures are a write that raised, what the
\* button asked for, and a rejection or a negative response, which the code
\* believes whoever it is for.
Spurious == {"AuthenticationError", "StructError"}
NoSpuriousFailure ==
    setup.honest /\ setup.lock =>
        /\ failure \notin Spurious
        /\ failure = "FlicProtocolError" => bState = "closed"

\* The button accepts everything the code sends it, fragments contiguous and
\* signed packets in the order of their counters, whatever write raises: after a
\* write that did not go out the lock lets no handler send the next counter.
\* Without the lock another handler may, and nothing else makes the button refuse.
RefusesOnlyGaps == refused => ~setup.lock /\ failed \cap Handlers # {}

\* Nothing is acknowledged before it was given to the event callback: the
\* button forgets what is acknowledged.
LastDelivered == IF delivered = <<>> THEN 0 ELSE delivered[Len(delivered)]
AckedWereDelivered ==
    /\ bAcked <= LastDelivered
    /\ \A i \in DOMAIN uplink :
          LET u == uplink[i].packets[1] IN
          u.op = "ACK_BUTTON_EVENTS" => u.count <= LastDelivered

\* Waiters are woken with a decision: a recorded failure, or an established
\* session on the button's key, with credentials, that the button has opened.
ReadyIsDecided ==
    ready /\ failure = NoFailure =>
        /\ state = "ESTABLISHED" /\ pairing
        /\ sessionKey = bKey /\ bState \in {"active", "closed"}

\* Credentials are kept only when the button has confirmed, with a signature
\* made with the key both sides derived, that it keeps them too.
CredentialsConfirmed ==
    pairing /\ setup.full => bState \notin {"idle", "offered"} /\ sessionKey = bKey

\* Each event is delivered exactly once and in the button's order, and in a
\* session that is ready the stored count moves with the delivery only.
EventsInOrder ==
    [][/\ delivered' # delivered => delivered' = Append(delivered, eventCount + 1)
       /\ ready /\ failure = NoFailure /\ eventCount' # eventCount
             => delivered' # delivered]_vars

\* An honest button is never the reason why a session does not become ready,
\* even when the notifications are not serialized.
ReadyNotSpurious ==
    [][setup.honest /\ ~ready /\ ready' => failure' \notin Spurious]_vars

\* What the code that waits for a session relies on.
Outcome == INSTANCE SessionOutcome WITH
    outcome <- IF failure # NoFailure THEN "failed"
               ELSE IF ready THEN "ready"
               ELSE IF started THEN "waiting" ELSE "idle"
ImplementsOutcome == Outcome!OSpec

(* Liveness *)

\* A started session is decided, unless the connection is lost: no foreign or
\* reordered notification makes it wait for ever.
SessionDecided == started ~> ready \/ broken
=============================================================================
