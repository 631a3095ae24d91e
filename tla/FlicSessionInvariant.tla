------------------------- MODULE FlicSessionInvariant -------------------------
(***************************************************************************)
(* What is invariably true of a FlicSession, its button and the packets     *)
(* between them, beyond the properties of FlicSession: the inductive        *)
(* invariants that the proofs about it use and TLC checks beforehand.       *)
(***************************************************************************)
EXTENDS FlicSession

Elements(s) == {s[i] : i \in 1..Len(s)}

\* Packets that were notified and not handled yet, the pieces of some included.
Arriving ==
    (UNION {Elements(packets[h]) : h \in Coros})
      \cup (UNION {Elements(v.packets) : v \in Elements(downlink)})
      \cup Elements(pendingFragment)

ButtonVerified == bState \in {"verified", "active", "closed"}
ButtonOpen == bState \in {"active", "closed"}

(* The way to the session *)

\* What a packet on its way says about the button that sent it.
PacketTrue(p) ==
    /\ Offer(p) => bState # "idle" /\ p.conn = OwnConn
    /\ OwnSigned(p) /\ ~Malformed(p) =>
         /\ ButtonVerified /\ p.conn = OwnConn /\ p.sig[2] < bTx
         /\ p.op \notin {"FULL_VERIFY_RESPONSE_2", "QUICK_VERIFY_RESPONSE"} => ButtonOpen
         /\ p.op = "BUTTON_EVENT" => p.count <= bCount

PacketsTrue == \A p \in Arriving : PacketTrue(p)

(* The way to the button *)

\* No packet is on its way to the button, complete or not.
Quiet == uplink = <<>> /\ bPending = <<>> /\ \A h \in Coros : out[h] = <<>>

\* Coroutine h is sending u and nothing else is being sent: what it has still to
\* write, what is on its way and what the button holds make up u.
Sending(h, u) ==
    /\ \A g \in Coros \ {h} : out[g] = <<>>
    /\ \/ /\ ~Long(u.op) /\ bPending = <<>>
          /\ uplink = <<Whole(u)>> /\ out[h] = <<>>
       \/ /\ Long(u.op) /\ bPending = <<>>
          /\ \/ uplink = <<Piece(u)>> /\ out[h] = <<Whole(u)>>
             \/ uplink = <<Piece(u), Whole(u)>> /\ out[h] = <<>>
       \/ /\ Long(u.op) /\ bPending = <<u>>
          /\ \/ uplink = <<>> /\ out[h] = <<Whole(u)>>
             \/ uplink = <<Whole(u)>> /\ out[h] = <<>>

\* A packet that the session is sending.
Written ==
    {v.packets[1] : v \in Elements(uplink) \cup (UNION {Elements(out[h]) : h \in Coros})}

\* A request of the handshake is being sent, alone, and the button expects it.
Requesting ==
    \E h \in Coros, u \in Written :
        /\ Sending(h, u) /\ Expects(u)
        /\ bState = "idle" => (u.op = "QUICK_VERIFY_REQUEST" <=> ~setup.full)
        /\ bState = "verified" => txCounter = 1

\* The rest of a packet was not written: the button waits for it in vain.
Stuck ==
    /\ \A h \in Coros : out[h] = <<>>
    /\ \E u \in Written \cup Elements(bPending) :
         /\ Long(u.op)
         /\ \/ uplink = <<Piece(u)>> /\ bPending = <<>>
            \/ uplink = <<>> /\ bPending = <<u>>

\* A handler had a write that raises.
HandlerFailed == failed \cap Handlers # {}

\* Signed packets are on their way to an open button, the next one first, and
\* after a write that raises none follow.
InStep ==
    /\ bPending = <<>> /\ \A h \in Coros : out[h] = <<>>
    /\ bRx + Len(uplink) = txCounter \/ HandlerFailed
    /\ \A i \in 1..Len(uplink) :
         LET u == uplink[i].packets[1] IN
         /\ ~uplink[i].more
         /\ u.op \in {"ACK_BUTTON_EVENTS", "PING_RESPONSE"}
         /\ u.conn = OwnConn /\ u.sig = <<"own", bRx + i - 1>>

\* Counters may be missing: nothing orders the handlers after one failed.
Torn == ~setup.lock /\ HandlerFailed

\* What is on its way to the button is what it expects, unless the link is lost
\* or a write has failed.
UplinkTrue ==
    /\ refused => Torn /\ ButtonOpen
    /\ bKey = IF bState = "idle" THEN NoKey ELSE "own"
    /\ ~ButtonOpen => bRx = 0 /\ (broken \/ Quiet \/ Requesting \/ Stuck)
    /\ ButtonOpen => broken \/ Torn \/ InStep

\* The lock admits one handler at a time.
Serialized == setup.lock => \A g, h \in Handlers : Idle(g) \/ Idle(h) \/ g = h

\* A handler whose write failed is still at it or has failed the session.
WritesTrue ==
    /\ Serialized
    /\ \A h \in failed \cap Handlers : h \in writing \/ state = "FAILED"
    /\ ~started => failed = {}

(* The state of the session *)

Answered == broken \/ Quiet

\* Nothing was sent before the start, a handshake state follows a request and
\* the button is where that request takes it, and only a confirmed session is
\* established.
StateTrue ==
    /\ ~started => state \in {"IDLE", "FAILED"} /\ Quiet /\ bState = "idle"
    /\ state \notin {"ESTABLISHED", "FAILED"} => txCounter = 0
    /\ ~started => txCounter = 0
    /\ state \in {"WAIT_FULL_VERIFY_1", "WAIT_FULL_VERIFY_2"} => setup.full /\ ~pairing
    /\ state = "WAIT_QUICK_VERIFY" => ~setup.full
    /\ ~setup.full => pairing
    /\ state = "WAIT_FULL_VERIFY_1" => bState = "idle" \/ (bState = "offered" /\ Answered)
    /\ state = "WAIT_FULL_VERIFY_2" =>
         /\ bState = "offered" \/ (bState = "verified" /\ Answered)
         /\ connId = OwnConn /\ sessionKey = "own"
    /\ state = "WAIT_QUICK_VERIFY" => bState = "idle" \/ (bState = "verified" /\ Answered)
    /\ state = "ESTABLISHED" =>
         ButtonVerified /\ pairing /\ connId = OwnConn /\ sessionKey = "own"
    /\ ready /\ failure = NoFailure => started /\ state = "ESTABLISHED" /\ ButtonOpen
    /\ pairing /\ setup.full =>
         started /\ state \in {"ESTABLISHED", "FAILED"} /\ ButtonVerified /\ sessionKey = "own"

(* Events *)

\* An event that the session would accept.
GenuineEvent(p) == p.op = "BUTTON_EVENT" /\ OwnSigned(p) /\ ~Malformed(p)

\* Later signatures are on later events, those not accepted yet are later than
\* what was delivered, and the button has recorded them.
EventsAscend ==
    /\ \A p, q \in Arriving :
         GenuineEvent(p) /\ GenuineEvent(q) /\ p.sig[2] < q.sig[2] => p.count < q.count
    /\ \A p \in Arriving :
         GenuineEvent(p) /\ p.sig[2] >= rxCounter => p.count > LastDelivered
    /\ LastDelivered <= bCount
    /\ ~ButtonOpen => delivered = <<>>

\* Acknowledgements are not fragmented, and on their way for delivered events.
AcksTrue ==
    /\ AckedWereDelivered
    /\ \A h \in Coros : \A i \in 1..Len(out[h]) :
         out[h][i].packets[1].op # "ACK_BUTTON_EVENTS"

\* No packet is on its way that the button does not expect or the session has no
\* ground to trust, so each side knows where the other is.
IInv == PacketsTrue /\ UplinkTrue /\ WritesTrue /\ StateTrue /\ EventsAscend /\ AcksTrue
=============================================================================
