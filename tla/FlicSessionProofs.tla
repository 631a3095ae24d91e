-------------------------- MODULE FlicSessionProofs ---------------------------
(***************************************************************************)
(* Proofs, for any coroutines, set-ups and packets of third parties that   *)
(* StrayAssumption admits, that FlicSession is type correct and keeps the  *)
(* promises of SessionOutcome, that IInv is inductive, and that the safety *)
(* invariants of FlicSession about the button, acknowledgements, readiness *)
(* and credentials follow from it.                                         *)
(***************************************************************************)
EXTENDS FlicSessionInvariant, SequenceTheorems, TLAPS

-----------------------------------------------------------------------------
(* Types, and the promises of SessionOutcome *)

\* The part of TypeOK about coroutines and what they write.
CoroTypes ==
    /\ packets \in [Coros -> Seq(Packets)] /\ packets[Starter] = <<>>
    /\ out \in [Coros -> Seq(Values)]
    /\ \A h \in Coros : out[h] # <<>> => h \in writing
    /\ writing \subseteq Coros /\ failed \subseteq Coros
    /\ current \in Handlers \cup {NoCoro}
    /\ current # NoCoro => packets[current] # <<>> /\ current \notin writing
    /\ uplink \in Seq(Values)

\* The part of TypeOK about what a handler decides.
HandlerTypes ==
    /\ state \in States
    /\ {ready, pairingComplete, pairing} \subseteq BOOLEAN
    /\ failure \in Errors \cup {NoFailure}
    /\ connId \in Nat /\ sessionKey \in {NoKey, "own", "mixed"}
    /\ {rxCounter, txCounter, eventCount} \subseteq Nat
    /\ delivered \in Seq(Nat)

\* An empty packet is a packet.
LEMMA PlainPacket == Plain \in Packets
BY DEF Plain, Packets, Opcodes, Faults

\* A piece and a whole packet are GATT values.
LEMMA Pieces ==
  ASSUME NEW u \in Packets
  PROVE  /\ Whole(u) \in Values /\ Piece(u) \in Values
         /\ Whole(u).packets = <<u>> /\ Whole(u).packets[1] = u
         /\ Piece(u).packets = <<u>> /\ Piece(u).packets[1] = u
         /\ ~Whole(u).more /\ Piece(u).more
         /\ Joined(<<>>, u) = u /\ Joined(<<u>>, u) = u
<1>1. <<u>> \in Seq(Packets) \ {<<>>}
  OBVIOUS
<1>2. Whole(u) \in Values /\ Piece(u) \in Values
  BY <1>1 DEF Whole, Piece, Values
<1> QED
  BY <1>2 DEF Whole, Piece, Joined

\* A packet as one or two values.
LEMMA FragmentsOf ==
  ASSUME NEW u \in Packets
  PROVE  /\ Long(u.op) => Head(Fragments(u)) = Piece(u) /\ Tail(Fragments(u)) = <<Whole(u)>>
                           /\ Fragments(u) = <<Piece(u), Whole(u)>>
         /\ ~Long(u.op) => Head(Fragments(u)) = Whole(u) /\ Tail(Fragments(u)) = <<>>
                           /\ Fragments(u) = <<Whole(u)>>
<1>1. \A v \in Values : Head(<<v>>) = v /\ Tail(<<v>>) = <<>>
  OBVIOUS
<1>2. \A v, w \in Values : Head(<<v, w>>) = v /\ Tail(<<v, w>>) = <<w>>
  OBVIOUS
<1> QED
  BY <1>1, <1>2, Pieces DEF Fragments

\* A packet is sent as GATT values.
LEMMA FragmentTypes ==
  ASSUME NEW p \in Packets
  PROVE  /\ Fragments(p) \in Seq(Values) /\ Fragments(p) # <<>>
         /\ Head(Fragments(p)) \in Values /\ Tail(Fragments(p)) \in Seq(Values)
<1>0. Whole(p) \in Values /\ Piece(p) \in Values
  BY Pieces
<1>1. <<Whole(p)>> \in Seq(Values) /\ <<Whole(p)>> # <<>>
  BY <1>0
<1>2. <<Piece(p), Whole(p)>> \in Seq(Values) /\ <<Piece(p), Whole(p)>> # <<>>
  BY <1>0
<1>3. Fragments(p) \in Seq(Values) /\ Fragments(p) # <<>>
  BY <1>1, <1>2 DEF Fragments
<1> QED
  BY <1>3, HeadTailProperties

\* What is joined from fragments are packets.
LEMMA JoinedTypes ==
  ASSUME NEW pieces \in Seq(Packets), NEW p \in Packets
  PROVE  Joined(pieces, p) \in Packets
BY DEF Joined, Packets, Opcodes, Keys

\* The packet a coroutine on the loop handles, and those after it.
LEMMA HeadTypes ==
  ASSUME CoroTypes, current \in Handlers
  PROVE  /\ packets[current] \in Seq(Packets) /\ packets[current] # <<>>
         /\ Head(packets[current]) \in Packets /\ Tail(packets[current]) \in Seq(Packets)
         /\ current \in Coros /\ current # Starter /\ current # NoCoro
         /\ current \notin writing
<1>1. current \in Coros /\ current # Starter /\ current # NoCoro
  BY CoroAssumption DEF Coros
<1> QED
  BY <1>1, HeadTailProperties DEF CoroTypes

\* A handler that returns keeps the types of the coroutines.
LEMMA ReturnTypes ==
  ASSUME CoroTypes, current \in Handlers, Return(current)
  PROVE  CoroTypes'
<1> USE HeadTypes DEF CoroTypes
<1>1. packets' = [packets EXCEPT ![current] = Tail(@)]
      /\ current' = (IF Tail(packets[current]) = <<>> THEN NoCoro ELSE current)
      /\ UNCHANGED <<out, writing, failed, uplink>>
  BY DEF Return
<1>2. packets' \in [Coros -> Seq(Packets)] /\ packets'[Starter] = <<>>
  BY <1>1 DEF Coros
<1>3. current' # NoCoro => packets'[current'] # <<>> /\ current' \notin writing
  BY <1>1
<1> QED
  BY <1>1, <1>2, <1>3

\* So does one that raises.
LEMMA RaiseTypes ==
  ASSUME CoroTypes, current \in Handlers, NEW err \in Errors, Raise(current, err)
  PROVE  /\ CoroTypes'
         /\ state' = "FAILED" /\ ready' = TRUE /\ pairingComplete' = TRUE /\ failure' = err
<1> USE HeadTypes DEF CoroTypes, Raise, Fail
<1>1. packets' \in [Coros -> Seq(Packets)] /\ packets'[Starter] = <<>>
  BY DEF Coros
<1> QED
  BY <1>1

\* A coroutine that writes keeps them.
LEMMA WriteTypes ==
  ASSUME CoroTypes, NEW h \in Coros, NEW values \in Seq(Values), values # <<>>,
         Write(h, values)
  PROVE  /\ uplink' \in Seq(Values) /\ out' \in [Coros -> Seq(Values)]
         /\ failed' \subseteq Coros
         /\ \A g \in Coros \ {h} : out'[g] = out[g]
<1>1. Head(values) \in Values /\ Tail(values) \in Seq(Values)
  BY HeadTailProperties
<1>2. uplink \in Seq(Values) /\ out \in [Coros -> Seq(Values)] /\ failed \subseteq Coros
  BY DEF CoroTypes
<1>3. Append(uplink, Head(values)) \in Seq(Values) /\ <<>> \in Seq(Values)
  BY <1>1, <1>2, AppendProperties
<1>4. \A s \in Seq(Values) : /\ [out EXCEPT ![h] = s] \in [Coros -> Seq(Values)]
                             /\ \A g \in Coros \ {h} : [out EXCEPT ![h] = s][g] = out[g]
  BY <1>2
<1> QED
  BY <1>1, <1>2, <1>3, <1>4 DEF Write

\* So does one that sends.
LEMMA SendTypes ==
  ASSUME CoroTypes, NEW h \in Coros, NEW p \in Packets, Send(h, p)
  PROVE  /\ uplink' \in Seq(Values) /\ out' \in [Coros -> Seq(Values)]
         /\ writing' \subseteq Coros /\ failed' \subseteq Coros
         /\ \A g \in Coros : out'[g] # <<>> => g \in writing'
<1>1. Fragments(p) \in Seq(Values) /\ Fragments(p) # <<>>
  BY FragmentTypes
<1>2. Write(h, Fragments(p)) /\ writing' = writing \cup {h}
  BY DEF Send
<1> QED
  BY <1>1, <1>2, WriteTypes DEF CoroTypes

\* So does a handler that replies.
LEMMA ReplyTypes ==
  ASSUME CoroTypes, current \in Handlers, NEW p \in Packets, Reply(current, p)
  PROVE  CoroTypes'
<1>1. packets' = [packets EXCEPT ![current] = Tail(@)] /\ current' = NoCoro /\ Send(current, p)
  BY DEF Reply
<1>2. packets' \in [Coros -> Seq(Packets)] /\ packets'[Starter] = <<>>
  BY <1>1, HeadTypes DEF Coros, CoroTypes
<1> QED
  BY <1>1, <1>2, SendTypes, HeadTypes DEF CoroTypes

\* A signed reply moves the counter.
LEMMA SignedTypes ==
  ASSUME CoroTypes, current \in Handlers, txCounter \in Nat, NEW p \in Packets, NEW key \in Keys,
         ReplySigned(current, p, key)
  PROVE  CoroTypes' /\ txCounter' \in Nat
<1>1. [p EXCEPT !.sig = <<key, txCounter>>] \in Packets
  BY DEF Packets
<1> QED
  BY <1>1, ReplyTypes DEF ReplySigned

\* The handlers of the handshake.
LEMMA HandshakeTypes ==
  ASSUME CoroTypes, HandlerTypes, current \in Handlers, NEW p \in Packets,
         \/ Ignored(current, p) \/ NoSlots(current, p) \/ HandleFullVerify1(current, p)
         \/ PairingRejected(current, p) \/ HandleFullVerify2(current, p)
         \/ QuickVerifyNegative(current, p) \/ HandleQuickVerify(current, p)
  PROVE  CoroTypes' /\ HandlerTypes'
<1> DEFINE h == current
<1> USE DEF HandlerTypes, stateVars, authVars, eventVars
<1>0. /\ p.conn \in Nat /\ p.count \in Nat
      /\ DerivedKey(p) \in {"own", "mixed"} /\ DerivedKey(p) \in Keys /\ sessionKey \in Keys
      /\ rxCounter + 1 \in Nat /\ {"PairingError", "AuthenticationError"} \subseteq Errors
  BY DEF Packets, DerivedKey, Keys, Errors
<1>1. CASE Ignored(h, p)
  BY <1>1, ReturnTypes DEF Ignored
<1>2. CASE NoSlots(h, p)
  BY <1>2, RaiseTypes DEF NoSlots, Errors, States
<1>3. CASE HandleFullVerify1(h, p)
  <2>1. CASE \E err \in Errors : Raise(h, err) /\ UNCHANGED authVars
    BY <1>3, <2>1, RaiseTypes DEF HandleFullVerify1, States
  <2>2. CASE Return(h) /\ UNCHANGED <<stateVars, authVars>>
    BY <1>3, <2>2, ReturnTypes DEF HandleFullVerify1
  <2>3. CASE /\ connId' = p.conn /\ sessionKey' = DerivedKey(p)
             /\ state' = "WAIT_FULL_VERIFY_2"
             /\ Reply(h, [Plain EXCEPT !.op = "FULL_VERIFY_REQUEST_2", !.conn = p.conn])
             /\ UNCHANGED <<rxCounter, ready, pairingComplete, failure>>
    <3>1. [Plain EXCEPT !.op = "FULL_VERIFY_REQUEST_2", !.conn = p.conn] \in Packets
      BY PlainPacket, <1>0 DEF Packets, Opcodes
    <3> QED
      BY <1>0, <1>3, <2>3, <3>1, ReplyTypes DEF HandleFullVerify1, States
  <2> QED
    BY <1>3, <2>1, <2>2, <2>3 DEF HandleFullVerify1, Errors
<1>4. CASE PairingRejected(h, p)
  BY <1>4, RaiseTypes DEF PairingRejected, Errors, States
<1>5. CASE HandleFullVerify2(h, p)
  <2>1. CASE (\E err \in Errors : Raise(h, err)) /\ rxCounter' \in Nat /\ UNCHANGED <<pairing, txCounter>>
    BY <1>5, <2>1, RaiseTypes DEF HandleFullVerify2, States
  <2>2. CASE Return(h) /\ UNCHANGED <<stateVars, rxCounter, txCounter>>
    BY <1>5, <2>2, ReturnTypes DEF HandleFullVerify2
  <2>3. CASE /\ rxCounter' = rxCounter + 1 /\ pairing' = TRUE /\ Establish
             /\ pairingComplete' = TRUE /\ SendInit(h, connId, sessionKey)
    <3>1. [Plain EXCEPT !.op = "INIT_BUTTON_EVENTS", !.conn = connId, !.count = eventCount]
            \in Packets
      BY PlainPacket, <1>0 DEF Packets, Opcodes
    <3>2. CoroTypes' /\ txCounter' \in Nat
      BY <1>0, <2>3, <3>1, SignedTypes DEF SendInit
    <3> QED
      BY <1>0, <1>5, <2>3, <3>2 DEF HandleFullVerify2, Establish, States
  <2> QED
    BY <1>0, <1>5, <2>1, <2>2, <2>3 DEF HandleFullVerify2
<1>6. CASE QuickVerifyNegative(h, p)
  BY <1>6, RaiseTypes DEF QuickVerifyNegative, Errors, States
<1>7. CASE HandleQuickVerify(h, p)
  <2>1. CASE /\ Raise(h, "AuthenticationError") /\ UNCHANGED txCounter
             /\ connId' \in Nat /\ sessionKey' \in {NoKey, "own", "mixed"} /\ rxCounter' \in Nat
    BY <1>0, <1>7, <2>1, RaiseTypes DEF HandleQuickVerify, States
  <2>2. CASE Return(h) /\ UNCHANGED <<stateVars, authVars, txCounter>>
    BY <1>7, <2>2, ReturnTypes DEF HandleQuickVerify
  <2>3. CASE /\ sessionKey' = DerivedKey(p) /\ connId' = p.conn /\ rxCounter' = rxCounter + 1
             /\ Establish /\ SendInit(h, p.conn, DerivedKey(p)) /\ UNCHANGED pairingComplete
    <3>1. [Plain EXCEPT !.op = "INIT_BUTTON_EVENTS", !.conn = p.conn, !.count = eventCount]
            \in Packets
      BY PlainPacket, <1>0 DEF Packets, Opcodes
    <3>2. CoroTypes' /\ txCounter' \in Nat
      BY <1>0, <2>3, <3>1, SignedTypes DEF SendInit
    <3> QED
      BY <1>0, <1>7, <2>3, <3>2 DEF HandleQuickVerify, Establish, States
  <2> QED
    BY <1>0, <1>7, <2>1, <2>2, <2>3 DEF HandleQuickVerify
<1> QED
  BY <1>1, <1>2, <1>3, <1>4, <1>5, <1>6, <1>7

\* The handlers of the established session.
LEMMA EstablishedTypes ==
  ASSUME CoroTypes, HandlerTypes, current \in Handlers, NEW p \in Packets,
         \/ VerifyFails(current, p) \/ InitResponse(current, p) \/ ButtonEvents(current, p)
         \/ Ping(current, p) \/ OtherPacket(current, p) \/ DisconnectLink(current, p)
  PROVE  CoroTypes' /\ HandlerTypes'
<1> DEFINE h == current
<1> USE DEF HandlerTypes, stateVars, authVars, eventVars, Verified
<1>0. /\ p.count \in Nat /\ rxCounter + 1 \in Nat /\ sessionKey \in Keys
      /\ {"FlicProtocolError", "AuthenticationError"} \subseteq Errors
  BY DEF Packets, Keys, Errors
<1>1. CASE VerifyFails(h, p)
  BY <1>0, <1>1, RaiseTypes DEF VerifyFails, States
<1>2. CASE InitResponse(h, p)
  <2>1. CASE Raise(h, "FlicProtocolError")
    BY <1>0, <1>2, <2>1, RaiseTypes DEF InitResponse, States
  <2>2. CASE ready' = TRUE /\ Return(h) /\ UNCHANGED <<state, pairingComplete, failure>>
    BY <1>0, <1>2, <2>2, ReturnTypes DEF InitResponse
  <2> QED
    BY <1>2, <2>1, <2>2 DEF InitResponse
<1>3. CASE ButtonEvents(h, p)
  <2>1. CASE Raise(h, "FlicProtocolError") /\ UNCHANGED <<eventVars, txCounter>>
    BY <1>0, <1>3, <2>1, RaiseTypes DEF ButtonEvents, States
  <2>2. CASE Return(h) /\ UNCHANGED <<stateVars, eventVars, txCounter>>
    BY <1>0, <1>3, <2>2, ReturnTypes DEF ButtonEvents
  <2>3. CASE Deliver(p) /\ UNCHANGED stateVars
    <3>1. eventCount' \in Nat /\ delivered' \in Seq(Nat)
      BY <1>0, <2>3, AppendProperties DEF Deliver
    <3>2. CASE Return(h) /\ UNCHANGED txCounter
      BY <1>0, <1>3, <2>3, <3>1, <3>2, ReturnTypes DEF ButtonEvents
    <3>3. CASE ReplySigned(h, [Plain EXCEPT !.op = "ACK_BUTTON_EVENTS", !.conn = connId,
                                            !.count = p.count], sessionKey)
      <4>1. [Plain EXCEPT !.op = "ACK_BUTTON_EVENTS", !.conn = connId, !.count = p.count]
              \in Packets
        BY PlainPacket, <1>0 DEF Packets, Opcodes
      <4>2. CoroTypes' /\ txCounter' \in Nat
        BY <1>0, <3>3, <4>1, SignedTypes
      <4> QED
        BY <1>0, <1>3, <2>3, <3>1, <4>2 DEF ButtonEvents
    <3> QED
      BY <1>3, <2>3, <3>2, <3>3 DEF ButtonEvents, Deliver
  <2> QED
    BY <1>3, <2>1, <2>2, <2>3 DEF ButtonEvents
<1>4. CASE Ping(h, p)
  <2>1. [Plain EXCEPT !.op = "PING_RESPONSE", !.conn = connId] \in Packets
    BY PlainPacket DEF Packets, Opcodes
  <2>2. CoroTypes' /\ txCounter' \in Nat
    BY <1>0, <1>4, <2>1, SignedTypes DEF Ping
  <2> QED
    BY <1>0, <1>4, <2>2 DEF Ping
<1>5. CASE OtherPacket(h, p)
  BY <1>0, <1>5, ReturnTypes DEF OtherPacket
<1>6. CASE DisconnectLink(h, p)
  BY <1>0, <1>6, RaiseTypes DEF DisconnectLink, States
<1> QED
  BY <1>1, <1>2, <1>3, <1>4, <1>5, <1>6

\* Everything else in TypeOK.
OtherTypes ==
    /\ setup \in Setups
    /\ {started, broken} \subseteq BOOLEAN
    /\ downlink \in Seq(Values)
    /\ pendingFragment \in Seq(Packets) /\ bPending \in Seq(Packets)
    /\ bState \in ButtonStates /\ bKey \in {NoKey, "own"}
    /\ {bTx, bRx, bCount, bAcked} \subseteq Nat /\ refused \in BOOLEAN

\* TypeOK in three parts.
LEMMA TypeParts == TypeOK <=> CoroTypes /\ HandlerTypes /\ OtherTypes
BY DEF TypeOK, CoroTypes, HandlerTypes, OtherTypes

\* TypeOK in three parts, after a step.
LEMMA TypePartsNext == TypeOK' <=> CoroTypes' /\ HandlerTypes' /\ OtherTypes'
BY DEF TypeOK, CoroTypes, HandlerTypes, OtherTypes

\* The types hold initially.
LEMMA TypeInit == Init => TypeOK
<1> SUFFICES ASSUME Init PROVE TypeOK
  OBVIOUS
<1> USE DEF Init
<1>1. CoroTypes
  BY CoroAssumption DEF CoroTypes, Coros
<1>2. HandlerTypes
  <2>1. pairing \in BOOLEAN
    BY Zenon
  <2>2. state \in States /\ failure \in Errors \cup {NoFailure} /\ delivered \in Seq(Nat)
    BY DEF States
  <2>3. ready \in BOOLEAN /\ pairingComplete \in BOOLEAN
    BY Zenon
  <2> QED
    BY <2>1, <2>2, <2>3 DEF HandlerTypes
<1>3. OtherTypes
  <2>1. downlink \in Seq(Values) /\ pendingFragment \in Seq(Packets) /\ bPending \in Seq(Packets)
    OBVIOUS
  <2>2. started \in BOOLEAN /\ broken \in BOOLEAN /\ refused \in BOOLEAN
    BY Zenon
  <2> QED
    BY <2>1, <2>2 DEF OtherTypes, ButtonStates
<1> QED
  BY <1>1, <1>2, <1>3, TypeParts

\* A packet is handled.
LEMMA HandleTypes ==
  ASSUME TypeOK, NEW h \in Handlers, current = h, HandlePacket(h, Head(packets[h]))
  PROVE  TypeOK'
<1>1. Head(packets[h]) \in Packets
  BY HeadTypes, TypeParts
<1>2. CoroTypes' /\ HandlerTypes'
  BY <1>1, HandshakeTypes, EstablishedTypes, TypeParts DEF HandlePacket
<1>3. UNCHANGED <<started, setup, pendingFragment, downlink, broken, buttonVars>>
  BY DEF HandlePacket, HandlerFrame, Ignored, NoSlots, HandleFullVerify1, PairingRejected,
         HandleFullVerify2, QuickVerifyNegative, HandleQuickVerify, VerifyFails, InitResponse,
         ButtonEvents, Ping, OtherPacket, DisconnectLink, Verified, stateVars
<1>4. OtherTypes'
  BY <1>3, TypeParts DEF OtherTypes, buttonVars
<1> QED
  BY <1>2, <1>4, TypePartsNext

\* The steps of the coroutines.
LEMMA CoroStepTypes == TypeOK /\ CoroStep => TypeOK'
<1> SUFFICES ASSUME TypeOK, CoroStep PROVE TypeOK'
  OBVIOUS
<1>0. CoroTypes /\ HandlerTypes /\ OtherTypes
  BY TypeParts
<1> USE DEF stateVars, authVars, eventVars, linkVars, buttonVars
<1>1. CASE Start
  <2>1. \A op \in {"FULL_VERIFY_REQUEST_1", "QUICK_VERIFY_REQUEST"} :
           [Plain EXCEPT !.op = op] \in Packets
    BY PlainPacket DEF Packets, Opcodes
  <2>2. PICK p \in Packets : Send(Starter, p)
    BY <1>1, <2>1 DEF Start
  <2>3. CoroTypes'
    BY <1>0, <1>1, <2>2, SendTypes DEF Start, CoroTypes, Coros
  <2>4. HandlerTypes' /\ OtherTypes'
    BY <1>0, <1>1 DEF Start, HandlerTypes, OtherTypes, States
  <2> QED
    BY <2>3, <2>4, TypePartsNext
<1>2. ASSUME NEW h \in Coros, WriteReturns(h) PROVE TypeOK'
  <2>1. HandlerTypes' /\ OtherTypes'
    BY <1>0, <1>2 DEF WriteReturns, HandlerTypes, OtherTypes
  <2>2. packets[h] # <<>> => h \in Handlers
    BY <1>0 DEF CoroTypes, Coros
  <2>3. CASE out[h] # <<>>
    <3>1. Write(h, out[h]) /\ UNCHANGED <<packets, writing, current>>
      BY <1>2, <2>3 DEF WriteReturns
    <3>2. /\ uplink' \in Seq(Values) /\ out' \in [Coros -> Seq(Values)] /\ failed' \subseteq Coros
          /\ \A g \in Coros \ {h} : out'[g] = out[g]
      BY <1>0, <2>3, <3>1, WriteTypes DEF CoroTypes
    <3>3. \A g \in Coros : out'[g] # <<>> => g \in writing
      BY <1>0, <1>2, <3>2 DEF WriteReturns, CoroTypes
    <3>4. CoroTypes'
      BY <1>0, <3>1, <3>2, <3>3 DEF CoroTypes
    <3> QED
      BY <2>1, <3>4, TypePartsNext
  <2>4. CASE out[h] = <<>>
    <3>1. CoroTypes'
      BY <1>0, <1>2, <2>2, <2>4 DEF WriteReturns, CoroTypes
    <3> QED
      BY <2>1, <3>1, TypePartsNext
  <2> QED
    BY <2>3, <2>4
<1>3. ASSUME NEW h \in Coros, WriteRaises(h) PROVE TypeOK'
  <2>1. OtherTypes'
    BY <1>0, <1>3 DEF WriteRaises, OtherTypes
  <2>2. HandlerTypes'
    BY <1>0, <1>3 DEF WriteRaises, Fail, HandlerTypes, States, Errors
  <2>3. packets' \in [Coros -> Seq(Packets)] /\ packets'[Starter] = <<>>
    <3>1. CASE h = Starter
      BY <1>0, <1>3, <3>1 DEF WriteRaises, CoroTypes
    <3>2. CASE h # Starter /\ packets' = [packets EXCEPT ![h] = <<>>]
      BY <1>0, <1>3, <3>2 DEF CoroTypes
    <3> QED
      BY <1>3, <3>1, <3>2 DEF WriteRaises, Fail
  <2>4. current' = NoCoro /\ writing' = writing \ {h} /\ out' = [out EXCEPT ![h] = <<>>]
        /\ UNCHANGED <<failed, uplink>>
    BY <1>0, <1>3 DEF WriteRaises, Fail
  <2>5. out' \in [Coros -> Seq(Values)] /\ \A g \in Coros : out'[g] # <<>> => g \in writing'
    BY <1>0, <2>4 DEF CoroTypes
  <2>6. CoroTypes'
    BY <1>0, <2>3, <2>4, <2>5 DEF CoroTypes
  <2> QED
    BY <2>1, <2>2, <2>6, TypePartsNext
<1>4. ASSUME NEW h \in Handlers, Feed(h) PROVE TypeOK'
  <2> DEFINE value == Head(downlink)
  <2>1. value \in Values /\ Tail(downlink) \in Seq(Values)
    BY <1>0, <1>4, HeadTailProperties DEF Feed, OtherTypes
  <2>2. value.packets \in Seq(Packets) /\ value.packets # <<>> /\ Head(value.packets) \in Packets
    BY <2>1, HeadTailProperties DEF Values
  <2>3. <<Joined(pendingFragment, Head(value.packets))>> \in Seq(Packets)
    BY <1>0, <2>2, JoinedTypes DEF OtherTypes
  <2>4. pendingFragment \o value.packets \in Seq(Packets)
    BY <1>0, <2>2, ConcatProperties DEF OtherTypes
  <2>5. HandlerTypes'
    BY <1>0, <1>4 DEF Feed, HandlerTypes
  <2>6. OtherTypes'
    <3>1. pendingFragment' \in Seq(Packets)
      <4>1. \/ pendingFragment' = pendingFragment \o value.packets
            \/ pendingFragment' = <<>>
            \/ UNCHANGED pendingFragment
        BY <1>4 DEF Feed
      <4> HIDE DEF value
      <4> QED
        BY <1>0, <2>4, <4>1, EmptySeq, Zenon DEF OtherTypes
    <3> QED
      BY <1>0, <1>4, <2>1, <3>1 DEF Feed, OtherTypes
  <2>7. /\ h \in Coros /\ h # Starter /\ h \notin writing
        /\ UNCHANGED <<out, writing, failed, uplink>>
    BY <1>4, CoroAssumption DEF Feed, Idle, Coros
  <2>8. CASE UNCHANGED <<packets, current>>
    BY <1>0, <2>5, <2>6, <2>7, <2>8, TypePartsNext DEF CoroTypes
  <2>9. CASE \E ps \in Seq(Packets) : ps # <<>> /\ packets' = [packets EXCEPT ![h] = ps] /\ current' = h
    <3>1. CoroTypes'
      BY <1>0, <2>7, <2>9 DEF CoroTypes
    <3> QED
      BY <2>5, <2>6, <3>1, TypePartsNext
  <2>10. <<Joined(pendingFragment, Head(value.packets))>> # <<>>
    OBVIOUS
  <2> QED
    BY <1>4, <2>2, <2>3, <2>8, <2>9, <2>10 DEF Feed
<1>5. ASSUME NEW h \in Handlers, current = h, HandlePacket(h, Head(packets[h])) PROVE TypeOK'
  BY <1>5, HandleTypes
<1> QED
  BY <1>1, <1>2, <1>3, <1>4, <1>5 DEF CoroStep
\* A packet with other fields.
LEMMA FieldTypes ==
  ASSUME NEW p \in Packets, NEW key \in Keys, NEW n \in Nat, NEW c \in Nat, NEW a \in BOOLEAN
  PROVE  /\ [p EXCEPT !.sig = <<key, n>>] \in Packets
         /\ [p EXCEPT !.sig = <<key, n>>, !.count = c] \in Packets
         /\ [p EXCEPT !.count = c, !.ack = a] \in Packets
         /\ [p EXCEPT !.fault = "mode"] \in Packets
<1>1. <<key, n>> \in {NoSig} \cup (Keys \X Nat) /\ "mode" \in Faults
  BY DEF Faults
<1> DEFINE sg == <<key, n>>
<1> HIDE DEF sg
<1>2. [p EXCEPT !.sig = sg] \in Packets /\ [p EXCEPT !.sig = sg, !.count = c] \in Packets
  BY <1>1 DEF Packets, sg
<1>3. [p EXCEPT !.count = c, !.ack = a] \in Packets
  BY DEF Packets
<1>4. [p EXCEPT !.fault = "mode"] \in Packets
  BY <1>1 DEF Packets
<1> QED
  BY <1>2, <1>3, <1>4 DEF sg

\* The steps of the button and the link.
LEMMA ButtonStepTypes ==
  ASSUME TypeOK, ButtonStep \/ ButtonSpeaks \/ StrayNotification \/ ConnectionLost
  PROVE  TypeOK'
<1>0. CoroTypes /\ HandlerTypes /\ OtherTypes
  BY TypeParts
<1> USE DEF sessionVars, coroVars, stateVars, authVars, eventVars, buttonVars
<1>1. HandlerTypes' /\ UNCHANGED <<setup, started, packets, out, writing, failed, current,
                                    pendingFragment>>
  <2>1. UNCHANGED sessionVars
    BY DEF ButtonStep, ButtonHolds, ButtonAnswers, ButtonAccepts, ButtonRefuses, Takes,
           ButtonSpeaks, StrayNotification, ConnectionLost
  <2> QED
    BY <1>0, <2>1 DEF HandlerTypes
\* What is left to show: the link and the button.
<1>2. ASSUME uplink' \in Seq(Values), downlink' \in Seq(Values), bPending' \in Seq(Packets),
             broken' \in BOOLEAN, bState' \in ButtonStates, bKey' \in {NoKey, "own"},
             bTx' \in Nat /\ bRx' \in Nat /\ bCount' \in Nat /\ bAcked' \in Nat,
             refused' \in BOOLEAN
      PROVE  TypeOK'
  <2>1. CoroTypes'
    BY <1>0, <1>1, <1>2 DEF CoroTypes
  <2>2. OtherTypes'
    BY <1>0, <1>1, <1>2 DEF OtherTypes
  <2> QED
    BY <1>1, <2>1, <2>2, TypePartsNext
<1>3. ASSUME NEW p \in Packets, Notify(p) PROVE downlink' \in Seq(Values)
  BY <1>0, <1>3, FragmentTypes, ConcatProperties DEF Notify, OtherTypes
<1>4. \A op \in Opcodes : FromButton(op) \in Packets /\ Assigned(op) \in Packets
  BY PlainPacket DEF FromButton, Assigned, Packets, OwnConn
<1>5. \A key \in Keys, n \in Nat, p \in Packets, c \in Nat, a \in BOOLEAN :
         /\ [p EXCEPT !.sig = <<key, n>>] \in Packets
         /\ [p EXCEPT !.sig = <<key, n>>, !.count = c] \in Packets
         /\ [p EXCEPT !.count = c, !.ack = a] \in Packets
         /\ [p EXCEPT !.fault = "mode"] \in Packets
  BY FieldTypes
<1>6. /\ bKey \in Keys /\ "own" \in Keys
      /\ bTx \in Nat /\ bRx \in Nat /\ bCount \in Nat /\ bAcked \in Nat
      /\ bState \in ButtonStates /\ bKey \in {NoKey, "own"} /\ refused \in BOOLEAN
  BY <1>0 DEF OtherTypes, Keys
<1>7. ASSUME uplink # <<>>
      PROVE  /\ Head(uplink) \in Values /\ Tail(uplink) \in Seq(Values)
             /\ Head(uplink).packets[1] \in Packets
             /\ Joined(bPending, Head(uplink).packets[1]) \in Packets
             /\ bPending \o Head(uplink).packets \in Seq(Packets)
  <2>1. Head(uplink) \in Values /\ Tail(uplink) \in Seq(Values)
    BY <1>0, <1>7, HeadTailProperties DEF CoroTypes
  <2>2. Head(uplink).packets \in Seq(Packets) /\ Head(uplink).packets # <<>>
    BY <2>1 DEF Values
  <2>3. Head(uplink).packets[1] \in Packets
    BY <2>2
  <2> QED
    BY <1>0, <2>1, <2>2, <2>3, JoinedTypes, ConcatProperties DEF OtherTypes
<1>8. CASE ButtonHolds
  BY <1>0, <1>2, <1>7, <1>8 DEF ButtonHolds, OtherTypes
<1>9. ASSUME NEW u, Takes(u)
      PROVE  u \in Packets /\ uplink' \in Seq(Values) /\ bPending' \in Seq(Packets)
             /\ UNCHANGED broken
  BY <1>7, <1>9 DEF Takes
<1>10. ASSUME NEW u, ButtonAnswers(u) PROVE TypeOK'
  <2>1. u \in Packets /\ uplink' \in Seq(Values) /\ bPending' \in Seq(Packets) /\ UNCHANGED broken
    BY <1>9, <1>10 DEF ButtonAnswers
  <2>2. \E p \in Packets : Notify(p)
    BY <1>4, <1>5, <1>6, <1>10 DEF ButtonAnswers, Opcodes
  <2>3. bState' \in ButtonStates /\ bKey' \in {NoKey, "own"} /\ bTx' \in Nat
    BY <1>0, <1>10 DEF ButtonAnswers, OtherTypes, ButtonStates
  <2> QED
    BY <1>0, <1>2, <1>3, <1>10, <2>1, <2>2, <2>3 DEF ButtonAnswers, OtherTypes
<1>11. ASSUME NEW u, ButtonAccepts(u) PROVE TypeOK'
  <2>1. u \in Packets /\ uplink' \in Seq(Values) /\ bPending' \in Seq(Packets) /\ UNCHANGED broken
    BY <1>9, <1>11 DEF ButtonAccepts
  <2>2. u.count \in Nat
    BY <2>1 DEF Packets
  <2>3. downlink' \in Seq(Values) /\ bCount' \in Nat
    <3>1. CASE UNCHANGED <<downlink, bCount>>
      BY <1>0, <1>6, <3>1 DEF OtherTypes
    <3>2. ASSUME NEW n \in u.count .. u.count + 1, bCount' = n,
                 Notify([FromButton("INIT_RESPONSE") EXCEPT !.sig = <<bKey, bTx>>, !.count = n])
          PROVE  downlink' \in Seq(Values) /\ bCount' \in Nat
      <4>1. n \in Nat /\ FromButton("INIT_RESPONSE") \in Packets
        BY <1>4, <2>2 DEF Opcodes
      <4>2. [FromButton("INIT_RESPONSE") EXCEPT !.sig = <<bKey, bTx>>, !.count = n] \in Packets
        BY <1>5, <1>6, <4>1
      <4> QED
        BY <1>3, <3>2, <4>1, <4>2
    <3> QED
      BY <1>11, <3>1, <3>2 DEF ButtonAccepts
  <2>4. bState' \in ButtonStates /\ bKey' \in {NoKey, "own"} /\ bTx' \in Nat /\ bRx' \in Nat
        /\ bAcked' \in Nat /\ refused' \in BOOLEAN
    <3>1. /\ bKey' = bKey /\ bRx' = bRx + 1 /\ refused' = refused
          /\ bTx' \in {bTx, bTx + 1} /\ bAcked' \in {bAcked, u.count} /\ bState' \in {bState, "active"}
      BY <1>11 DEF ButtonAccepts
    <3> QED
      BY <1>6, <2>2, <3>1 DEF ButtonStates
  <2>5. broken' \in BOOLEAN
    BY <1>0, <2>1 DEF OtherTypes
  <2> QED
    BY <1>2, <2>1, <2>3, <2>4, <2>5
<1>12. ASSUME NEW u, ButtonRefuses(u) PROVE TypeOK'
  BY <1>0, <1>2, <1>9, <1>12 DEF ButtonRefuses, OtherTypes, ButtonStates
<1>13. CASE ButtonSpeaks
  <2>1. \A n \in Nat, ack \in BOOLEAN : ButtonEvent(n, ack) \in Packets
    <3> SUFFICES ASSUME NEW n \in Nat, NEW ack \in BOOLEAN PROVE ButtonEvent(n, ack) \in Packets
      OBVIOUS
    <3>1. FromButton("BUTTON_EVENT") \in Packets /\ bTx + n \in Nat /\ bCount + n + 1 \in Nat
      BY <1>4, <1>6 DEF Opcodes
    <3>2. ButtonPacket("BUTTON_EVENT", bTx + n) \in Packets
      BY <1>5, <1>6, <3>1 DEF ButtonPacket
    <3> QED
      BY <1>5, <1>6, <3>1, <3>2 DEF ButtonEvent
  <2>2. \A op \in Opcodes : ButtonPacket(op, bTx) \in Packets
    BY <1>4, <1>5, <1>6 DEF ButtonPacket
  <2>3. downlink' \in Seq(Values)
    <3>1. ASSUME NEW ack \in BOOLEAN,
                 downlink' = Append(downlink, [more |-> FALSE,
                               packets |-> <<ButtonEvent(0, ack), ButtonEvent(1, FALSE)>>])
          PROVE  downlink' \in Seq(Values)
      <4>1. \A p, q \in Packets : <<p, q>> \in Seq(Packets) \ {<<>>}
        OBVIOUS
      <4>2. <<ButtonEvent(0, ack), ButtonEvent(1, FALSE)>> \in Seq(Packets) \ {<<>>}
        BY <2>1, <4>1
      <4> QED
        BY <1>0, <3>1, <4>2, AppendProperties DEF OtherTypes, Values
    <3>2. CASE \E p \in Packets : Notify(p)
      BY <1>3, <3>2
    <3> QED
      BY <1>13, <2>1, <2>2, <3>1, <3>2 DEF ButtonSpeaks, Opcodes
  <2>4. bState' \in ButtonStates /\ bTx' \in Nat /\ bCount' \in Nat
    <3>1. /\ bState' \in {bState, "closed"}
          /\ bTx' \in {bTx + 1, bTx + 2} /\ bCount' \in {bCount, bCount + 1, bCount + 2}
      BY <1>13 DEF ButtonSpeaks
    <3> QED
      BY <1>6, <3>1 DEF ButtonStates
  <2> QED
    BY <1>0, <1>2, <1>13, <2>3, <2>4 DEF ButtonSpeaks, OtherTypes, CoroTypes
<1>14. CASE StrayNotification
  <2>1. PICK p \in Strays[setup] : downlink' = Append(downlink, Whole(p))
    BY <1>14 DEF StrayNotification
  <2>2. p \in Packets
    BY <1>0, StrayAssumption DEF OtherTypes
  <2>3. Whole(p) \in Values
    BY <2>2, Pieces
  <2>4. downlink' \in Seq(Values)
    BY <1>0, <2>1, <2>3, AppendProperties DEF OtherTypes
  <2> QED
    BY <1>0, <1>2, <1>14, <2>4 DEF StrayNotification, OtherTypes, CoroTypes
<1>15. CASE ConnectionLost
  <2>1. PICK n \in 0 .. Len(downlink) : downlink' = SubSeq(downlink, 1, n)
    BY <1>15 DEF ConnectionLost
  <2>2. downlink' \in Seq(Values)
    BY <1>0, <2>1, SubSeqProperties DEF OtherTypes
  <2> QED
    BY <1>0, <1>2, <1>15, <2>2 DEF ConnectionLost, OtherTypes
<1> QED
  BY <1>8, <1>10, <1>11, <1>12, <1>13, <1>14, <1>15 DEF ButtonStep

\* The induction step of type correctness.
LEMMA TypeStep == TypeOK /\ [Next]_vars => TypeOK'
<1> SUFFICES ASSUME TypeOK, [Next]_vars PROVE TypeOK'
  OBVIOUS
<1>1. CASE UNCHANGED vars
  BY <1>1 DEF vars, TypeOK, stateVars, authVars, eventVars, coroVars, linkVars, buttonVars
<1> QED
  BY <1>1, CoroStepTypes, ButtonStepTypes DEF Next

\* The domains of the variables; a coroutine on the loop has a packet to handle
\* and is not suspended.
THEOREM TypeCorrect == Spec => []TypeOK
BY TypeInit, TypeStep, PTL DEF Spec

-----------------------------------------------------------------------------
(* FlicSession implements SessionOutcome *)

\* A handshake or a ready session was started; only a failure may come before.
StartedFirst ==
    /\ state \notin {"IDLE", "FAILED"} => started
    /\ ready /\ failure = NoFailure => started

(* What a step may do to the state, the failure and the waiters *)

\* start() chooses a handshake.
StartMove == ~started /\ started' = TRUE /\ UNCHANGED <<ready, failure>>

\* A failure is recorded.
FailMove == state' = "FAILED" /\ failure' # NoFailure /\ UNCHANGED started

\* The waiters of an established session are woken.
ReadyMove ==
    /\ state \notin {"IDLE", "FAILED"} /\ state' = state /\ ready'
    /\ UNCHANGED <<started, failure>>

\* The handshake goes on, or nothing happens.
OtherMove ==
    /\ state \notin {"IDLE", "FAILED"} \/ state' = state
    /\ UNCHANGED <<started, ready, failure>>

Moves == StartMove \/ FailMove \/ ReadyMove \/ OtherMove

-----------------------------------------------------------------------------
\* The failure handler records the error it was given.
LEMMA FailMoves ==
  ASSUME NEW h, NEW err \in Errors, Fail(h, err), UNCHANGED started
  PROVE  FailMove
BY DEF Fail, FailMove, Errors, NoFailure

\* A handler that raises leaves through the failure handler.
LEMMA RaiseMoves ==
  ASSUME NEW h, NEW err \in Errors, Raise(h, err), UNCHANGED started
  PROVE  Moves
BY FailMoves DEF Raise, Moves

\* The handlers of the handshake.
LEMMA HandshakeMoves ==
  ASSUME NEW h, NEW p,
         \/ Ignored(h, p) \/ NoSlots(h, p) \/ HandleFullVerify1(h, p) \/ PairingRejected(h, p)
         \/ HandleFullVerify2(h, p) \/ QuickVerifyNegative(h, p) \/ HandleQuickVerify(h, p)
  PROVE  Moves
<1> USE DEF stateVars, Errors
<1>1. CASE Ignored(h, p)
  BY <1>1 DEF Ignored, Moves, OtherMove
<1>2. CASE NoSlots(h, p)
  BY <1>2, RaiseMoves DEF NoSlots
<1>3. CASE HandleFullVerify1(h, p)
  <2>1. CASE \E err \in Errors : Raise(h, err)
    BY <1>3, <2>1, RaiseMoves DEF HandleFullVerify1
  <2>2. CASE UNCHANGED stateVars
    BY <2>2 DEF Moves, OtherMove
  <2>3. CASE state' = "WAIT_FULL_VERIFY_2" /\ UNCHANGED <<ready, failure>>
    BY <1>3, <2>3 DEF HandleFullVerify1, Moves, OtherMove
  <2> QED
    BY <1>3, <2>1, <2>2, <2>3 DEF HandleFullVerify1
<1>4. CASE PairingRejected(h, p)
  BY <1>4, RaiseMoves DEF PairingRejected
<1>5. CASE HandleFullVerify2(h, p)
  <2>1. CASE \E err \in Errors : Raise(h, err)
    BY <1>5, <2>1, RaiseMoves DEF HandleFullVerify2
  <2>2. CASE UNCHANGED stateVars
    BY <2>2 DEF Moves, OtherMove
  <2>3. CASE Establish
    BY <1>5, <2>3 DEF HandleFullVerify2, Establish, Moves, OtherMove
  <2> QED
    BY <1>5, <2>1, <2>2, <2>3 DEF HandleFullVerify2
<1>6. CASE QuickVerifyNegative(h, p)
  BY <1>6, RaiseMoves DEF QuickVerifyNegative
<1>7. CASE HandleQuickVerify(h, p)
  <2>1. CASE \E err \in Errors : Raise(h, err)
    BY <1>7, <2>1, RaiseMoves DEF HandleQuickVerify
  <2>2. CASE UNCHANGED stateVars
    BY <2>2 DEF Moves, OtherMove
  <2>3. CASE Establish
    BY <1>7, <2>3 DEF HandleQuickVerify, Establish, Moves, OtherMove
  <2> QED
    BY <1>7, <2>1, <2>2, <2>3 DEF HandleQuickVerify
<1> QED
  BY <1>1, <1>2, <1>3, <1>4, <1>5, <1>6, <1>7

\* The handlers of the established session.
LEMMA EstablishedMoves ==
  ASSUME NEW h, NEW p,
         \/ VerifyFails(h, p) \/ InitResponse(h, p) \/ ButtonEvents(h, p) \/ Ping(h, p)
         \/ OtherPacket(h, p) \/ DisconnectLink(h, p)
  PROVE  Moves
<1> USE DEF stateVars, Errors
<1>1. CASE VerifyFails(h, p)
  BY <1>1, RaiseMoves DEF VerifyFails
<1>2. CASE InitResponse(h, p)
  <2>1. CASE Raise(h, "FlicProtocolError")
    BY <1>2, <2>1, RaiseMoves DEF InitResponse, Verified
  <2>2. CASE ready' = TRUE /\ UNCHANGED <<state, failure>>
    BY <1>2, <2>2 DEF InitResponse, Verified, ForSession, Moves, ReadyMove
  <2> QED
    BY <1>2, <2>1, <2>2 DEF InitResponse
<1>3. CASE ButtonEvents(h, p)
  <2>1. CASE Raise(h, "FlicProtocolError")
    BY <1>3, <2>1, RaiseMoves DEF ButtonEvents, Verified
  <2>2. CASE UNCHANGED stateVars
    BY <2>2 DEF Moves, OtherMove
  <2> QED
    BY <1>3, <2>1, <2>2 DEF ButtonEvents
<1>4. CASE Ping(h, p) \/ OtherPacket(h, p)
  BY <1>4 DEF Ping, OtherPacket, Moves, OtherMove
<1>5. CASE DisconnectLink(h, p)
  BY <1>5, RaiseMoves DEF DisconnectLink, Verified
<1> QED
  BY <1>1, <1>2, <1>3, <1>4, <1>5

\* Every step is one of the moves.
LEMMA StepMoves == [Next]_vars => Moves
<1> SUFFICES ASSUME [Next]_vars PROVE Moves
  OBVIOUS
<1> USE DEF stateVars, sessionVars
<1>1. CASE Start
  BY <1>1 DEF Start, Moves, StartMove
<1>2. ASSUME NEW h \in Coros, WriteReturns(h) PROVE Moves
  BY <1>2 DEF WriteReturns, Moves, OtherMove
<1>3. ASSUME NEW h \in Coros, WriteRaises(h) PROVE Moves
  <2>1. CASE Fail(h, "BleakError")
    BY <1>3, <2>1, FailMoves DEF WriteRaises, Moves, Errors
  <2>2. CASE UNCHANGED <<state, ready, failure>>
    BY <1>3, <2>2 DEF WriteRaises, Moves, OtherMove
  <2> QED
    BY <1>3, <2>1, <2>2 DEF WriteRaises
<1>4. ASSUME NEW h \in Handlers, Feed(h) PROVE Moves
  BY <1>4 DEF Feed, Moves, OtherMove
<1>5. ASSUME NEW h \in Handlers, HandlePacket(h, Head(packets[h])) PROVE Moves
  BY <1>5, HandshakeMoves, EstablishedMoves DEF HandlePacket
<1>6. CASE ButtonStep
  BY <1>6 DEF ButtonStep, ButtonHolds, ButtonAnswers, ButtonAccepts, ButtonRefuses, Takes,
              Moves, OtherMove
<1>7. CASE ButtonSpeaks \/ StrayNotification \/ ConnectionLost
  BY <1>7 DEF ButtonSpeaks, StrayNotification, ConnectionLost, Moves, OtherMove
<1>8. CASE UNCHANGED vars
  BY <1>8 DEF vars, Moves, OtherMove
<1> QED
  BY <1>1, <1>2, <1>3, <1>4, <1>5, <1>6, <1>7, <1>8 DEF Next, CoroStep

\* A session that is in a handshake, established, or ready without a failure was
\* started: no packet that comes before start() is taken for an answer.
THEOREM StartsFirst == Spec => []StartedFirst
<1>1. Init => StartedFirst
  BY DEF Init, StartedFirst
<1>2. StartedFirst /\ [Next]_vars => StartedFirst'
  BY StepMoves DEF StartedFirst, Moves, StartMove, FailMove, ReadyMove, OtherMove
<1> QED
  BY <1>1, <1>2, PTL DEF Spec

\* A session is started once, becomes ready once and after it was started, and a
\* failure is final, whatever arrives, in whatever order, from whomever.
THEOREM Implementation == Spec => ImplementsOutcome
<1> DEFINE o == IF failure # NoFailure THEN "failed"
                ELSE IF ready THEN "ready"
                ELSE IF started THEN "waiting" ELSE "idle"
<1>1. Init => Outcome!OInit
  BY DEF Init, Outcome!OInit
<1>2. StartedFirst /\ [Next]_vars => [Outcome!ONext]_o
  <2> SUFFICES ASSUME StartedFirst, Moves PROVE [Outcome!ONext]_o
    BY StepMoves
  <2> USE DEF Outcome!ONext, Outcome!OStarted, Outcome!OReady, Outcome!OFailed
  <2>1. CASE StartMove
    BY <2>1 DEF StartMove, StartedFirst
  <2>2. CASE FailMove
    BY <2>2 DEF FailMove
  <2>3. CASE ReadyMove
    BY <2>3 DEF ReadyMove, StartedFirst
  <2>4. CASE OtherMove
    BY <2>4 DEF OtherMove
  <2> QED
    BY <2>1, <2>2, <2>3, <2>4 DEF Moves
<1> QED
  BY <1>1, <1>2, StartsFirst, PTL DEF Spec, ImplementsOutcome, Outcome!OSpec

-----------------------------------------------------------------------------
(* Elements of sequences, and the packets on their way to the session *)

\* The elements of a sequence, of its head and tail and of its prefixes.
LEMMA ElementsOf ==
  ASSUME NEW S, NEW s \in Seq(S)
  PROVE  /\ Elements(s) \subseteq S
         /\ s # <<>> => Head(s) \in Elements(s) /\ Elements(Tail(s)) \subseteq Elements(s)
         /\ \A n \in 0..Len(s) : Elements(SubSeq(s, 1, n)) \subseteq Elements(s)
<1> USE DEF Elements
<1>3. Elements(s) \subseteq S
  OBVIOUS
<1>4. ASSUME s # <<>> PROVE Head(s) \in Elements(s) /\ Elements(Tail(s)) \subseteq Elements(s)
  <2>1. Len(s) \in Nat \ {0} /\ Head(s) = s[1] /\ Len(Tail(s)) = Len(s) - 1
        /\ \A i \in 1..Len(Tail(s)) : Tail(s)[i] = s[i + 1]
    BY <1>4, HeadTailProperties, EmptySeq
  <2> QED
    BY <2>1
<1>5. ASSUME NEW n \in 0..Len(s) PROVE Elements(SubSeq(s, 1, n)) \subseteq Elements(s)
  OBVIOUS
<1> QED
  BY <1>3, <1>4, <1>5

\* The elements of short sequences.
LEMMA ElementsOfFew == Elements(<<>>) = {} /\ \A e : Elements(<<e>>) = {e}
BY DEF Elements

\* Concatenation and appending add elements.
LEMMA ElementsAdded ==
  ASSUME NEW S, NEW s \in Seq(S), NEW t \in Seq(S)
  PROVE  /\ Elements(s \o t) = Elements(s) \cup Elements(t)
         /\ \A e \in S : Elements(Append(s, e)) = Elements(s) \cup {e}
<1> USE DEF Elements
<1>1. Elements(s \o t) = Elements(s) \cup Elements(t)
  <2>1. /\ Len(s \o t) = Len(s) + Len(t) /\ Len(s) \in Nat /\ Len(t) \in Nat
        /\ \A i \in 1 .. Len(s) + Len(t) : (s \o t)[i] = IF i <= Len(s) THEN s[i] ELSE t[i - Len(s)]
    BY ConcatProperties, LenProperties
  <2>2. ASSUME NEW i \in 1..Len(s \o t) PROVE (s \o t)[i] \in Elements(s) \cup Elements(t)
    <3>1. CASE i <= Len(s)
      BY <2>1, <3>1
    <3>2. CASE ~(i <= Len(s))
      <4>1. i - Len(s) \in 1..Len(t)
        BY <2>1, <3>2
      <4> QED
        BY <2>1, <3>2, <4>1
    <3> QED
      BY <3>1, <3>2
  <2>3. ASSUME NEW i \in 1..Len(s) PROVE s[i] \in Elements(s \o t)
    BY <2>1
  <2>4. ASSUME NEW i \in 1..Len(t) PROVE t[i] \in Elements(s \o t)
    <3>1. i + Len(s) \in 1..Len(s \o t) /\ (s \o t)[i + Len(s)] = t[i]
      BY <2>1
    <3> QED
      BY <3>1
  <2> QED
    BY <2>2, <2>3, <2>4
<1>2. ASSUME NEW e \in S PROVE Elements(Append(s, e)) = Elements(s) \cup {e}
  <2>1. /\ Len(Append(s, e)) = Len(s) + 1 /\ Len(s) \in Nat
        /\ \A i \in 1..Len(s) : Append(s, e)[i] = s[i]
        /\ Append(s, e)[Len(s) + 1] = e
    BY AppendProperties, LenProperties
  <2>2. \A i \in 1..Len(s) + 1 : i \in 1..Len(s) \/ i = Len(s) + 1
    BY <2>1
  <2>3. Elements(Append(s, e)) \subseteq Elements(s) \cup {e}
    BY <2>1, <2>2
  <2>4. \A i \in 1..Len(s) : i \in 1..Len(s) + 1
    BY <2>1
  <2>5. Len(s) + 1 \in 1..Len(s) + 1
    BY <2>1
  <2> QED
    BY <2>1, <2>3, <2>4, <2>5
<1> QED
  BY <1>1, <1>2

\* A packet that is on its way is in one of three places.
LEMMA ArrivingMember ==
  \A p : p \in Arriving <=> \/ \E h \in Coros : p \in Elements(packets[h])
                            \/ \E v \in Elements(downlink) : p \in Elements(v.packets)
                            \/ p \in Elements(pendingFragment)
BY DEF Arriving

\* The same, after a step.
LEMMA ArrivingMemberNext ==
  \A p : p \in Arriving' <=> \/ \E h \in Coros : p \in Elements(packets'[h])
                             \/ \E v \in Elements(downlink') : p \in Elements(v.packets)
                             \/ p \in Elements(pendingFragment')
BY DEF Arriving, Elements

\* What is on its way to the session are packets.
LEMMA ArrivingPackets == TypeOK => Arriving \subseteq Packets
<1> SUFFICES ASSUME TypeOK, NEW p \in Arriving PROVE p \in Packets
  OBVIOUS
<1> USE DEF TypeOK
<1>1. CASE \E h \in Coros : p \in Elements(packets[h])
  BY <1>1, ElementsOf
<1>2. CASE \E v \in Elements(downlink) : p \in Elements(v.packets)
  <2>1. PICK v \in Elements(downlink) : p \in Elements(v.packets)
    BY <1>2
  <2>2. v \in Values
    BY <2>1, ElementsOf
  <2> QED
    BY <2>1, <2>2, ElementsOf DEF Values
<1>3. CASE p \in Elements(pendingFragment)
  BY <1>3, ElementsOf
<1> QED
  BY <1>1, <1>2, <1>3, ArrivingMember

\* A packet that is handled was on its way, and nothing is added.
LEMMA ArrivingHandled ==
  ASSUME TypeOK, current \in Handlers, UNCHANGED <<downlink, pendingFragment>>,
         \/ packets' = [packets EXCEPT ![current] = Tail(@)]
         \/ packets' = [packets EXCEPT ![current] = <<>>]
  PROVE  Arriving' \subseteq Arriving /\ Head(packets[current]) \in Arriving
<1>1. /\ packets[current] \in Seq(Packets) /\ packets[current] # <<>>
      /\ current \in Coros /\ packets \in [Coros -> Seq(Packets)]
  BY HeadTypes, TypeParts DEF CoroTypes
<1>2. /\ Head(packets[current]) \in Elements(packets[current])
      /\ Elements(Tail(packets[current])) \subseteq Elements(packets[current])
  BY <1>1, ElementsOf
<1>3. \A h \in Coros : Elements(packets'[h]) \subseteq Elements(packets[h])
  <2>1. \A h \in Coros : packets'[h] \in {packets[h], <<>>} \/ h = current
    BY <1>1
  <2>2. packets'[current] \in {Tail(packets[current]), <<>>}
    BY <1>1
  <2> QED
    BY <1>2, <2>1, <2>2, ElementsOfFew
<1> QED
  BY <1>1, <1>2, <1>3, ArrivingMember, ArrivingMemberNext

\* Values put on the link add the packets in them.
LEMMA ArrivingAppended ==
  ASSUME TypeOK, NEW vs \in Seq(Values), downlink' = downlink \o vs,
         UNCHANGED <<packets, pendingFragment>>
  PROVE  \A p \in Arriving' : p \in Arriving \/ \E v \in Elements(vs) : p \in Elements(v.packets)
<1>1. Elements(downlink') = Elements(downlink) \cup Elements(vs)
  BY ElementsAdded DEF TypeOK
<1> QED
  BY <1>1, ArrivingMember, ArrivingMemberNext

\* What is fed comes off the link, unless it was put together wrongly.
Garbled(p) == p.op = "GARBLED" /\ p.sig = <<"garbled", 0>>

\* Feeding a GATT value to a handler moves its packets and adds at most one that
\* was joined from the fragments of different packets.
LEMMA ArrivingFed ==
  ASSUME TypeOK, NEW h \in Handlers, Feed(h), NEW p \in Arriving'
  PROVE  p \in Arriving \/ Garbled(p)
<1> DEFINE value == Head(downlink)
           e == Head(value.packets)
           joined == Joined(pendingFragment, e)
<1>1. /\ downlink # <<>> /\ downlink' = Tail(downlink)
      /\ h \in Coros /\ packets \in [Coros -> Seq(Packets)]
      /\ downlink \in Seq(Values) /\ pendingFragment \in Seq(Packets)
  BY DEF Feed, TypeOK, Coros
<1>2. /\ value \in Elements(downlink) /\ Elements(downlink') \subseteq Elements(downlink)
      /\ value.packets \in Seq(Packets) /\ e \in Elements(value.packets) /\ e \in Packets
  <2>1. value \in Elements(downlink) /\ Elements(downlink') \subseteq Elements(downlink)
    BY <1>1, ElementsOf
  <2>2. value \in Values
    BY <1>1, <2>1, ElementsOf
  <2> QED
    BY <2>1, <2>2, ElementsOf DEF Values
<1>3. \/ pendingFragment' = pendingFragment \o value.packets /\ UNCHANGED packets
      \/ pendingFragment' = <<>> /\ packets' = [packets EXCEPT ![h] = <<joined>>]
      \/ packets' = [packets EXCEPT ![h] = value.packets] /\ UNCHANGED pendingFragment
  BY DEF Feed
<1> HIDE DEF value, e
<1>4. joined = e \/ Garbled(joined)
  <2> DEFINE g == [e EXCEPT !.op = "GARBLED", !.sig = <<"garbled", 0>>]
  <2>1. Garbled(g)
    BY <1>2 DEF Packets, Garbled
  <2>2. joined \in {e, g}
    BY DEF Joined
  <2> HIDE DEF g, joined
  <2> QED
    BY <2>1, <2>2
<1> HIDE DEF joined
<1>5. \A q \in Elements(value.packets) : q \in Arriving
  BY <1>2, ArrivingMember
<1>6. p \in Elements(pendingFragment') => p \in Arriving
  <2>1. Elements(pendingFragment \o value.packets) = Elements(pendingFragment) \cup Elements(value.packets)
    BY <1>1, <1>2, ElementsAdded
  <2> QED
    BY <1>3, <1>5, <2>1, ArrivingMember, ElementsOfFew
<1>7. ASSUME NEW g \in Coros, p \in Elements(packets'[g])
      PROVE  p \in Arriving \/ Garbled(p)
  <2>1. packets'[g] = packets[g] \/ packets'[g] = <<joined>> \/ packets'[g] = value.packets
    BY <1>1, <1>3
  <2>2. CASE packets'[g] = packets[g]
    BY <1>7, <2>2, ArrivingMember
  <2>3. CASE packets'[g] = <<joined>>
    <3>1. p = joined
      BY <1>7, <2>3, ElementsOfFew
    <3> QED
      BY <1>2, <1>4, <1>5, <3>1
  <2>4. CASE packets'[g] = value.packets
    BY <1>5, <1>7, <2>4
  <2> QED
    BY <2>1, <2>2, <2>3, <2>4
<1> QED
  BY <1>2, <1>6, <1>7, ArrivingMember, ArrivingMemberNext

(* Steps on which nothing that the session could trust is put on the way to it *)

\* A packet that the session has no ground to trust.
Harmless(p) == ~Offer(p) /\ (OwnSigned(p) => Malformed(p))

\* If no packet comes to the way that could be trusted, PacketsTrue and
\* EventsAscend are kept by a step that keeps what they say of the button.
LEMMA NothingNew ==
  ASSUME TypeOK, PacketsTrue, EventsAscend,
         \A p \in Arriving' : p \in Arriving \/ Harmless(p),
         UNCHANGED <<bState, bTx, bCount, delivered>>,
         rxCounter' \in Nat, rxCounter' >= rxCounter
  PROVE  PacketsTrue' /\ EventsAscend'
<1>1. PacketsTrue'
  BY DEF PacketsTrue, PacketTrue, ButtonVerified, ButtonOpen, Harmless
<1>2. \A p \in Arriving' : GenuineEvent(p) => p \in Arriving /\ p.sig[2] \in Nat
  <2>1. \A p \in Arriving : GenuineEvent(p) => p.sig[2] \in Nat
    BY ArrivingPackets DEF GenuineEvent, OwnSigned, Packets
  <2> QED
    BY <2>1 DEF GenuineEvent, Harmless
<1>3. LastDelivered' = LastDelivered
  BY DEF LastDelivered
<1>4. \A p, q \in Arriving' : GenuineEvent(p) /\ GenuineEvent(q) /\ p.sig[2] < q.sig[2]
                                => p.count < q.count
  BY <1>2 DEF EventsAscend
<1>5. \A p \in Arriving' : GenuineEvent(p) /\ p.sig[2] >= rxCounter' => p.count > LastDelivered'
  <2>1. rxCounter \in Nat
    BY DEF TypeOK
  <2>2. \A n \in Nat : n >= rxCounter' => n >= rxCounter
    BY <2>1
  <2> QED
    BY <1>2, <1>3, <2>2 DEF EventsAscend
<1>6. LastDelivered' <= bCount' /\ (~ButtonOpen' => delivered' = <<>>)
  BY <1>3 DEF EventsAscend, ButtonOpen
<1> QED
  BY <1>1, <1>4, <1>5, <1>6 DEF EventsAscend

\* A step that changes nothing but the way of packets keeps them too.
LEMMA NothingAdded ==
  ASSUME TypeOK, TypeOK', IInv, Arriving' \subseteq Arriving,
         UNCHANGED <<bState, bTx, bCount, delivered>>, rxCounter' \in {rxCounter, rxCounter + 1}
  PROVE  PacketsTrue' /\ EventsAscend'
<1>1. \A p \in Arriving' : p \in Arriving \/ Harmless(p)
  BY Zenon
<1>2. PacketsTrue /\ EventsAscend
  BY DEF IInv
<1>3. rxCounter' \in Nat /\ rxCounter' >= rxCounter
  <2>1. rxCounter \in Nat
    BY DEF TypeOK
  <2> QED
    BY <2>1
<1> QED
  BY <1>1, <1>2, <1>3, NothingNew

(* Packets on their way to the button *)

\* The last element of a short sequence is an element of it.
LEMMA LastOf == \A v, w : w \in Elements(<<w>>) /\ w \in Elements(<<v, w>>)
BY DEF Elements

\* What is being sent is among what is written.
LEMMA SendingWritten ==
  ASSUME NEW h \in Coros, NEW u \in Packets, Sending(h, u)
  PROVE  u \in Written
<1>1. Whole(u) \in Elements(uplink) \/ Whole(u) \in Elements(out[h])
  BY LastOf DEF Sending
<1> QED
  BY <1>1, Pieces DEF Written

\* The same, after a step.
LEMMA SendingWrittenNext ==
  ASSUME NEW h \in Coros, NEW u \in Packets, Sending(h, u)'
  PROVE  u \in Written'
<1>1. Whole(u) \in Elements(uplink') \/ Whole(u) \in Elements(out'[h])
  BY LastOf DEF Sending
<1>2. Written' = {v.packets[1] : v \in Elements(uplink') \cup (UNION {Elements(out'[g]) : g \in Coros})}
  BY DEF Written, Elements
<1> QED
  BY <1>1, <1>2, Pieces

\* What the session is sending are packets.
LEMMA WrittenPackets == TypeOK => Written \subseteq Packets
<1> SUFFICES ASSUME TypeOK, NEW v, v \in Elements(uplink) \/ \E h \in Coros : v \in Elements(out[h])
             PROVE  v.packets[1] \in Packets
  BY DEF Written
<1>1. v \in Values
  BY ElementsOf DEF TypeOK
<1> QED
  BY <1>1 DEF Values

\* A packet that is sent while no other is on its way.
LEMMA SendFirst ==
  ASSUME TypeOK, TypeOK', Quiet, NEW h \in Coros, NEW u \in Packets, Send(h, u),
         UNCHANGED <<setup, bPending>>
  PROVE  Quiet' \/ (Sending(h, u)' /\ u \in Written')
<1>1. bPending = <<>> /\ bPending' = <<>> /\ uplink = <<>> /\ out \in [Coros -> Seq(Values)]
      /\ \A g \in Coros : out[g] = <<>>
  BY DEF Quiet, TypeOK
<1>2. CASE uplink' = uplink /\ out' = [out EXCEPT ![h] = <<>>]
  BY <1>1, <1>2 DEF Quiet
<1>3. CASE /\ uplink' = Append(uplink, Head(Fragments(u)))
           /\ out' = [out EXCEPT ![h] = Tail(Fragments(u))]
  <2>1. /\ uplink' = <<Head(Fragments(u))>>
        /\ out'[h] = Tail(Fragments(u)) /\ \A g \in Coros \ {h} : out'[g] = <<>>
    BY <1>1, <1>3
  <2>2. Long(u.op)' = Long(u.op)
    BY DEF Long
  <2>3. Sending(h, u)'
    BY <1>1, <2>1, <2>2, FragmentsOf DEF Sending
  <2> QED
    BY <2>3, SendingWrittenNext
<1> QED
  BY <1>2, <1>3 DEF Send, Write

\* What remains of a short sequence when its head is taken.
LEMMA FewValues ==
  ASSUME NEW v \in Values, NEW w \in Values
  PROVE  /\ Head(<<v>>) = v /\ Tail(<<v>>) = <<>> /\ <<v>> # <<>> /\ Append(<<>>, v) = <<v>>
         /\ Head(<<v, w>>) = v /\ Tail(<<v, w>>) = <<w>> /\ <<v, w>> # <<>>
         /\ Append(<<v>>, w) = <<v, w>>
<1>1. Head(<<v>>) = v /\ Tail(<<v>>) = <<>> /\ <<v>> # <<>>
  OBVIOUS
<1>2. Head(<<v, w>>) = v /\ Tail(<<v, w>>) = <<w>> /\ <<v, w>> # <<>>
  OBVIOUS
<1>3. Append(<<>>, v) = <<v>>
  OBVIOUS
<1>4. Append(<<v>>, w) = <<v, w>>
  <2>1. <<v>> \in Seq(Values) /\ <<v, w>> \in Seq(Values) /\ Len(<<v>>) = 1 /\ Len(<<v, w>>) = 2
    OBVIOUS
  <2>2. /\ Append(<<v>>, w) \in Seq(Values) /\ Len(Append(<<v>>, w)) = 2
        /\ Append(<<v>>, w)[1] = v /\ Append(<<v>>, w)[2] = w
    <3>1. <<v>>[1] = v
      OBVIOUS
    <3> QED
      BY <2>1, <3>1, AppendProperties
  <2>3. <<v, w>>[1] = v /\ <<v, w>>[2] = w
    OBVIOUS
  <2>4. \A i \in 1..2 : i = 1 \/ i = 2
    OBVIOUS
  <2> QED
    BY <2>1, <2>2, <2>3, <2>4, SeqEqual
<1> QED
  BY <1>1, <1>2, <1>3, <1>4

\* A request that is on its way is what the button expects.
LEMMA RequestOnTheWay ==
  ASSUME TypeOK, UplinkTrue, ~ButtonOpen, ~broken, ~Quiet, ~Stuck
  PROVE  \E h \in Coros, u \in Packets :
            /\ Sending(h, u) /\ Expects(u)
            /\ bState = "idle" => (u.op = "QUICK_VERIFY_REQUEST" <=> ~setup.full)
            /\ bState = "verified" => txCounter = 1
BY WrittenPackets DEF UplinkTrue, Requesting

\* The button takes it whole, and then nothing is on its way.
LEMMA TakesRequest ==
  ASSUME TypeOK, UplinkTrue, ~ButtonOpen, NEW u, Takes(u)
  PROVE  /\ u \in Packets /\ Expects(u) /\ Quiet' /\ ~Quiet
         /\ bState = "idle" => (u.op = "QUICK_VERIFY_REQUEST" <=> ~setup.full)
         /\ bState = "verified" => txCounter = 1
<1>1. ~broken /\ ~Quiet /\ uplink # <<>>
  BY DEF Takes, Quiet
<1>8. ~Stuck
  <2>1. ASSUME NEW w \in Packets, uplink = <<Piece(w)>> PROVE FALSE
    <3>1. Piece(w) \in Values /\ Piece(w).more
      BY Pieces
    <3> QED
      BY <2>1, <3>1, FewValues DEF Takes
  <2>2. \A w \in Written \cup Elements(bPending) : w \in Packets
    BY WrittenPackets, ElementsOf DEF TypeOK
  <2> QED
    BY <1>1, <2>1, <2>2 DEF Stuck
<1>2. PICK h \in Coros, w \in Packets :
            /\ Sending(h, w) /\ Expects(w)
            /\ bState = "idle" => (w.op = "QUICK_VERIFY_REQUEST" <=> ~setup.full)
            /\ bState = "verified" => txCounter = 1
  BY <1>1, <1>8, RequestOnTheWay
<1>3. /\ Whole(w) \in Values /\ Piece(w) \in Values
      /\ Whole(w).packets[1] = w /\ Piece(w).more
      /\ Joined(<<>>, w) = w /\ Joined(<<w>>, w) = w
  BY Pieces
<1>4. /\ Head(<<Whole(w)>>) = Whole(w) /\ Tail(<<Whole(w)>>) = <<>>
      /\ Head(<<Piece(w)>>) = Piece(w) /\ Head(<<Piece(w), Whole(w)>>) = Piece(w)
  BY <1>3, FewValues
<1>5. uplink = <<Whole(w)>> /\ out[h] = <<>> /\ (bPending = <<>> \/ bPending = <<w>>)
  BY <1>1, <1>2, <1>3, <1>4 DEF Sending, Takes
<1>6. u = w /\ uplink' = <<>>
  BY <1>3, <1>4, <1>5 DEF Takes
<1>7. Quiet'
  BY <1>2, <1>5, <1>6 DEF Takes, Sending, Quiet, sessionVars, coroVars
<1> QED
  BY <1>1, <1>2, <1>6, <1>7

\* An open button takes the next signed packet.
LEMMA TakesSigned ==
  ASSUME TypeOK, UplinkTrue, ButtonOpen, ~Torn, NEW u, Takes(u)
  PROVE  /\ u \in Packets /\ u = uplink[1].packets[1] /\ Expects(u)
         /\ u.op \in {"ACK_BUTTON_EVENTS", "PING_RESPONSE"}
         /\ bRx' = bRx + 1 => InStep'
<1>1. InStep /\ uplink # <<>> /\ uplink \in Seq(Values) /\ bRx \in Nat /\ bKey = "own"
  BY DEF UplinkTrue, Takes, TypeOK, ButtonOpen
<1>2. /\ Len(uplink) \in Nat \ {0} /\ Head(uplink) = uplink[1]
      /\ Len(Tail(uplink)) = Len(uplink) - 1
      /\ \A i \in 1..Len(Tail(uplink)) : Tail(uplink)[i] = uplink[i + 1]
  BY <1>1, HeadTailProperties, EmptySeq
<1>3. uplink[1].packets[1] \in Packets /\ 1 \in 1..Len(uplink)
  <2>1. 1 \in 1..Len(uplink) /\ uplink[1] \in Values
    BY <1>1, <1>2
  <2>2. uplink[1].packets \in Seq(Packets) /\ uplink[1].packets # <<>>
    BY <2>1 DEF Values
  <2> QED
    BY <2>1, <2>2
<1>4. u = uplink[1].packets[1]
  BY <1>1, <1>2 DEF Takes, InStep, Joined
<1>5. /\ u.op \in {"ACK_BUTTON_EVENTS", "PING_RESPONSE"}
      /\ u.conn = OwnConn /\ u.sig = <<"own", bRx + 1 - 1>>
  BY <1>1, <1>3, <1>4 DEF InStep
<1>6. Expects(u)
  <2>1. u.sig = <<bKey, bRx>>
    BY <1>1, <1>5
  <2> QED
    BY <1>5, <2>1 DEF Expects, InSession, ButtonOpen
<1>7. ASSUME bRx' = bRx + 1 PROVE InStep'
  <2>1. UNCHANGED <<out, failed, txCounter>> /\ uplink' = Tail(uplink) /\ bPending' = <<>>
    BY DEF Takes, sessionVars, coroVars
  <2>2. bRx' + Len(uplink') = txCounter' \/ HandlerFailed'
    BY <1>1, <1>2, <1>7, <2>1 DEF InStep, HandlerFailed
  <2>3. ASSUME NEW i \in 1..Len(uplink')
        PROVE  LET w == uplink'[i].packets[1] IN
               /\ ~uplink'[i].more
               /\ w.op \in {"ACK_BUTTON_EVENTS", "PING_RESPONSE"}
               /\ w.conn = OwnConn /\ w.sig = <<"own", bRx' + i - 1>>
    <3>1. i + 1 \in 1..Len(uplink) /\ uplink'[i] = uplink[i + 1] /\ bRx + (i + 1) - 1 = bRx' + i - 1
      BY <1>1, <1>2, <1>7, <2>1
    <3> QED
      BY <1>1, <3>1 DEF InStep
  <2> QED
    BY <1>1, <2>1, <2>2, <2>3 DEF InStep
<1> QED
  BY <1>3, <1>4, <1>5, <1>6, <1>7

(* What the steps of a coroutine keep *)

\* Nothing is sent.
LEMMA NothingSent ==
  ASSUME UplinkTrue,
         UNCHANGED <<setup, broken, uplink, out, failed, txCounter, bState, bKey, bRx, bPending,
                     refused>>
  PROVE  UplinkTrue' /\ (Quiet' <=> Quiet)
<1>1. /\ (Quiet' <=> Quiet) /\ (InStep' <=> InStep) /\ (ButtonOpen' <=> ButtonOpen)
      /\ (Torn' <=> Torn)
  BY DEF Quiet, InStep, ButtonOpen, Torn, HandlerFailed
<1>2. Written' = Written /\ Elements(bPending)' = Elements(bPending)
  BY DEF Written, Elements
<1>3. (Requesting' <=> Requesting) /\ (Stuck' <=> Stuck)
  BY <1>2 DEF Requesting, Sending, Expects, InSession, Long, Stuck
<1> QED
  BY <1>1, <1>3 DEF UplinkTrue

\* The first packet of a GATT value is a packet.
LEMMA ValuePackets ==
  ASSUME NEW v \in Values
  PROVE  /\ v.packets \in Seq(Packets) /\ v.packets # <<>>
         /\ v.packets[1] \in Packets /\ v.packets[1].count \in Nat
<1>1. v.packets \in Seq(Packets) /\ v.packets # <<>>
  BY DEF Values
<1>2. v.packets[1] \in Packets
  BY <1>1
<1> QED
  BY <1>1, <1>2 DEF Packets

\* AcksTrue, over what is on its way instead of where it is.
AcksOf(vs, last) ==
    \A v \in vs : v.packets[1].op = "ACK_BUTTON_EVENTS" => v.packets[1].count <= last
NoAcks(vs) == \A v \in vs : v.packets[1].op # "ACK_BUTTON_EVENTS"

\* AcksTrue, value by value.
LEMMA AcksParts ==
  ASSUME TypeOK
  PROVE  AcksTrue <=> /\ bAcked <= LastDelivered /\ AcksOf(Elements(uplink), LastDelivered)
                      /\ \A h \in Coros : NoAcks(Elements(out[h]))
<1>1. uplink \in Seq(Values)
  BY DEF TypeOK
<1>2. DOMAIN uplink = 1..Len(uplink)
  BY <1>1
<1>3. (\A i \in DOMAIN uplink :
          LET u == uplink[i].packets[1] IN
          u.op = "ACK_BUTTON_EVENTS" => u.count <= LastDelivered)
        <=> AcksOf(Elements(uplink), LastDelivered)
  BY <1>2, Zenon DEF AcksOf, Elements
<1>4. (\A h \in Coros : \A i \in 1..Len(out[h]) :
          out[h][i].packets[1].op # "ACK_BUTTON_EVENTS")
        <=> \A h \in Coros : NoAcks(Elements(out[h]))
  BY Zenon DEF NoAcks, Elements
<1> QED
  BY <1>3, <1>4 DEF AcksTrue, AckedWereDelivered

\* AcksTrue, value by value, after a step.
LEMMA AcksPartsNext ==
  ASSUME TypeOK'
  PROVE  AcksTrue' <=> /\ bAcked' <= LastDelivered' /\ AcksOf(Elements(uplink'), LastDelivered')
                       /\ \A h \in Coros : NoAcks(Elements(out'[h]))
<1>1. uplink' \in Seq(Values)
  BY DEF TypeOK
<1>2. DOMAIN uplink' = 1..Len(uplink')
  BY <1>1
<1>3. (\A i \in DOMAIN uplink' :
          LET u == uplink'[i].packets[1] IN
          u.op = "ACK_BUTTON_EVENTS" => u.count <= LastDelivered')
        <=> AcksOf(Elements(uplink'), LastDelivered')
  BY <1>2, Zenon DEF AcksOf, Elements
<1>4. (\A h \in Coros : \A i \in 1..Len(out'[h]) :
          out'[h][i].packets[1].op # "ACK_BUTTON_EVENTS")
        <=> \A h \in Coros : NoAcks(Elements(out'[h]))
  BY Zenon DEF NoAcks, Elements
<1> QED
  BY <1>3, <1>4 DEF AcksTrue, AckedWereDelivered

\* The last count delivered is a number, 0 before the first event.
LEMMA LastDeliveredType ==
  /\ TypeOK => LastDelivered \in Nat
  /\ TypeOK' => LastDelivered' \in Nat
<1>1. \A s \in Seq(Nat) : s # <<>> => s[Len(s)] \in Nat
  OBVIOUS
<1> QED
  BY <1>1 DEF TypeOK, LastDelivered

\* An acknowledgement of a delivered event stays one when more is delivered.
LEMMA AcksLater ==
  ASSUME TypeOK, NEW a \in Nat, NEW b \in Nat, a <= b, AcksOf(Elements(uplink), a)
  PROVE  AcksOf(Elements(uplink), b)
<1> SUFFICES ASSUME NEW v \in Elements(uplink), v.packets[1].op = "ACK_BUTTON_EVENTS"
             PROVE  v.packets[1].count <= b
  BY DEF AcksOf
<1>1. v.packets[1].count \in Nat
  BY ElementsOf, ValuePackets DEF TypeOK
<1> QED
  BY <1>1 DEF AcksOf

\* Later acknowledgements are still on their way for delivered events.
LEMMA NothingAcked ==
  ASSUME TypeOK, TypeOK', AcksTrue, LastDelivered' >= LastDelivered,
         UNCHANGED <<uplink, out, bAcked>>
  PROVE  AcksTrue'
<1>1. AcksOf(Elements(uplink), LastDelivered') /\ bAcked <= LastDelivered'
  <2>1. LastDelivered \in Nat /\ LastDelivered' \in Nat /\ LastDelivered <= LastDelivered'
        /\ bAcked \in Nat
    BY LastDeliveredType DEF TypeOK
  <2>2. AcksOf(Elements(uplink), LastDelivered) /\ bAcked <= LastDelivered
    BY AcksParts
  <2> QED
    BY <2>1, <2>2, AcksLater
<1> QED
  BY <1>1, AcksParts, AcksPartsNext

\* Packet p is sent: it is an acknowledgement of what was delivered, or none.
LEMMA AcksSent ==
  ASSUME TypeOK, TypeOK', AcksTrue, NEW h \in Coros, NEW p \in Packets, Send(h, p),
         UNCHANGED bAcked, LastDelivered' >= LastDelivered,
         p.op = "ACK_BUTTON_EVENTS" => p.count <= LastDelivered'
  PROVE  AcksTrue'
<1>1. /\ Head(Fragments(p)) \in Values /\ Head(Fragments(p)).packets[1] = p
      /\ Elements(Tail(Fragments(p))) \subseteq {Whole(p)}
      /\ Elements(Tail(Fragments(p))) # {} => Long(p.op)
      /\ Whole(p).packets[1] = p
  <2>1. Whole(p) \in Values /\ Piece(p) \in Values /\ Whole(p).packets[1] = p /\ Piece(p).packets[1] = p
    BY Pieces
  <2>2. CASE Long(p.op)
    <3>1. Head(Fragments(p)) = Piece(p) /\ Tail(Fragments(p)) = <<Whole(p)>>
      BY <2>2, FragmentsOf
    <3> QED
      BY <2>1, <2>2, <3>1, ElementsOfFew
  <2>3. CASE ~Long(p.op)
    <3>1. Head(Fragments(p)) = Whole(p) /\ Tail(Fragments(p)) = <<>>
      BY <2>3, FragmentsOf
    <3> QED
      BY <2>1, <2>3, <3>1, ElementsOfFew
  <2> QED
    BY <2>2, <2>3
<1>2. /\ uplink' = uplink \/ uplink' = Append(uplink, Head(Fragments(p)))
      /\ \A g \in Coros : out'[g] = out[g] \/ out'[g] = Tail(Fragments(p)) \/ out'[g] = <<>>
  BY DEF Send, Write, TypeOK
<1>3. Elements(uplink') \subseteq Elements(uplink) \cup {Head(Fragments(p))}
  <2>1. uplink \in Seq(Values) /\ Head(Fragments(p)) \in Values
    BY <1>1 DEF TypeOK
  <2>2. Elements(Append(uplink, Head(Fragments(p)))) = Elements(uplink) \cup {Head(Fragments(p))}
    BY <2>1, ElementsAdded
  <2> QED
    BY <1>2, <2>2
<1>4. AcksOf(Elements(uplink), LastDelivered') /\ bAcked' <= LastDelivered'
  <2>1. LastDelivered \in Nat /\ LastDelivered' \in Nat /\ LastDelivered <= LastDelivered'
        /\ bAcked \in Nat
    BY LastDeliveredType DEF TypeOK
  <2>2. AcksOf(Elements(uplink), LastDelivered) /\ bAcked <= LastDelivered
    BY AcksParts
  <2> QED
    BY <2>1, <2>2, AcksLater
<1>5. AcksOf(Elements(uplink'), LastDelivered')
  BY <1>1, <1>3, <1>4 DEF AcksOf
<1>6. ASSUME NEW g \in Coros PROVE NoAcks(Elements(out'[g]))
  <2>1. Long(p.op) => p.op # "ACK_BUTTON_EVENTS"
    BY DEF Long
  <2>2. NoAcks(Elements(out[g]))
    BY AcksParts
  <2>3. NoAcks(Elements(Tail(Fragments(p)))) /\ NoAcks(Elements(<<>>))
    BY <1>1, <2>1, ElementsOfFew DEF NoAcks
  <2> QED
    BY <1>2, <2>2, <2>3
<1> QED
  BY <1>4, <1>5, <1>6, AcksPartsNext

\* A request the button expects is sent when no other is on its way.
LEMMA RequestSent ==
  ASSUME TypeOK, TypeOK', UplinkTrue, ~ButtonOpen, broken \/ Quiet,
         NEW h \in Coros, NEW u \in Packets, Send(h, u), Expects(u),
         bState = "idle" => (u.op = "QUICK_VERIFY_REQUEST" <=> ~setup.full),
         bState = "verified" => txCounter' = 1,
         UNCHANGED <<setup, broken, bState, bKey, bRx, bPending, refused>>
  PROVE  UplinkTrue'
<1>1. ~ButtonOpen' /\ ~refused' /\ bRx' = 0
      /\ bKey' = (IF bState' = "idle" THEN NoKey ELSE "own")
  BY DEF UplinkTrue, ButtonOpen
<1>2. ASSUME Quiet PROVE Quiet' \/ Requesting'
  <2>1. Quiet' \/ (Sending(h, u)' /\ u \in Written')
    BY <1>2, SendFirst
  <2>2. Expects(u)'
    BY DEF Expects, InSession
  <2> QED
    BY <2>1, <2>2 DEF Requesting
<1> QED
  BY <1>1, <1>2 DEF UplinkTrue

\* A handler does not run while another one that had a write that raises holds
\* the lock.
LEMMA LockedNotFailed ==
  ASSUME TypeOK, WritesTrue, current \in Handlers, state # "FAILED", setup.lock
  PROVE  ~HandlerFailed
<1> SUFFICES ASSUME NEW g \in failed \cap Handlers PROVE FALSE
  BY DEF HandlerFailed
<1>1. g \in writing /\ g \in Handlers
  BY DEF WritesTrue
<1>2. packets[current] # <<>> /\ current \notin writing
  BY CoroAssumption DEF TypeOK, Coros
<1>3. ~Idle(g) /\ ~Idle(current) /\ g # current
  BY <1>1, <1>2 DEF Idle
<1> QED
  BY <1>1, <1>3 DEF WritesTrue, Serialized

\* A signed reply is sent behind those that are on their way.
LEMMA ReplySent ==
  ASSUME TypeOK, TypeOK', UplinkTrue, ButtonOpen,
         NEW h \in Handlers, NEW u \in Packets, Send(h, u), setup.lock => ~HandlerFailed,
         u.op \in {"ACK_BUTTON_EVENTS", "PING_RESPONSE"}, u.conn = OwnConn,
         u.sig = <<"own", txCounter>>, txCounter' = txCounter + 1,
         UNCHANGED <<setup, broken, bState, bKey, bRx, bPending, refused>>
  PROVE  UplinkTrue'
<1>1. ButtonOpen' /\ bKey' = (IF bState' = "idle" THEN NoKey ELSE "own") /\ (refused' => Torn)
  BY DEF UplinkTrue, ButtonOpen
<1>0. h \in Coros
  BY DEF Coros
<1>3. failed \subseteq failed' /\ (Torn => Torn')
  BY DEF Send, Write, Torn, HandlerFailed
\* The reply does not go out.
<1>4. ASSUME InStep, uplink' = uplink, failed' = failed \cup {h}, out' = [out EXCEPT ![h] = <<>>]
      PROVE  InStep'
  <2>1. HandlerFailed' /\ \A g \in Coros : out'[g] = <<>>
    BY <1>0, <1>4 DEF HandlerFailed, InStep, TypeOK
  <2> QED
    BY <1>4, <2>1 DEF InStep
\* It goes out, and no handler had a write that raises.
<1>2. ASSUME InStep, ~HandlerFailed, UNCHANGED failed,
             uplink' = Append(uplink, Head(Fragments(u))),
             out' = [out EXCEPT ![h] = Tail(Fragments(u))]
      PROVE  InStep'
  <2>1. ~Long(u.op)
    BY DEF Long
  <2>2. /\ uplink' = Append(uplink, Whole(u)) /\ \A g \in Coros : out'[g] = <<>>
        /\ uplink \in Seq(Values) /\ Whole(u) \in Values
    BY <1>0, <1>2, <2>1, FragmentsOf, Pieces DEF InStep, TypeOK
  <2>3. /\ Len(uplink) \in Nat /\ Len(uplink') = Len(uplink) + 1
        /\ \A i \in 1..Len(uplink) : uplink'[i] = uplink[i]
        /\ uplink'[Len(uplink) + 1] = Whole(u)
    BY <2>2, AppendProperties, LenProperties
  <2>4. bRx \in Nat /\ txCounter \in Nat /\ bRx + Len(uplink) = txCounter
    BY <1>2 DEF TypeOK, InStep
  <2>5. bRx' + Len(uplink') = txCounter'
    BY <2>3, <2>4
  <2>6. ASSUME NEW i \in 1..Len(uplink')
        PROVE  LET w == uplink'[i].packets[1] IN
               /\ ~uplink'[i].more
               /\ w.op \in {"ACK_BUTTON_EVENTS", "PING_RESPONSE"}
               /\ w.conn = OwnConn /\ w.sig = <<"own", bRx' + i - 1>>
    <3>1. CASE i \in 1..Len(uplink)
      BY <1>2, <2>3, <3>1 DEF InStep
    <3>2. CASE i = Len(uplink) + 1
      <4>1. /\ uplink'[i] = Whole(u) /\ Whole(u).packets[1] = u /\ ~Whole(u).more
        BY <2>3, <3>2, Pieces
      <4>2. bRx' + i - 1 = txCounter
        BY <2>3, <2>4, <3>2
      <4> QED
        BY <4>1, <4>2
    <3> QED
      BY <2>3, <3>1, <3>2
  <2> QED
    BY <1>2, <2>2, <2>5, <2>6 DEF InStep
<1>5. broken \/ Torn \/ (InStep /\ (HandlerFailed => ~setup.lock))
  BY DEF UplinkTrue
<1>6. broken' \/ Torn' \/ InStep'
  BY <1>2, <1>3, <1>4, <1>5 DEF Send, Write, Torn
<1> QED
  BY <1>1, <1>3, <1>6 DEF UplinkTrue

-----------------------------------------------------------------------------
(* The handlers of a packet *)

\* A failure is recorded.
LEMMA FailedState ==
  ASSUME TypeOK, StateTrue, NEW h, NEW err \in Errors, Raise(h, err),
         UNCHANGED <<setup, started, pairing, txCounter, broken, bState, bPending>>,
         sessionKey' = sessionKey \/ ~setup.full
  PROVE  StateTrue'
<1>1. state' = "FAILED" /\ failure' # NoFailure /\ (Quiet' <=> Quiet)
  BY DEF Raise, Fail, Quiet, Errors, NoFailure
<1> QED
  BY <1>1 DEF StateTrue, ButtonVerified

\* Nothing is decided.
LEMMA SameState ==
  ASSUME StateTrue,
         UNCHANGED <<setup, started, state, ready, failure, pairing, connId, sessionKey, txCounter,
                     broken, uplink, out, bState, bPending>>
  PROVE  StateTrue'
<1>1. Quiet' <=> Quiet
  BY DEF Quiet
<1> QED
  BY <1>1 DEF StateTrue, ButtonVerified, ButtonOpen, Answered

\* What every handler does.
LEMMA HandlerKeeps ==
  ASSUME TypeOK, NEW p, HandlePacket(current, p)
  PROVE  /\ UNCHANGED <<setup, started, pendingFragment, downlink, broken,
                        bState, bKey, bTx, bRx, bCount, bAcked, bPending,
                     refused>>
         /\ rxCounter' \in {rxCounter, rxCounter + 1}
         /\ \/ packets' = [packets EXCEPT ![current] = Tail(@)]
            \/ packets' = [packets EXCEPT ![current] = <<>>]
<1> USE DEF HandlerFrame, stateVars, authVars, buttonVars, Verified
<1>1. UNCHANGED <<setup, started, pendingFragment, downlink, broken, buttonVars>>
  BY DEF HandlePacket, Ignored, NoSlots, HandleFullVerify1, PairingRejected, HandleFullVerify2,
         QuickVerifyNegative, HandleQuickVerify, VerifyFails, InitResponse, ButtonEvents, Ping,
         OtherPacket, DisconnectLink
<1>2. rxCounter' \in {rxCounter, rxCounter + 1}
  BY DEF HandlePacket, Ignored, NoSlots, HandleFullVerify1, PairingRejected, HandleFullVerify2,
         QuickVerifyNegative, HandleQuickVerify, VerifyFails, InitResponse, ButtonEvents, Ping,
         OtherPacket, DisconnectLink
<1>3. \/ packets' = [packets EXCEPT ![current] = Tail(@)]
      \/ packets' = [packets EXCEPT ![current] = <<>>]
  BY DEF HandlePacket, Ignored, NoSlots, HandleFullVerify1, PairingRejected, HandleFullVerify2,
         QuickVerifyNegative, HandleQuickVerify, VerifyFails, InitResponse, ButtonEvents, Ping,
         OtherPacket, DisconnectLink, Return, Raise, Fail, Reply, ReplySigned, SendInit
<1> QED
  BY <1>1, <1>2, <1>3

\* A handler that sends nothing and delivers nothing.
LEMMA SilentHandler ==
  ASSUME TypeOK, TypeOK', IInv,
         UNCHANGED <<setup, broken, bState, bKey, bRx, bAcked, bPending, refused, uplink, out,
                     failed, txCounter, delivered>>
  PROVE  UplinkTrue' /\ AcksTrue'
<1>1. LastDelivered' = LastDelivered /\ LastDelivered \in Nat
  BY LastDeliveredType DEF LastDelivered
<1> QED
  BY <1>1, NothingSent, NothingAcked DEF IInv

\* A handler of the handshake that sends the next request.
LEMMA RequestingHandler ==
  ASSUME TypeOK, TypeOK', IInv, ~ButtonOpen, Answered, current \in Handlers,
         NEW u \in Packets, Send(current, u), u.op # "ACK_BUTTON_EVENTS",
         \/ bState = "offered" /\ u.op = "FULL_VERIFY_REQUEST_2"
         \/ /\ bState = "verified" /\ u.op = "INIT_BUTTON_EVENTS"
            /\ u.sig = <<"own", 0>> /\ u.conn = OwnConn /\ txCounter' = 1,
         UNCHANGED <<setup, broken, bState, bKey, bRx, bAcked, bPending, refused, delivered>>
  PROVE  UplinkTrue' /\ AcksTrue'
<1>1. LastDelivered' = LastDelivered /\ LastDelivered \in Nat /\ current \in Coros
  BY LastDeliveredType DEF LastDelivered, Coros
<1>2. Expects(u)
  BY DEF Expects, InSession, IInv, UplinkTrue
<1>3. UplinkTrue'
  BY <1>1, <1>2, RequestSent DEF IInv, Answered
<1>4. AcksTrue'
  BY <1>1, AcksSent DEF IInv
<1> QED
  BY <1>3, <1>4

\* The button has signed the last packet of the handshake: the session is
\* established and its first signed packet is sent.
LEMMA EstablishingHandler ==
  ASSUME TypeOK, TypeOK', IInv, current \in Handlers, NEW p \in Packets, PacketTrue(p),
         OwnSigned(p), ~Malformed(p), state \in {"WAIT_FULL_VERIFY_2", "WAIT_QUICK_VERIFY"},
         Establish, pairing' = TRUE, connId' = OwnConn, sessionKey' = "own",
         SendInit(current, OwnConn, "own"),
         UNCHANGED <<setup, started, broken, bState, bKey, bRx, bAcked, bPending, refused, delivered>>
  PROVE  UplinkTrue' /\ StateTrue' /\ AcksTrue'
<1> DEFINE init == [Plain EXCEPT !.op = "INIT_BUTTON_EVENTS", !.conn = OwnConn, !.count = eventCount]
           u == [init EXCEPT !.sig = <<"own", txCounter>>]
<1>1. /\ bState = "verified" /\ Answered /\ txCounter = 0 /\ started
      /\ ~(ready /\ failure = NoFailure)
  BY DEF IInv, StateTrue, PacketTrue, ButtonVerified
<1>2. u \in Packets /\ u.op = "INIT_BUTTON_EVENTS" /\ u.conn = OwnConn /\ u.sig = <<"own", txCounter>>
  <2>1. init \in Packets /\ init.op = "INIT_BUTTON_EVENTS" /\ init.conn = OwnConn
    BY PlainPacket DEF Packets, Opcodes, OwnConn, TypeOK
  <2> HIDE DEF init
  <2>2. "own" \in Keys /\ txCounter \in Nat
    BY <1>1 DEF Keys
  <2>3. u \in Packets
    BY <2>1, <2>2, FieldTypes
  <2>4. u.op = init.op /\ u.conn = init.conn /\ u.sig = <<"own", txCounter>>
    BY <2>1 DEF Packets
  <2> QED
    BY <2>1, <2>3, <2>4
<1>3. Send(current, u) /\ txCounter' = 1
  BY <1>1 DEF SendInit, ReplySigned, Reply
<1> HIDE DEF u
<1>4. UplinkTrue' /\ AcksTrue'
  BY <1>1, <1>2, <1>3, RequestingHandler DEF ButtonOpen
<1>5. StateTrue'
  <2>1. state' = "ESTABLISHED" /\ UNCHANGED <<ready, failure>>
    BY DEF Establish
  <2> QED
    BY <1>1, <2>1 DEF StateTrue, ButtonVerified
<1> QED
  BY <1>4, <1>5

\* The handlers of the handshake keep the invariant.
LEMMA HandshakeSafe ==
  ASSUME TypeOK, TypeOK', IInv, current \in Handlers, NEW p \in Arriving, HandlePacket(current, p),
         \/ Ignored(current, p) \/ NoSlots(current, p) \/ HandleFullVerify1(current, p)
         \/ PairingRejected(current, p) \/ HandleFullVerify2(current, p)
         \/ QuickVerifyNegative(current, p) \/ HandleQuickVerify(current, p)
  PROVE  UplinkTrue' /\ StateTrue' /\ AcksTrue' /\ UNCHANGED delivered
<1> DEFINE h == current
<1> USE DEF stateVars, authVars, eventVars
<1>0. /\ UNCHANGED <<setup, started, broken, bState, bKey, bRx, bAcked, bPending, refused>>
      /\ p \in Packets /\ PacketTrue(p) /\ UplinkTrue /\ StateTrue
      /\ {"PairingError", "AuthenticationError"} \subseteq Errors
  BY HandlerKeeps, ArrivingPackets DEF IInv, PacketsTrue, Errors
\* A handler that raises, returns or sends.
<1>1. ASSUME UNCHANGED <<uplink, out, failed, txCounter, delivered>>, StateTrue'
      PROVE  UplinkTrue' /\ StateTrue' /\ AcksTrue' /\ UNCHANGED delivered
  BY <1>0, <1>1, SilentHandler
<1>2. ASSUME NEW err \in Errors, Raise(h, err), UNCHANGED <<pairing, txCounter, delivered>>,
             sessionKey' = sessionKey \/ ~setup.full
      PROVE  UplinkTrue' /\ StateTrue' /\ AcksTrue' /\ UNCHANGED delivered
  BY <1>0, <1>1, <1>2, FailedState DEF Raise
<1>3. ASSUME Return(h), UNCHANGED <<stateVars, connId, sessionKey, txCounter, delivered>>
      PROVE  UplinkTrue' /\ StateTrue' /\ AcksTrue' /\ UNCHANGED delivered
  BY <1>0, <1>1, <1>3, SameState DEF Return
<1>4. CASE Ignored(h, p)
  BY <1>3, <1>4 DEF Ignored
<1>5. CASE NoSlots(h, p)
  BY <1>2, <1>5 DEF NoSlots, Errors
<1>6. CASE HandleFullVerify1(h, p)
  <2>1. CASE \E err \in Errors : Raise(h, err) /\ UNCHANGED authVars
    BY <1>2, <1>6, <2>1 DEF HandleFullVerify1
  <2>2. CASE Return(h) /\ UNCHANGED <<stateVars, authVars>>
    BY <1>3, <1>6, <2>2 DEF HandleFullVerify1
  <2>3. CASE /\ p.new /\ p.tmp = "own" /\ p.fault = "none"
             /\ connId' = p.conn /\ sessionKey' = DerivedKey(p)
             /\ state' = "WAIT_FULL_VERIFY_2"
             /\ Reply(h, [Plain EXCEPT !.op = "FULL_VERIFY_REQUEST_2", !.conn = p.conn])
             /\ UNCHANGED <<rxCounter, ready, pairingComplete, failure>>
    <3> DEFINE u == [Plain EXCEPT !.op = "FULL_VERIFY_REQUEST_2", !.conn = p.conn]
    <3>1. u \in Packets /\ u.op = "FULL_VERIFY_REQUEST_2"
      BY PlainPacket, <1>0 DEF Packets, Opcodes
    <3>2. Send(h, u)
      BY <2>3 DEF Reply
    <3> HIDE DEF u
    <3>3. Offer(p) /\ state = "WAIT_FULL_VERIFY_1"
      BY <1>6, <2>3 DEF HandleFullVerify1, Offer
    <3>4. bState = "offered" /\ Answered /\ p.conn = OwnConn
      BY <1>0, <3>3 DEF PacketTrue, StateTrue
    <3>5. UNCHANGED <<pairing, txCounter, delivered>>
      BY <1>6 DEF HandleFullVerify1
    <3>6. UplinkTrue' /\ AcksTrue'
      BY <1>0, <3>1, <3>2, <3>4, <3>5, RequestingHandler DEF ButtonOpen
    <3>7. StateTrue'
      <4>1. started /\ txCounter = 0 /\ setup.full /\ ~pairing
        BY <1>0, <3>3 DEF StateTrue
      <4>2. sessionKey' = "own" /\ connId' = OwnConn
        BY <2>3, <3>4 DEF DerivedKey
      <4>3. ~(ready /\ failure = NoFailure)
        BY <1>0, <3>3 DEF StateTrue
      <4> QED
        BY <1>0, <2>3, <3>4, <3>5, <4>1, <4>2, <4>3 DEF StateTrue
    <3> QED
      BY <3>5, <3>6, <3>7
  <2> QED
    BY <1>0, <1>6, <2>1, <2>2, <2>3 DEF HandleFullVerify1, Errors
<1>7. CASE PairingRejected(h, p)
  BY <1>2, <1>7 DEF PairingRejected, Errors
<1>8. CASE HandleFullVerify2(h, p)
  <2>0. sessionKey = "own" /\ connId = OwnConn /\ UNCHANGED <<started, connId, sessionKey, delivered>>
    BY <1>0, <1>8 DEF HandleFullVerify2, StateTrue
  <2>1. CASE (\E err \in Errors : Raise(h, err)) /\ UNCHANGED <<pairing, txCounter>>
    BY <1>2, <2>0, <2>1
  <2>2. CASE Return(h) /\ UNCHANGED <<stateVars, rxCounter, txCounter>>
    BY <1>3, <2>0, <2>2
  <2>3. CASE /\ p.conn = connId /\ Genuine(p) /\ p.fault = "none"
             /\ pairing' = TRUE /\ Establish /\ SendInit(h, connId, sessionKey)
    <3>1. OwnSigned(p) /\ ~Malformed(p)
      BY <2>0, <2>3 DEF Genuine, OwnSigned, NoSig, Malformed
    <3> QED
      BY <1>0, <1>8, <2>0, <2>3, <3>1, EstablishingHandler DEF HandleFullVerify2
  <2> QED
    BY <1>0, <1>8, <2>1, <2>2, <2>3 DEF HandleFullVerify2
<1>9. CASE QuickVerifyNegative(h, p)
  BY <1>2, <1>9 DEF QuickVerifyNegative, Errors
<1>10. CASE HandleQuickVerify(h, p)
  <2>0. ~setup.full /\ pairing /\ UNCHANGED <<started, pairing, delivered>>
    BY <1>0, <1>10 DEF HandleQuickVerify, StateTrue
  <2>1. CASE Raise(h, "AuthenticationError") /\ UNCHANGED txCounter
    BY <1>0, <1>2, <2>0, <2>1
  <2>2. CASE Return(h) /\ UNCHANGED <<stateVars, authVars, txCounter>>
    BY <1>3, <2>0, <2>2
  <2>3. CASE /\ p.tmp = "own" /\ sessionKey' = DerivedKey(p) /\ connId' = p.conn
             /\ p.sig = <<DerivedKey(p), rxCounter>>
             /\ Establish /\ SendInit(h, p.conn, DerivedKey(p))
    <3>1. DerivedKey(p) = "own" /\ p.op = "QUICK_VERIFY_RESPONSE"
      BY <1>10, <2>3 DEF DerivedKey, HandleQuickVerify
    <3>2. OwnSigned(p) /\ ~Malformed(p)
      BY <2>3, <3>1 DEF OwnSigned, NoSig, Malformed
    <3>3. p.conn = OwnConn
      BY <1>0, <3>2 DEF PacketTrue
    <3> QED
      BY <1>0, <1>10, <2>0, <2>3, <3>1, <3>2, <3>3, EstablishingHandler DEF HandleQuickVerify
  <2> QED
    BY <1>10, <2>1, <2>2, <2>3 DEF HandleQuickVerify
<1> QED
  BY <1>4, <1>5, <1>6, <1>7, <1>8, <1>9, <1>10

\* The handlers of an established session keep the invariant.
LEMMA EstablishedSafe ==
  ASSUME TypeOK, TypeOK', IInv, current \in Handlers, NEW p \in Arriving, HandlePacket(current, p),
         \/ VerifyFails(current, p) \/ InitResponse(current, p) \/ ButtonEvents(current, p)
         \/ Ping(current, p) \/ OtherPacket(current, p) \/ DisconnectLink(current, p)
  PROVE  /\ UplinkTrue' /\ StateTrue' /\ AcksTrue'
         /\ \/ UNCHANGED delivered
            \/ /\ GenuineEvent(p) /\ p.sig[2] = rxCounter /\ rxCounter' = rxCounter + 1
               /\ delivered' = Append(delivered, p.count)
<1> DEFINE h == current
<1> USE DEF stateVars, authVars, eventVars
<1>0. /\ UNCHANGED <<setup, started, broken, bState, bKey, bRx, bAcked, bPending, refused>>
      /\ p \in Packets /\ PacketTrue(p) /\ UplinkTrue /\ StateTrue
      /\ {"FlicProtocolError", "AuthenticationError"} \subseteq Errors
      /\ h \in Coros
  BY HandlerKeeps, ArrivingPackets DEF IInv, PacketsTrue, Errors, Coros
<1>1. ASSUME UNCHANGED <<uplink, out, failed, txCounter, delivered>>, StateTrue'
      PROVE  UplinkTrue' /\ StateTrue' /\ AcksTrue' /\ UNCHANGED delivered
  BY <1>0, <1>1, SilentHandler
<1>2. ASSUME NEW err \in Errors, Raise(h, err), UNCHANGED <<pairing, sessionKey, txCounter, delivered>>
      PROVE  UplinkTrue' /\ StateTrue' /\ AcksTrue' /\ UNCHANGED delivered
  BY <1>0, <1>1, <1>2, FailedState DEF Raise
<1>3. ASSUME Return(h), UNCHANGED <<stateVars, connId, sessionKey, txCounter, delivered>>
      PROVE  UplinkTrue' /\ StateTrue' /\ AcksTrue' /\ UNCHANGED delivered
  BY <1>0, <1>1, <1>3, SameState DEF Return
\* A packet that verifies comes from the button.
<1>4. ASSUME NEW ops, Verified(p, ops)
      PROVE  /\ OwnSigned(p) /\ p.sig[2] = rxCounter /\ p.conn = OwnConn /\ connId = OwnConn
             /\ rxCounter' = rxCounter + 1 /\ sessionKey = "own"
             /\ state = "ESTABLISHED" /\ started
             /\ UNCHANGED <<pairing, connId, sessionKey>>
  BY <1>0, <1>4 DEF Verified, ForSession, Genuine, StateTrue, OwnSigned, NoSig
<1>5. CASE VerifyFails(h, p)
  BY <1>0, <1>2, <1>5 DEF VerifyFails
<1>6. CASE InitResponse(h, p)
  <2>1. UNCHANGED <<pairing, connId, sessionKey, txCounter, delivered>>
    BY <1>4, <1>6 DEF InitResponse
  <2>2. CASE Raise(h, "FlicProtocolError")
    BY <1>0, <1>2, <2>1, <2>2
  <2>3. CASE p.fault = "none" /\ ready' = TRUE /\ Return(h) /\ UNCHANGED <<state, pairingComplete, failure>>
    <3>1. p.op = "INIT_RESPONSE" /\ OwnSigned(p) /\ p.conn = OwnConn /\ state = "ESTABLISHED" /\ started
      BY <1>4, <1>6 DEF InitResponse, Verified
    <3>2. ButtonOpen
      BY <1>0, <2>3, <3>1 DEF PacketTrue, Malformed
    <3>3. Quiet' <=> Quiet
      BY <1>0, <2>3 DEF Quiet, Return
    <3>4. StateTrue'
      BY <1>0, <2>1, <2>3, <3>1, <3>2, <3>3 DEF StateTrue, ButtonVerified, ButtonOpen
    <3> QED
      BY <1>1, <2>1, <2>3, <3>4 DEF Return
  <2> QED
    BY <1>6, <2>2, <2>3 DEF InitResponse
\* A signed reply.
<1>7. ASSUME NEW u \in Packets, u.op \in {"ACK_BUTTON_EVENTS", "PING_RESPONSE"}, u.conn = OwnConn,
             ReplySigned(h, u, "own"), UNCHANGED <<stateVars, connId, sessionKey>>,
             state = "ESTABLISHED", ButtonOpen, LastDelivered' >= LastDelivered,
             u.op = "ACK_BUTTON_EVENTS" => u.count <= LastDelivered'
      PROVE  UplinkTrue' /\ StateTrue' /\ AcksTrue'
  <2> DEFINE w == [u EXCEPT !.sig = <<"own", txCounter>>]
  <2>1. w \in Packets /\ w.op = u.op /\ w.conn = u.conn /\ w.count = u.count /\ w.sig = <<"own", txCounter>>
    <3>1. "own" \in Keys /\ txCounter \in Nat
      BY DEF Keys, TypeOK
    <3>2. w \in Packets
      BY <3>1, FieldTypes
    <3> QED
      BY <3>2 DEF Packets
  <2>2. Send(h, w) /\ txCounter' = txCounter + 1
    BY <1>7 DEF ReplySigned, Reply
  <2> HIDE DEF w
  <2>3. UplinkTrue'
    <3>1. setup.lock => ~HandlerFailed
      BY <1>7, LockedNotFailed DEF IInv
    <3> QED
      BY <1>0, <1>7, <2>1, <2>2, <3>1, ReplySent
  <2>4. AcksTrue'
    BY <1>0, <1>7, <2>1, <2>2, AcksSent DEF IInv
  <2>5. StateTrue'
    <3>1. state' = "ESTABLISHED" /\ ButtonOpen' /\ ButtonVerified' /\ started
      BY <1>0, <1>7 DEF StateTrue, ButtonOpen, ButtonVerified
    <3> QED
      BY <1>0, <1>7, <3>1 DEF StateTrue
  <2> QED
    BY <2>3, <2>4, <2>5
<1>8. CASE ButtonEvents(h, p)
  <2>0. /\ OwnSigned(p) /\ p.sig[2] = rxCounter /\ p.conn = OwnConn /\ connId = OwnConn
        /\ rxCounter' = rxCounter + 1 /\ sessionKey = "own" /\ p.op = "BUTTON_EVENT"
        /\ state = "ESTABLISHED" /\ UNCHANGED <<pairing, connId, sessionKey>>
    BY <1>4, <1>8 DEF ButtonEvents, Verified
  <2>1. CASE Raise(h, "FlicProtocolError") /\ UNCHANGED <<eventVars, txCounter>>
    BY <1>0, <1>2, <2>0, <2>1
  <2>2. CASE Return(h) /\ UNCHANGED <<stateVars, eventVars, txCounter>>
    BY <1>3, <2>0, <2>2
  <2>3. CASE p.fault = "none" /\ Deliver(p) /\ UNCHANGED stateVars
    <3>1. GenuineEvent(p) /\ ButtonOpen
      BY <1>0, <2>0, <2>3 DEF GenuineEvent, PacketTrue, Malformed
    <3>2. delivered' = Append(delivered, p.count) /\ p.count \in Nat /\ delivered \in Seq(Nat)
      BY <1>0, <2>3 DEF Deliver, Packets, TypeOK
    <3>3. LastDelivered' = p.count
      BY <3>2, AppendProperties, EmptySeq DEF LastDelivered
    <3>4. LastDelivered <= p.count
      <4>1. p.count > LastDelivered
        <5>1. p.sig[2] >= rxCounter
          BY <2>0 DEF TypeOK
        <5> QED
          BY <3>1, <5>1 DEF IInv, EventsAscend
      <4> QED
        BY <3>2, <4>1, LastDeliveredType
    <3>5. CASE Return(h) /\ UNCHANGED txCounter
      <4>1. StateTrue'
        BY <1>0, <2>0, <2>3, <3>5, SameState DEF Return
      <4>2. UplinkTrue'
        BY <1>0, <3>5, NothingSent DEF Return
      <4>3. AcksTrue'
        BY <1>0, <3>3, <3>4, <3>5, NothingAcked DEF Return, IInv
      <4> QED
        BY <2>0, <3>1, <3>2, <4>1, <4>2, <4>3
    <3>6. CASE ReplySigned(h, [Plain EXCEPT !.op = "ACK_BUTTON_EVENTS", !.conn = connId,
                                            !.count = p.count], sessionKey)
      <4> DEFINE u == [Plain EXCEPT !.op = "ACK_BUTTON_EVENTS", !.conn = connId, !.count = p.count]
      <4>1. u \in Packets /\ u.op = "ACK_BUTTON_EVENTS" /\ u.conn = OwnConn /\ u.count = p.count
        BY PlainPacket, <2>0, <3>2 DEF Packets, Opcodes, OwnConn
      <4>2. ReplySigned(h, u, "own")
        BY <2>0, <3>6
      <4> HIDE DEF u
      <4>3. UplinkTrue' /\ StateTrue' /\ AcksTrue'
        BY <1>7, <2>0, <2>3, <3>1, <3>2, <3>3, <3>4, <4>1, <4>2
      <4> QED
        BY <2>0, <3>1, <3>2, <4>3
    <3> QED
      BY <1>8, <2>3, <3>5, <3>6 DEF ButtonEvents, Deliver
  <2> QED
    BY <1>8, <2>1, <2>2, <2>3 DEF ButtonEvents
<1>9. CASE Ping(h, p)
  <2>0. /\ OwnSigned(p) /\ connId = OwnConn /\ sessionKey = "own" /\ p.op = "PING_REQUEST"
        /\ state = "ESTABLISHED" /\ UNCHANGED <<pairing, connId, sessionKey>>
    BY <1>4, <1>9 DEF Ping, Verified
  <2>1. ButtonOpen
    BY <1>0, <2>0 DEF PacketTrue, Malformed
  <2> DEFINE u == [Plain EXCEPT !.op = "PING_RESPONSE", !.conn = connId]
  <2>2. u \in Packets /\ u.op = "PING_RESPONSE" /\ u.conn = OwnConn
    BY PlainPacket, <2>0 DEF Packets, Opcodes, OwnConn
  <2>3. ReplySigned(h, u, "own") /\ UNCHANGED <<stateVars, delivered>>
    BY <1>9, <2>0 DEF Ping
  <2> HIDE DEF u
  <2>4. LastDelivered' >= LastDelivered
    BY <2>3, LastDeliveredType DEF LastDelivered
  <2> QED
    BY <1>7, <2>0, <2>1, <2>2, <2>3, <2>4
<1>10. CASE OtherPacket(h, p)
  BY <1>3, <1>4, <1>10 DEF OtherPacket
<1>11. CASE DisconnectLink(h, p)
  BY <1>0, <1>2, <1>4, <1>11 DEF DisconnectLink
<1> QED
  BY <1>5, <1>6, <1>8, <1>9, <1>10, <1>11

\* An event is delivered: those that follow are later.
LEMMA EventDelivered ==
  ASSUME TypeOK, TypeOK', IInv, Arriving' \subseteq Arriving, NEW p \in Arriving,
         GenuineEvent(p), p.sig[2] = rxCounter, rxCounter' = rxCounter + 1,
         delivered' = Append(delivered, p.count), UNCHANGED <<bState, bTx, bCount>>
  PROVE  PacketsTrue' /\ EventsAscend'
<1>1. PacketsTrue'
  BY DEF IInv, PacketsTrue, PacketTrue, ButtonVerified, ButtonOpen
<1>2. p \in Packets /\ p.count \in Nat /\ rxCounter \in Nat /\ delivered \in Seq(Nat) /\ EventsAscend
  BY ArrivingPackets DEF Packets, TypeOK, IInv
<1>3. LastDelivered' = p.count
  BY <1>2, AppendProperties, EmptySeq DEF LastDelivered
<1>4. p.count <= bCount /\ ButtonOpen
  BY DEF IInv, PacketsTrue, PacketTrue, GenuineEvent, Malformed
<1>5. ASSUME NEW q \in Arriving', GenuineEvent(q), q.sig[2] >= rxCounter'
      PROVE  q.count > p.count
  <2>1. q \in Arriving /\ q.sig[2] \in Nat
    BY <1>5, ArrivingPackets DEF GenuineEvent, OwnSigned, Packets
  <2>2. p.sig[2] < q.sig[2]
    BY <1>2, <1>5, <2>1
  <2>3. p.count < q.count /\ q.count \in Nat
    BY <1>2, <1>5, <2>1, <2>2, ArrivingPackets DEF EventsAscend, Packets
  <2> QED
    BY <1>2, <2>3
<1>6. \A q, r \in Arriving' : GenuineEvent(q) /\ GenuineEvent(r) /\ q.sig[2] < r.sig[2]
                                => q.count < r.count
  BY <1>2 DEF EventsAscend
<1>7. LastDelivered' <= bCount' /\ ButtonOpen'
  BY <1>3, <1>4 DEF ButtonOpen
<1> QED
  BY <1>1, <1>3, <1>5, <1>6, <1>7 DEF EventsAscend

\* The handler of a packet keeps the invariant.
LEMMA HandlePacketSafe ==
  ASSUME TypeOK, TypeOK', IInv, WritesTrue', NEW h \in Handlers, current = h, HandlePacket(h, Head(packets[h]))
  PROVE  IInv'
<1> DEFINE p == Head(packets[h])
<1>1. /\ UNCHANGED <<setup, started, pendingFragment, downlink, broken,
                     bState, bKey, bTx, bRx, bCount, bAcked, bPending,
                     refused>>
      /\ rxCounter' \in {rxCounter, rxCounter + 1}
      /\ \/ packets' = [packets EXCEPT ![current] = Tail(@)]
         \/ packets' = [packets EXCEPT ![current] = <<>>]
  BY HandlerKeeps
<1>2. Arriving' \subseteq Arriving /\ p \in Arriving
  BY <1>1, ArrivingHandled
<1> HIDE DEF p
<1>3. HandlePacket(current, p)
  BY DEF p
<1>4. CASE UplinkTrue' /\ StateTrue' /\ AcksTrue' /\ UNCHANGED delivered
  <2>1. PacketsTrue' /\ EventsAscend'
    BY <1>1, <1>2, <1>4, NothingAdded
  <2> QED
    BY <1>4, <2>1 DEF IInv
<1>5. CASE /\ UplinkTrue' /\ StateTrue' /\ AcksTrue'
           /\ GenuineEvent(p) /\ p.sig[2] = rxCounter /\ rxCounter' = rxCounter + 1
           /\ delivered' = Append(delivered, p.count)
  BY <1>1, <1>2, <1>5, EventDelivered DEF IInv
<1> QED
  BY <1>2, <1>3, <1>4, <1>5, HandshakeSafe, EstablishedSafe DEF HandlePacket

-----------------------------------------------------------------------------

\* The invariant holds initially.
LEMMA SafeInit == Init => IInv
<1> SUFFICES ASSUME Init PROVE IInv
  OBVIOUS
<1> USE DEF Init
<1>1. Arriving = {}
  BY ArrivingMember, ElementsOfFew
<1>2. Quiet
  BY DEF Quiet
<1>3. LastDelivered = 0
  BY DEF LastDelivered
<1>4. setup.full \in BOOLEAN
  BY SetupAssumption
<1>5. PacketsTrue /\ UplinkTrue /\ EventsAscend
  BY <1>1, <1>2, <1>3 DEF PacketsTrue, UplinkTrue, EventsAscend, ButtonOpen
<1>8. WritesTrue
  BY CoroAssumption DEF WritesTrue, Serialized, Idle, Coros
<1>6. StateTrue
  BY <1>2, <1>4 DEF StateTrue
<1>7. AcksTrue
  BY <1>3 DEF AcksTrue, AckedWereDelivered
<1> QED
  BY <1>5, <1>6, <1>7, <1>8 DEF IInv

\* start() sends the first request.
LEMMA StartSafe ==
  ASSUME TypeOK, TypeOK', IInv, WritesTrue', Start
  PROVE  IInv'
<1> USE DEF stateVars, authVars, eventVars, buttonVars
<1>1. /\ UNCHANGED <<setup, ready, failure, pairing, connId, sessionKey, rxCounter, txCounter,
                     delivered, pendingFragment, packets, downlink, broken,
                     bState, bKey, bTx, bRx, bCount, bAcked, bPending,
                     refused>>
      /\ ~started /\ started' = TRUE /\ Starter \in Coros
  BY DEF Start, Coros
<1>2. /\ Quiet /\ bState = "idle" /\ txCounter = 0 /\ state \in {"IDLE", "FAILED"}
      /\ (pairing <=> ~setup.full) /\ ~(ready /\ failure = NoFailure)
  <2>1. setup.full \in BOOLEAN /\ pairing \in BOOLEAN
    BY SetupAssumption DEF TypeOK
  <2> QED
    BY <1>1, <2>1 DEF IInv, StateTrue
<1>3. PICK u \in Packets :
        /\ Send(Starter, u)
        /\ \/ ~pairing /\ u.op = "FULL_VERIFY_REQUEST_1" /\ state' = "WAIT_FULL_VERIFY_1"
           \/ pairing /\ u.op = "QUICK_VERIFY_REQUEST" /\ state' = "WAIT_QUICK_VERIFY"
  <2>1. \A op \in {"FULL_VERIFY_REQUEST_1", "QUICK_VERIFY_REQUEST"} :
           [Plain EXCEPT !.op = op] \in Packets /\ [Plain EXCEPT !.op = op].op = op
    BY PlainPacket DEF Packets, Opcodes
  <2> QED
    BY <2>1 DEF Start
<1>4. UplinkTrue'
  BY <1>1, <1>2, <1>3, RequestSent DEF IInv, Expects, ButtonOpen
<1>5. LastDelivered' = LastDelivered
  BY <1>1 DEF LastDelivered
<1>6. AcksTrue'
  BY <1>1, <1>3, <1>5, LastDeliveredType, AcksSent DEF IInv
<1>7. Arriving' = Arriving
  BY <1>1, ArrivingMember, ArrivingMemberNext
<1>8. PacketsTrue' /\ EventsAscend'
  BY <1>1, <1>7, NothingAdded
<1>9. StateTrue'
  BY <1>1, <1>2, <1>3 DEF StateTrue
<1> QED
  BY <1>4, <1>6, <1>8, <1>9 DEF IInv

\* The first piece of a packet is all that is on its way, or all the button has.
LEMMA StuckNext ==
  ASSUME NEW u \in Packets, Long(u.op)', \A g \in Coros : out'[g] = <<>>,
         \/ uplink' = <<Piece(u)>> /\ bPending' = <<>>
         \/ uplink' = <<>> /\ bPending' = <<u>>
  PROVE  Stuck'
<1>1. u \in Written' \cup Elements(bPending')
  <2>1. CASE uplink' = <<Piece(u)>>
    <3>1. Piece(u) \in Elements(uplink')
      BY <2>1, ElementsOfFew
    <3>2. Written' = {v.packets[1] : v \in Elements(uplink') \cup (UNION {Elements(out'[g]) : g \in Coros})}
      BY DEF Written, Elements
    <3> QED
      BY <3>1, <3>2, Pieces
  <2>2. CASE bPending' = <<u>>
    BY <2>2, ElementsOfFew
  <2> QED
    BY <2>1, <2>2
<1>2. Elements(bPending)' = Elements(bPending')
  BY DEF Elements
<1>3. u \in (Written \cup Elements(bPending))'
  BY <1>1, <1>2
<1> QED
  BY <1>3 DEF Stuck

\* The values that coroutine h has still to write are dropped.
LEMMA RestDropped ==
  ASSUME TypeOK, TypeOK', IInv, NEW h \in Coros, out' = [out EXCEPT ![h] = <<>>],
         failed \subseteq failed',
         UNCHANGED <<setup, uplink, broken, txCounter, delivered, bState, bKey, bRx, bAcked,
                     bPending, refused>>
  PROVE  UplinkTrue' /\ AcksTrue' /\ (Quiet => Quiet')
<1>1. /\ out'[h] = <<>> /\ \A g \in Coros : out'[g] = out[g] \/ out'[g] = <<>>
      /\ \A g \in Coros \ {h} : out'[g] = out[g]
      /\ out[h] = <<>> => out' = out
  BY DEF TypeOK
<1>2. Quiet => Quiet'
  BY <1>1 DEF Quiet
<1>3. /\ (Torn => Torn') /\ (ButtonOpen' <=> ButtonOpen)
      /\ (HandlerFailed => HandlerFailed')
  BY DEF Torn, HandlerFailed, ButtonOpen
<1>4. InStep => InStep'
  BY <1>1, <1>3 DEF InStep
<1>5. Stuck => Stuck'
  <2> SUFFICES ASSUME Stuck PROVE Stuck'
    OBVIOUS
  <2>1. PICK u \in Packets :
          /\ Long(u.op)
          /\ \/ uplink = <<Piece(u)>> /\ bPending = <<>>
             \/ uplink = <<>> /\ bPending = <<u>>
    <3>1. \A w \in Written \cup Elements(bPending) : w \in Packets
      BY WrittenPackets, ElementsOf DEF TypeOK
    <3> QED
      BY <3>1 DEF Stuck
  <2>2. Long(u.op)' /\ \A g \in Coros : out'[g] = <<>>
    BY <1>1, <2>1 DEF Stuck, Long
  <2> QED
    BY <2>1, <2>2, StuckNext
<1>6. Requesting => Requesting' \/ Stuck'
  <2> SUFFICES ASSUME Requesting PROVE Requesting' \/ Stuck'
    OBVIOUS
  <2>1. PICK g \in Coros, u \in Packets :
          /\ u \in Written /\ Sending(g, u) /\ Expects(u)
          /\ bState = "idle" => (u.op = "QUICK_VERIFY_REQUEST" <=> ~setup.full)
          /\ bState = "verified" => txCounter = 1
    BY WrittenPackets DEF Requesting
  <2>2. Long(u.op)' <=> Long(u.op)
    BY DEF Long
  <2>3. CASE out[h] = <<>>
    <3>1. out' = out /\ Written' = Written
      BY <1>1, <2>3 DEF Written, Elements
    <3>2. Sending(g, u)' /\ Expects(u)'
      BY <2>1, <2>2, <3>1 DEF Sending, Expects, InSession
    <3> QED
      BY <2>1, <3>1, <3>2 DEF Requesting
  <2>4. CASE out[h] # <<>>
    <3>1. g = h
      BY <2>1, <2>4 DEF Sending
    <3>2. /\ Long(u.op) /\ \A f \in Coros : out'[f] = <<>>
          /\ \/ uplink' = <<Piece(u)>> /\ bPending' = <<>>
             \/ uplink' = <<>> /\ bPending' = <<u>>
      BY <1>1, <2>1, <2>4, <3>1 DEF Sending
    <3> QED
      BY <2>2, <3>2, StuckNext
  <2> QED
    BY <2>3, <2>4
<1>7. UplinkTrue'
  BY <1>2, <1>3, <1>4, <1>5, <1>6 DEF IInv, UplinkTrue
<1>8. AcksTrue'
  <2>1. LastDelivered' = LastDelivered
    BY DEF LastDelivered
  <2>2. NoAcks(Elements(<<>>))
    BY ElementsOfFew DEF NoAcks
  <2>3. /\ bAcked <= LastDelivered /\ AcksOf(Elements(uplink), LastDelivered)
        /\ \A g \in Coros : NoAcks(Elements(out[g]))
    BY AcksParts DEF IInv
  <2>4. \A g \in Coros : NoAcks(Elements(out'[g]))
    BY <1>1, <2>2, <2>3
  <2> QED
    BY <2>1, <2>3, <2>4, AcksPartsNext
<1> QED
  BY <1>2, <1>7, <1>8

\* A write goes on with the second piece of a request, fails, or is over.
LEMMA WriteReturnsSafe ==
  ASSUME TypeOK, TypeOK', IInv, WritesTrue', NEW h \in Coros, WriteReturns(h)
  PROVE  IInv'
<1> USE DEF stateVars, authVars, eventVars, buttonVars
<1>1. UNCHANGED <<setup, started, state, ready, failure, pairing, connId, sessionKey, rxCounter,
                  txCounter, delivered, pendingFragment, packets, downlink, broken,
                  bState, bKey, bTx, bRx, bCount, bAcked, bPending,
                     refused>>
  BY DEF WriteReturns
<1>2. LastDelivered' = LastDelivered
  BY <1>1 DEF LastDelivered
<1>3. Arriving' = Arriving
  BY <1>1, ArrivingMember, ArrivingMemberNext
<1>4. PacketsTrue' /\ EventsAscend'
  BY <1>1, <1>3, NothingAdded
<1>5. CASE UNCHANGED <<out, uplink, failed>>
  <2>1. UplinkTrue' /\ AcksTrue'
    BY <1>1, <1>5, SilentHandler
  <2>2. StateTrue'
    BY <1>1, <1>5, SameState DEF IInv
  <2> QED
    BY <1>4, <2>1, <2>2 DEF IInv
<1>6. CASE /\ out[h] # <<>> /\ uplink' = Append(uplink, Head(out[h]))
           /\ out' = [out EXCEPT ![h] = Tail(@)] /\ UNCHANGED failed
  <2>1. /\ out[h] \in Seq(Values) /\ Head(out[h]) \in Elements(out[h]) /\ Head(out[h]) \in Values
        /\ Elements(Tail(out[h])) \subseteq Elements(out[h])
    <3>1. out[h] \in Seq(Values)
      BY DEF TypeOK
    <3> QED
      BY <1>6, <3>1, ElementsOf
  <2>2. ~Quiet /\ ~InStep /\ ~Stuck
    BY <1>6 DEF Quiet, InStep, Stuck
  <2>3. AcksTrue'
    <3>1. /\ bAcked <= LastDelivered /\ AcksOf(Elements(uplink), LastDelivered)
          /\ \A g \in Coros : NoAcks(Elements(out[g]))
      BY AcksParts DEF IInv
    <3>2. Elements(uplink') = Elements(uplink) \cup {Head(out[h])}
      <4>1. uplink \in Seq(Values)
        BY DEF TypeOK
      <4> QED
        BY <1>6, <2>1, <4>1, ElementsAdded
    <3>3. AcksOf(Elements(uplink'), LastDelivered)
      BY <2>1, <3>1, <3>2 DEF AcksOf, NoAcks
    <3>4. \A g \in Coros : out'[g] = out[g] \/ (g = h /\ out'[g] = Tail(out[g]))
      <4>1. out \in [Coros -> Seq(Values)]
        BY DEF TypeOK
      <4>2. \A g \in Coros : g # h => out'[g] = out[g]
        BY <1>6, <4>1
      <4>3. out'[h] = Tail(out[h])
        BY <1>6, <4>1
      <4> QED
        BY <4>2, <4>3
    <3>5. \A g \in Coros : NoAcks(Elements(out'[g]))
      BY <2>1, <3>1, <3>4 DEF NoAcks
    <3> QED
      BY <1>1, <1>2, <3>1, <3>3, <3>5, AcksPartsNext
  <2>4. UplinkTrue'
    <3>1. CASE broken \/ ButtonOpen
      <4>1. (Torn' <=> Torn) /\ (ButtonOpen' <=> ButtonOpen)
        BY <1>1, <1>6 DEF Torn, HandlerFailed, ButtonOpen
      <4> QED
        BY <1>1, <2>2, <3>1, <4>1 DEF IInv, UplinkTrue
    <3>2. CASE ~broken /\ ~ButtonOpen
      <4>1. ~ButtonOpen
        BY <3>2
      <4>2. PICK g \in Coros, u \in Packets :
              /\ Sending(g, u) /\ Expects(u)
              /\ bState = "idle" => (u.op = "QUICK_VERIFY_REQUEST" <=> ~setup.full)
              /\ bState = "verified" => txCounter = 1
        BY <2>2, <3>2, <4>1, RequestOnTheWay DEF IInv
      <4>3. g = h /\ out[h] = <<Whole(u)>>
        BY <1>6, <4>2 DEF Sending
      <4>4. Whole(u) \in Values /\ Piece(u) \in Values
        BY Pieces
      <4>5. /\ Head(out[h]) = Whole(u) /\ Tail(out[h]) = <<>> /\ Append(<<>>, Whole(u)) = <<Whole(u)>>
            /\ Append(<<Piece(u)>>, Whole(u)) = <<Piece(u), Whole(u)>> /\ <<Whole(u)>> # <<>>
        BY <4>3, <4>4, FewValues
      <4>6. /\ uplink' = Append(uplink, Whole(u)) /\ out'[h] = <<>>
            /\ \A f \in Coros \ {h} : out'[f] = <<>>
        BY <1>6, <4>2, <4>3, <4>5 DEF Sending, TypeOK
      <4>7. Long(u.op)' <=> Long(u.op)
        BY <1>1 DEF Long
      <4>8. Sending(h, u)'
        BY <1>1, <4>2, <4>3, <4>5, <4>6, <4>7 DEF Sending
      <4>9. u \in Written' /\ Expects(u)'
        BY <1>1, <4>2, <4>8, SendingWrittenNext DEF Expects, InSession
      <4>10. Requesting'
        BY <1>1, <4>2, <4>8, <4>9 DEF Requesting
      <4> QED
        BY <1>1, <4>1, <4>10 DEF IInv, UplinkTrue, ButtonOpen
    <3> QED
      BY <3>1, <3>2
  <2>5. StateTrue'
    BY <1>1, <2>2 DEF IInv, StateTrue, ButtonVerified, ButtonOpen, Answered
  <2> QED
    BY <1>4, <2>3, <2>4, <2>5 DEF IInv
<1>7. CASE /\ uplink' = uplink /\ out' = [out EXCEPT ![h] = <<>>]
           /\ failed' = failed \cup {h}
  <2>1. UplinkTrue' /\ AcksTrue' /\ (Quiet => Quiet')
    BY <1>1, <1>7, RestDropped
  <2>2. StateTrue'
    BY <1>1, <2>1 DEF IInv, StateTrue, ButtonVerified, ButtonOpen, Answered
  <2> QED
    BY <1>4, <2>1, <2>2 DEF IInv
<1> QED
  BY <1>5, <1>6, <1>7 DEF WriteReturns, Write

\* A write raises: what was not written of a packet never is.
LEMMA WriteRaisesSafe ==
  ASSUME TypeOK, TypeOK', IInv, WritesTrue', NEW h \in Coros, WriteRaises(h)
  PROVE  IInv'
<1> USE DEF stateVars, authVars, eventVars, buttonVars, linkVars
<1>1. /\ UNCHANGED <<setup, started, pairing, connId, sessionKey, rxCounter, txCounter,
                     delivered, pendingFragment, downlink, uplink, broken,
                     bState, bKey, bTx, bRx, bCount, bAcked, bPending,
                     refused, failed>>
      /\ out' = [out EXCEPT ![h] = <<>>]
  BY DEF WriteRaises
<1>2. packets' \in {packets, [packets EXCEPT ![h] = <<>>]}
  BY DEF WriteRaises, Fail
<1>3. \A g \in Coros : Elements(packets'[g]) \subseteq Elements(packets[g])
  <2>1. packets \in [Coros -> Seq(Packets)]
    BY DEF TypeOK
  <2>2. \A g \in Coros : packets'[g] = packets[g] \/ packets'[g] = <<>>
    BY <1>2, <2>1
  <2> QED
    BY <2>2, ElementsOfFew
<1>4. Arriving' \subseteq Arriving
  BY <1>1, <1>3, ArrivingMember, ArrivingMemberNext
<1>5. PacketsTrue' /\ EventsAscend'
  BY <1>1, <1>4, NothingAdded
<1>6. UplinkTrue' /\ AcksTrue' /\ (Quiet => Quiet')
  BY <1>1, RestDropped
<1>7. StateTrue'
  <2>1. CASE UNCHANGED <<state, ready, failure>>
    BY <1>1, <1>6, <2>1 DEF IInv, StateTrue, ButtonVerified, ButtonOpen, Answered
  <2>2. CASE state' = "FAILED" /\ failure' = "BleakError"
    BY <1>1, <1>6, <2>2 DEF IInv, StateTrue, ButtonVerified, NoFailure
  <2> QED
    BY <2>1, <2>2 DEF WriteRaises, Fail
<1> QED
  BY <1>5, <1>6, <1>7 DEF IInv

\* A notification is fed.
LEMMA FeedSafe ==
  ASSUME TypeOK, TypeOK', IInv, WritesTrue', NEW h \in Handlers, Feed(h)
  PROVE  IInv'
<1> USE DEF stateVars, authVars, eventVars, buttonVars
<1>1. UNCHANGED <<setup, started, state, ready, failure, pairing, connId, sessionKey, rxCounter,
                  txCounter, delivered, out, failed, uplink, broken,
                  bState, bKey, bTx, bRx, bCount, bAcked, bPending,
                     refused>>
  BY DEF Feed
<1>2. \A p \in Arriving' : p \in Arriving \/ Harmless(p)
  <2>1. \A p : Garbled(p) => Harmless(p)
    BY DEF Garbled, Harmless, Offer, OwnSigned
  <2> QED
    BY <2>1, ArrivingFed
<1>3. PacketsTrue' /\ EventsAscend'
  <2>1. rxCounter \in Nat
    BY DEF TypeOK
  <2>2. rxCounter' \in Nat /\ rxCounter' >= rxCounter
    BY <1>1, <2>1
  <2>3. PacketsTrue /\ EventsAscend
    BY DEF IInv
  <2> QED
    BY <1>1, <1>2, <2>2, <2>3, NothingNew
<1>4. UplinkTrue' /\ AcksTrue'
  BY <1>1, SilentHandler
<1>5. StateTrue'
  BY <1>1, SameState DEF IInv
<1> QED
  BY <1>3, <1>4, <1>5 DEF IInv

-----------------------------------------------------------------------------
(* The steps of the button and of the link *)

\* A packet is notified that the button has just sent, or that is harmless.
LEMMA Notified ==
  ASSUME TypeOK, NEW p \in Packets, Notify(p), UNCHANGED <<packets, pendingFragment>>
  PROVE  \A q \in Arriving' : q \in Arriving \/ q = p
<1>1. Fragments(p) \in Seq(Values)
  BY FragmentTypes
<1>2. \A v \in Elements(Fragments(p)) : Elements(v.packets) = {p}
  <2>1. /\ Whole(p).packets = <<p>> /\ Piece(p).packets = <<p>>
    BY Pieces
  <2>2. \A v \in Elements(Fragments(p)) : v = Whole(p) \/ v = Piece(p)
    <3>1. \A v, w : Elements(<<v, w>>) = {v, w}
      BY DEF Elements
    <3> QED
      BY <3>1, ElementsOfFew DEF Fragments
  <2> QED
    BY <2>1, <2>2, ElementsOfFew
<1>3. \A q \in Arriving' : q \in Arriving \/ \E v \in Elements(Fragments(p)) : q \in Elements(v.packets)
  BY <1>1, ArrivingAppended DEF Notify
<1> QED
  BY <1>2, <1>3

\* A fragment reaches the button.
LEMMA ButtonHoldsSafe ==
  ASSUME TypeOK, TypeOK', IInv, WritesTrue', ButtonHolds
  PROVE  IInv'
<1> USE DEF sessionVars, coroVars, stateVars, authVars, eventVars, buttonVars
<1>1. /\ UNCHANGED <<setup, started, state, ready, failure, pairing, connId, sessionKey, rxCounter,
                     txCounter, delivered, pendingFragment, packets, out, failed, downlink, broken,
                     bState, bKey, bTx, bRx, bCount, bAcked, refused>>
      /\ ~broken /\ uplink # <<>> /\ Head(uplink).more /\ uplink' = Tail(uplink)
      /\ bPending' = bPending \o Head(uplink).packets
  BY DEF ButtonHolds
<1>2. Arriving' = Arriving
  BY <1>1, ArrivingMember, ArrivingMemberNext
<1>3. PacketsTrue' /\ EventsAscend'
  BY <1>1, <1>2, NothingAdded
<1>4. uplink \in Seq(Values) /\ Elements(uplink') \subseteq Elements(uplink) /\ Head(uplink) = uplink[1]
      /\ 1 \in 1..Len(uplink)
  <2>1. uplink \in Seq(Values)
    BY DEF TypeOK
  <2>2. Len(uplink) \in Nat \ {0}
    BY <1>1, <2>1, EmptySeq
  <2> QED
    BY <1>1, <2>1, <2>2, ElementsOf, HeadTailProperties
<1>5. ~Quiet /\ ~InStep
  BY <1>1, <1>4 DEF Quiet, InStep
<1>6. (Torn' <=> Torn) /\ (ButtonOpen' <=> ButtonOpen)
  BY <1>1 DEF Torn, HandlerFailed, ButtonOpen
<1>7. AcksTrue'
  <2>1. LastDelivered' = LastDelivered
    BY <1>1 DEF LastDelivered
  <2>2. /\ bAcked <= LastDelivered /\ AcksOf(Elements(uplink), LastDelivered)
        /\ \A g \in Coros : NoAcks(Elements(out[g]))
    BY AcksParts DEF IInv
  <2>3. AcksOf(Elements(uplink'), LastDelivered)
    BY <1>4, <2>2 DEF AcksOf
  <2> QED
    BY <1>1, <2>1, <2>2, <2>3, AcksPartsNext
\* The rest of a request is being sent.
<1>10. ASSUME ~ButtonOpen, ~Stuck PROVE UplinkTrue'
  <2>1. PICK h \in Coros, u \in Packets :
              /\ Sending(h, u) /\ Expects(u)
              /\ bState = "idle" => (u.op = "QUICK_VERIFY_REQUEST" <=> ~setup.full)
              /\ bState = "verified" => txCounter = 1
    BY <1>1, <1>5, <1>10, RequestOnTheWay DEF IInv
  <2>2. /\ Whole(u) \in Values /\ Piece(u) \in Values
        /\ ~Whole(u).more /\ Piece(u).packets = <<u>> /\ <<>> \o <<u>> = <<u>>
    <3>1. <<u>> \in Seq(Packets)
      OBVIOUS
    <3>2. <<>> \o <<u>> = <<u>>
      BY <3>1, ConcatEmptySeq
    <3> QED
      BY <3>2, Pieces
  <2>3. /\ Head(<<Whole(u)>>) = Whole(u) /\ Tail(<<Piece(u)>>) = <<>> /\ Head(<<Piece(u)>>) = Piece(u)
        /\ Head(<<Piece(u), Whole(u)>>) = Piece(u) /\ Tail(<<Piece(u), Whole(u)>>) = <<Whole(u)>>
    BY <2>2, FewValues
  <2>4. /\ Long(u.op) /\ bPending = <<>> /\ bPending' = <<u>>
        /\ \/ uplink' = <<>> /\ out[h] = <<Whole(u)>>
           \/ uplink' = <<Whole(u)>> /\ out[h] = <<>>
    <3>1. Head(uplink) # Whole(u)
      BY <1>1, <2>2
    <3>2. /\ Long(u.op) /\ bPending = <<>>
          /\ \/ uplink = <<Piece(u)>> /\ out[h] = <<Whole(u)>>
             \/ uplink = <<Piece(u), Whole(u)>> /\ out[h] = <<>>
      BY <1>1, <2>1, <2>3, <3>1 DEF Sending
    <3>3. Head(uplink) = Piece(u)
      BY <2>3, <3>2
    <3>4. bPending' = <<u>>
      BY <1>1, <2>2, <3>2, <3>3
    <3> QED
      BY <1>1, <2>3, <3>2, <3>4
  <2>5. Long(u.op)' <=> Long(u.op)
    BY <1>1 DEF Long
  <2>6. Sending(h, u)'
    BY <1>1, <2>1, <2>4, <2>5 DEF Sending
  <2>7. u \in Written' /\ Expects(u)'
    BY <1>1, <2>1, <2>6, SendingWrittenNext DEF Expects, InSession
  <2>8. Requesting'
    BY <1>1, <2>1, <2>6, <2>7 DEF Requesting
  <2> QED
    BY <1>1, <1>6, <1>10, <2>8 DEF IInv, UplinkTrue
\* No rest will follow.
<1>11. ASSUME ~ButtonOpen, Stuck PROVE UplinkTrue'
  <2>1. PICK u \in Packets : Long(u.op) /\ uplink = <<Piece(u)>> /\ bPending = <<>>
    <3>1. \A w \in Written \cup Elements(bPending) : w \in Packets
      BY WrittenPackets, ElementsOf DEF TypeOK
    <3> QED
      BY <1>1, <1>11, <3>1 DEF Stuck
  <2>2. Piece(u) \in Values /\ Piece(u).packets = <<u>> /\ <<>> \o <<u>> = <<u>>
    <3>1. <<u>> \in Seq(Packets)
      OBVIOUS
    <3>2. <<>> \o <<u>> = <<u>>
      BY <3>1, ConcatEmptySeq
    <3> QED
      BY <3>2, Pieces
  <2>3. Head(uplink) = Piece(u) /\ uplink' = <<>>
    BY <1>1, <2>1, <2>2, FewValues
  <2>4. bPending' = <<u>> /\ Long(u.op)' /\ \A g \in Coros : out'[g] = <<>>
    BY <1>1, <1>11, <2>1, <2>2, <2>3 DEF Long, Stuck
  <2>5. Stuck'
    BY <2>3, <2>4, StuckNext
  <2> QED
    BY <1>1, <1>6, <1>11, <2>5 DEF IInv, UplinkTrue
\* A handler had a write that raised, and nothing is promised.
<1>12. ASSUME ButtonOpen PROVE UplinkTrue'
  BY <1>1, <1>5, <1>6, <1>12 DEF IInv, UplinkTrue
<1>8. UplinkTrue'
  BY <1>10, <1>11, <1>12
<1>9. StateTrue'
  BY <1>1, <1>5 DEF IInv, StateTrue, ButtonVerified, ButtonOpen, Answered
<1> QED
  BY <1>3, <1>7, <1>8, <1>9 DEF IInv

\* What taking a packet does not change.
LEMMA TakesKeeps ==
  ASSUME NEW u, Takes(u)
  PROVE  /\ UNCHANGED <<setup, started, state, ready, failure, pairing, connId, sessionKey, rxCounter,
                        txCounter, delivered, pendingFragment, packets, out, failed, broken>>
         /\ uplink' = Tail(uplink) /\ uplink # <<>> /\ ~broken
BY DEF Takes, sessionVars, coroVars, stateVars, authVars, eventVars

\* The acknowledgements that are left on their way.
LEMMA TakesAcks ==
  ASSUME TypeOK, TypeOK', AcksTrue, NEW u, Takes(u), bAcked' <= LastDelivered
  PROVE  AcksTrue'
<1>1. LastDelivered' = LastDelivered
  BY TakesKeeps DEF LastDelivered
<1>2. Elements(uplink') \subseteq Elements(uplink)
  <2>1. uplink \in Seq(Values)
    BY DEF TypeOK
  <2> QED
    BY <2>1, TakesKeeps, ElementsOf
<1>3. AcksOf(Elements(uplink), LastDelivered) /\ \A g \in Coros : NoAcks(Elements(out[g]))
  BY AcksParts
<1>4. AcksOf(Elements(uplink'), LastDelivered)
  BY <1>2, <1>3 DEF AcksOf
<1> QED
  BY <1>1, <1>3, <1>4, TakesKeeps, AcksPartsNext

\* The button answers a request of the handshake.
LEMMA ButtonAnswersSafe ==
  ASSUME TypeOK, TypeOK', IInv, WritesTrue', NEW u, ButtonAnswers(u)
  PROVE  IInv'
<1>0. Takes(u) /\ UplinkTrue /\ StateTrue /\ EventsAscend /\ PacketsTrue /\ AcksTrue
  BY DEF ButtonAnswers, IInv
<1>1. /\ UNCHANGED <<setup, started, state, ready, failure, pairing, connId, sessionKey, rxCounter,
                     txCounter, delivered, pendingFragment, packets, out, failed, broken, bRx, bCount,
                     bAcked, refused>>
      /\ ~broken /\ ~refused
  BY <1>0, TakesKeeps DEF ButtonAnswers
<1>2. bState \in {"idle", "offered"} /\ ~ButtonOpen
  BY DEF ButtonAnswers, ButtonOpen
<1>3. /\ u \in Packets /\ Quiet' /\ ~Quiet
      /\ bState = "idle" => (u.op = "QUICK_VERIFY_REQUEST" <=> ~setup.full)
  BY <1>0, <1>2, TakesRequest
<1>4. /\ bTx \in Nat /\ bKey = (IF bState = "idle" THEN NoKey ELSE "own")
      /\ bKey \in Keys /\ "own" \in Keys
  BY <1>0 DEF TypeOK, UplinkTrue, Keys
\* What is answered, and where it takes the button.
<1> DEFINE Answer(p) ==
        /\ Notify(p) /\ p.op # "BUTTON_EVENT" /\ p.conn = OwnConn
        /\ \/ bState' = bState /\ bKey' = bKey /\ bTx' = bTx /\ ~Offer(p) /\ p.sig = NoSig
           \/ /\ bState = "idle" /\ u.op # "QUICK_VERIFY_REQUEST" /\ bState' = "offered"
              /\ bKey' = "own" /\ bTx' = bTx /\ p.sig = NoSig
           \/ /\ bState = "offered" /\ bState' = "verified" /\ bKey' = "own" /\ bTx' = bTx + 1
              /\ p.op = "FULL_VERIFY_RESPONSE_2" /\ p.sig = <<"own", bTx>>
           \/ /\ bState = "idle" /\ u.op = "QUICK_VERIFY_REQUEST" /\ bState' = "verified"
              /\ bKey' = "own" /\ bTx' = bTx + 1
              /\ p.op = "QUICK_VERIFY_RESPONSE" /\ p.sig = <<"own", bTx>>
<1>5. PICK p \in Packets : Answer(p)
  <2>1. \A op \in Opcodes :
          /\ FromButton(op) \in Packets /\ FromButton(op).op = op /\ FromButton(op).conn = OwnConn
          /\ FromButton(op).sig = NoSig
          /\ Assigned(op) \in Packets /\ Assigned(op).op = op /\ Assigned(op).conn = OwnConn
          /\ Assigned(op).sig = NoSig
    BY PlainPacket DEF FromButton, Assigned, Packets, OwnConn, Plain
  <2>2. \A q \in Packets : /\ [q EXCEPT !.fault = "mode"] \in Packets
                            /\ [q EXCEPT !.fault = "mode"].op = q.op
                            /\ [q EXCEPT !.fault = "mode"].conn = q.conn
                            /\ [q EXCEPT !.fault = "mode"].sig = q.sig
                            /\ [q EXCEPT !.fault = "mode"].fault = "mode"
    <3>1. \A q \in Packets : [q EXCEPT !.fault = "mode"] \in Packets
      BY DEF Packets, Faults
    <3> QED
      BY <3>1 DEF Packets
  <2>3. \A q \in Packets, key \in Keys, n \in Nat :
                            /\ [q EXCEPT !.sig = <<key, n>>] \in Packets
                            /\ [q EXCEPT !.sig = <<key, n>>].op = q.op
                            /\ [q EXCEPT !.sig = <<key, n>>].conn = q.conn
                            /\ [q EXCEPT !.sig = <<key, n>>].sig = <<key, n>>
    <3>1. \A s : \A q \in Packets : /\ [q EXCEPT !.sig = s].op = q.op /\ [q EXCEPT !.sig = s].conn = q.conn
                                    /\ [q EXCEPT !.sig = s].sig = s
      BY DEF Packets
    <3> QED
      BY <3>1, FieldTypes
  <2>4. {"FULL_VERIFY_RESPONSE_1", "NO_LOGICAL_CONNECTION_SLOTS", "FULL_VERIFY_RESPONSE_2",
         "FULL_VERIFY_FAIL_RESPONSE", "QUICK_VERIFY_RESPONSE", "QUICK_VERIFY_NEGATIVE_RESPONSE"}
           \subseteq Opcodes
    BY DEF Opcodes
  <2>5. CASE /\ bState = "idle" /\ u.op = "FULL_VERIFY_REQUEST_1" /\ UNCHANGED bTx
             /\ Notify(Assigned("FULL_VERIFY_RESPONSE_1")) /\ bState' = "offered" /\ bKey' = "own"
    <3>1. Answer(Assigned("FULL_VERIFY_RESPONSE_1"))
      BY <2>1, <2>4, <2>5
    <3> QED
      BY <2>1, <2>4, <3>1
  <2>6. CASE /\ UNCHANGED <<bState, bKey, bTx>>
             /\ Notify([Assigned("FULL_VERIFY_RESPONSE_1") EXCEPT !.fault = "mode"])
    <3> DEFINE p == [Assigned("FULL_VERIFY_RESPONSE_1") EXCEPT !.fault = "mode"]
    <3>1. Answer(p) /\ p \in Packets
      BY <2>1, <2>2, <2>4, <2>6 DEF Offer
    <3> QED
      BY <3>1
  <2>7. ASSUME NEW op \in {"NO_LOGICAL_CONNECTION_SLOTS", "FULL_VERIFY_FAIL_RESPONSE",
                           "QUICK_VERIFY_NEGATIVE_RESPONSE"},
               UNCHANGED <<bState, bKey, bTx>>, Notify(FromButton(op))
        PROVE  Answer(FromButton(op))
    <3>1. op \in Opcodes /\ op # "FULL_VERIFY_RESPONSE_1" /\ op # "BUTTON_EVENT"
      BY <2>4
    <3> QED
      BY <2>1, <2>7, <3>1 DEF Offer
  <2>8. CASE /\ bState = "offered" /\ bState' = "verified" /\ bTx' = bTx + 1 /\ UNCHANGED bKey
             /\ Notify([FromButton("FULL_VERIFY_RESPONSE_2") EXCEPT !.sig = <<bKey, bTx>>])
    <3> DEFINE p == [FromButton("FULL_VERIFY_RESPONSE_2") EXCEPT !.sig = <<bKey, bTx>>]
    <3>1. /\ p \in Packets /\ p.op = "FULL_VERIFY_RESPONSE_2" /\ p.conn = OwnConn
          /\ p.sig = <<bKey, bTx>> /\ bKey = "own"
      BY <1>4, <2>1, <2>3, <2>4, <2>8
    <3> HIDE DEF p
    <3>2. Answer(p)
      BY <2>8, <3>1 DEF p
    <3> QED
      BY <3>1, <3>2
  <2>9. CASE /\ bState = "idle" /\ u.op = "QUICK_VERIFY_REQUEST"
             /\ bState' = "verified" /\ bKey' = "own" /\ bTx' = bTx + 1
             /\ Notify([Assigned("QUICK_VERIFY_RESPONSE") EXCEPT !.sig = <<"own", bTx>>])
    <3> DEFINE p == [Assigned("QUICK_VERIFY_RESPONSE") EXCEPT !.sig = <<"own", bTx>>]
    <3>1. /\ p \in Packets /\ p.op = "QUICK_VERIFY_RESPONSE" /\ p.conn = OwnConn
          /\ p.sig = <<"own", bTx>>
      BY <1>4, <2>1, <2>3, <2>4
    <3> HIDE DEF p
    <3>2. Answer(p)
      BY <2>9, <3>1 DEF p
    <3> QED
      BY <3>1, <3>2
  <2>10. \A op \in {"NO_LOGICAL_CONNECTION_SLOTS", "FULL_VERIFY_FAIL_RESPONSE",
                    "QUICK_VERIFY_NEGATIVE_RESPONSE"} : FromButton(op) \in Packets
    BY <2>1, <2>4
  <2> HIDE DEF Answer
  <2> QED
    BY <2>5, <2>6, <2>7, <2>8, <2>9, <2>10 DEF ButtonAnswers
<1>6. \A q \in Arriving' : q \in Arriving \/ q = p
  BY <1>1, <1>5, Notified
<1>7. ~ButtonOpen' /\ bTx' \in Nat /\ bTx' >= bTx
  BY <1>2, <1>4, <1>5 DEF ButtonOpen
<1>8. PacketsTrue'
  <2>1. PacketTrue(p)'
    BY <1>4, <1>5 DEF PacketTrue, Offer, OwnSigned, NoSig, ButtonVerified, ButtonOpen
  <2>2. \A q \in Arriving : PacketTrue(q)'
    <3>1. \A q \in Arriving : OwnSigned(q) => q.sig[2] \in Nat
      BY ArrivingPackets DEF Packets, OwnSigned
    <3>2. bState' # "idle" \/ bState' = bState
      BY <1>5
    <3> QED
      BY <1>0, <1>1, <1>2, <1>4, <1>7, <3>1, <3>2 DEF PacketsTrue, PacketTrue, ButtonVerified, ButtonOpen
  <2> QED
    BY <1>6, <2>1, <2>2 DEF PacketsTrue
<1>9. EventsAscend'
  <2>1. \A q \in Arriving' : GenuineEvent(q) => q \in Arriving
    BY <1>5, <1>6 DEF GenuineEvent
  <2>2. LastDelivered' = LastDelivered
    BY <1>1 DEF LastDelivered
  <2> QED
    BY <1>0, <1>1, <1>2, <2>1, <2>2 DEF EventsAscend
<1>10. UplinkTrue'
  BY <1>0, <1>1, <1>2, <1>3, <1>4, <1>5, <1>7 DEF UplinkTrue
<1>11. StateTrue'
  <2>1. started /\ ~Answered
    BY <1>0, <1>1, <1>3 DEF StateTrue, Answered
  <2>2. Answered' /\ setup.full \in BOOLEAN
    BY <1>3, SetupAssumption DEF Answered, TypeOK
  <2>3. state # "ESTABLISHED" /\ ~(ready /\ failure = NoFailure) /\ ~(pairing /\ setup.full)
    BY <1>0, <1>2 DEF StateTrue, ButtonVerified
  <2> QED
    BY <1>0, <1>1, <1>2, <1>3, <1>5, <2>1, <2>2, <2>3 DEF StateTrue
<1>12. AcksTrue'
  <2>1. bAcked' <= LastDelivered
    BY <1>0, <1>1 DEF AcksTrue, AckedWereDelivered
  <2> QED
    BY <1>0, <2>1, TakesAcks
<1> QED
  BY <1>8, <1>9, <1>10, <1>11, <1>12 DEF IInv

\* The button takes a packet of the session.
LEMMA ButtonAcceptsSafe ==
  ASSUME TypeOK, TypeOK', IInv, WritesTrue', NEW u, ButtonAccepts(u)
  PROVE  IInv'
<1>0. Takes(u) /\ UplinkTrue /\ StateTrue /\ EventsAscend /\ PacketsTrue /\ AcksTrue
  BY DEF ButtonAccepts, IInv
<1>1. /\ UNCHANGED <<setup, started, state, ready, failure, pairing, connId, sessionKey, rxCounter,
                     txCounter, delivered, pendingFragment, packets, out, failed, broken, bKey, refused>>
      /\ ~broken /\ ~refused /\ bRx' = bRx + 1
  BY <1>0, TakesKeeps DEF ButtonAccepts
<1>2. LastDelivered' = LastDelivered
  BY <1>1 DEF LastDelivered
\* The init packet.
<1>3. CASE bState = "verified"
  <2>1. /\ u \in Packets /\ Quiet' /\ ~Quiet /\ txCounter = 1 /\ bRx = 0 /\ bKey = "own" /\ ~ButtonOpen
    BY <1>0, <1>3, TakesRequest DEF ButtonOpen, UplinkTrue
  <2>2. PICK n \in Nat :
          /\ Notify([FromButton("INIT_RESPONSE") EXCEPT !.sig = <<bKey, bTx>>, !.count = n])
          /\ bCount' = n /\ bState' = "active" /\ bTx' = bTx + 1 /\ bAcked' = bAcked
    <3>1. u.count .. u.count + 1 \subseteq Nat
      BY <2>1 DEF Packets
    <3> QED
      BY <1>3, <3>1 DEF ButtonAccepts
  <2>3. PICK p \in Packets : /\ p.op = "INIT_RESPONSE" /\ p.conn = OwnConn /\ p.sig = <<"own", bTx>>
                             /\ Notify(p) /\ bTx \in Nat
    <3> DEFINE p == [FromButton("INIT_RESPONSE") EXCEPT !.sig = <<bKey, bTx>>, !.count = n]
    <3>1. FromButton("INIT_RESPONSE") \in Packets /\ FromButton("INIT_RESPONSE").op = "INIT_RESPONSE"
          /\ FromButton("INIT_RESPONSE").conn = OwnConn
      BY PlainPacket DEF FromButton, Packets, OwnConn, Opcodes
    <3>2. bTx \in Nat /\ "own" \in Keys
      BY DEF TypeOK, Keys
    <3>3. p \in Packets
      BY <2>1, <2>2, <3>1, <3>2, FieldTypes
    <3>4. \A s, c : \A q \in Packets : /\ [q EXCEPT !.sig = s, !.count = c].op = q.op
                                       /\ [q EXCEPT !.sig = s, !.count = c].conn = q.conn
                                       /\ [q EXCEPT !.sig = s, !.count = c].sig = s
      BY DEF Packets
    <3>5. p.op = "INIT_RESPONSE" /\ p.conn = OwnConn /\ p.sig = <<bKey, bTx>>
      BY <3>1, <3>4
    <3>6. Notify(p)
      BY <2>2
    <3> HIDE DEF p
    <3> QED
      BY <2>1, <3>2, <3>3, <3>5, <3>6
  <2>5. \A q \in Arriving' : q \in Arriving \/ q = p
    BY <1>1, <2>3, Notified
  <2>6. ButtonOpen' /\ ButtonVerified'
    BY <2>2 DEF ButtonOpen, ButtonVerified
  <2>7. \A q \in Arriving' : ~GenuineEvent(q)
    <3>1. \A q \in Arriving : ~GenuineEvent(q)
      BY <1>0, <2>1 DEF PacketsTrue, PacketTrue, GenuineEvent
    <3> QED
      BY <2>3, <2>5, <3>1 DEF GenuineEvent
  <2>8. PacketsTrue'
    <3>1. PacketTrue(p)'
      <4>1. p.sig[2] < bTx'
        BY <2>2, <2>3
      <4> QED
        BY <2>3, <2>6, <4>1 DEF PacketTrue, Offer
    <3>2. \A q \in Arriving : PacketTrue(q)'
      <4>1. \A q \in Arriving : OwnSigned(q) => q.sig[2] \in Nat
        BY ArrivingPackets DEF Packets, OwnSigned
      <4>2. \A q \in Arriving : q.op = "BUTTON_EVENT" => ~(OwnSigned(q) /\ ~Malformed(q))
        BY <2>5, <2>7, <1>0, <2>1 DEF GenuineEvent, PacketsTrue, PacketTrue
      <4> QED
        BY <1>0, <2>2, <2>3, <2>6, <4>1, <4>2 DEF PacketsTrue, PacketTrue
    <3> QED
      BY <2>5, <3>1, <3>2 DEF PacketsTrue
  <2>9. EventsAscend'
    <3>1. LastDelivered' = 0
      BY <1>0, <1>2, <2>1 DEF EventsAscend, LastDelivered
    <3> QED
      BY <2>2, <2>6, <2>7, <3>1 DEF EventsAscend
  <2>10. UplinkTrue'
    <3>1. bRx' = 1 /\ txCounter' = 1
      BY <1>1, <2>1
    <3>2. InStep'
      BY <2>1, <3>1 DEF InStep, Quiet
    <3> QED
      BY <1>1, <2>1, <2>2, <2>6, <3>2 DEF UplinkTrue
  <2>11. StateTrue'
    <3>1. started /\ ~Answered
      BY <1>0, <1>1, <2>1 DEF StateTrue, Answered
    <3> QED
      BY <1>0, <1>1, <1>3, <2>6, <3>1 DEF StateTrue, ButtonVerified
  <2>12. AcksTrue'
    <3>1. bAcked' <= LastDelivered
      BY <1>0, <2>2 DEF AcksTrue, AckedWereDelivered
    <3> QED
      BY <1>0, <3>1, TakesAcks
  <2> QED
    BY <2>8, <2>9, <2>10, <2>11, <2>12 DEF IInv
\* A reply to the button.
<1>4. CASE ButtonOpen
  <2>1. /\ UNCHANGED <<downlink, bState, bTx, bCount>>
        /\ bAcked' = bAcked \/ (u.op = "ACK_BUTTON_EVENTS" /\ bAcked' = u.count)
    BY <1>4 DEF ButtonAccepts, ButtonOpen
  <2>2. Torn' \/ InStep'
    <3>1. CASE Torn
      BY <1>1, <3>1 DEF Torn, HandlerFailed
    <3>2. CASE ~Torn
      BY <1>0, <1>1, <1>4, <3>2, TakesSigned
    <3> QED
      BY <3>1, <3>2
  <2>8. u.op = "ACK_BUTTON_EVENTS" => u = uplink[1].packets[1]
    <3>1. Head(uplink) = uplink[1] /\ uplink[1].packets[1] \in Packets
      <4>1. uplink \in Seq(Values) /\ uplink # <<>>
        BY <1>0, TakesKeeps DEF TypeOK
      <4>2. Len(uplink) \in Nat \ {0}
        BY <4>1, EmptySeq
      <4>3. uplink[1] \in Values
        BY <4>1, <4>2
      <4> QED
        BY <4>1, <4>3, ValuePackets
    <3>2. \A q \in Packets : [q EXCEPT !.op = "GARBLED", !.sig = <<"garbled", 0>>].op = "GARBLED"
      BY DEF Packets
    <3> QED
      BY <1>0, <3>1, <3>2 DEF Takes, Joined
  <2>3. Arriving' = Arriving
    BY <1>1, <2>1, ArrivingMember, ArrivingMemberNext
  <2>4. PacketsTrue' /\ EventsAscend'
    BY <1>1, <2>1, <2>3, NothingAdded
  <2>5. UplinkTrue'
    BY <1>0, <1>1, <1>4, <2>1, <2>2 DEF UplinkTrue, ButtonOpen
  <2>6. StateTrue'
    <3>1. started
      BY <1>0, <1>4 DEF StateTrue, ButtonOpen
    <3>2. state \in {"ESTABLISHED", "FAILED", "IDLE"}
      BY <1>0, <1>4 DEF StateTrue, ButtonOpen, TypeOK, States
    <3>3. Answered \/ ~Answered
      OBVIOUS
    <3> QED
      BY <1>0, <1>1, <2>1, <3>1, <3>2 DEF StateTrue, ButtonOpen, ButtonVerified
  <2>7. AcksTrue'
    <3>1. uplink # <<>> /\ 1 \in DOMAIN uplink
      <4>1. uplink \in Seq(Values) /\ uplink # <<>>
        BY <1>0, TakesKeeps DEF TypeOK
      <4>2. Len(uplink) \in Nat \ {0} /\ DOMAIN uplink = 1..Len(uplink)
        BY <4>1, EmptySeq
      <4> QED
        BY <4>1, <4>2
    <3>2. bAcked' <= LastDelivered
      BY <1>0, <2>1, <2>8, <3>1 DEF AcksTrue, AckedWereDelivered
    <3> QED
      BY <1>0, <3>2, TakesAcks
  <2> QED
    BY <2>4, <2>5, <2>6, <2>7 DEF IInv
<1> QED
  BY <1>3, <1>4 DEF ButtonAccepts, ButtonOpen

\* A packet that the button says by itself: signed after those before it, and an
\* event counted after those before it.
Said(q) ==
    /\ q.op \in {"BUTTON_EVENT", "PING_REQUEST", "GET_BATTERY_LEVEL_RESPONSE",
                 "DISCONNECT_VERIFIED_LINK"}
    /\ q.conn = OwnConn /\ OwnSigned(q)
    /\ bTx <= q.sig[2] /\ q.sig[2] < bTx'
    /\ q.op = "BUTTON_EVENT" => q.count = bCount + 1 + (q.sig[2] - bTx) /\ q.count <= bCount'

\* The packets that the button may say.
LEMMA SpokenPacket ==
  ASSUME bKey = "own", NEW n \in Nat,
         NEW op \in {"BUTTON_EVENT", "PING_REQUEST", "GET_BATTERY_LEVEL_RESPONSE",
                     "DISCONNECT_VERIFIED_LINK"}
  PROVE  /\ ButtonPacket(op, n) \in Packets /\ ButtonPacket(op, n).op = op
         /\ ButtonPacket(op, n).conn = OwnConn /\ ButtonPacket(op, n).sig = <<"own", n>>
         /\ ButtonPacket(op, n).fault = "none"
<1>1. /\ FromButton(op) \in Packets /\ FromButton(op).op = op /\ FromButton(op).conn = OwnConn
      /\ FromButton(op).fault = "none"
  BY PlainPacket DEF FromButton, Packets, OwnConn, Opcodes, Plain
<1>2. ButtonPacket(op, n) \in Packets
  <2>1. \A p \in Packets : [p EXCEPT !.sig = <<"own", n>>] \in Packets
    <3>1. "own" \in Keys
      BY DEF Keys
    <3> QED
      BY <3>1, FieldTypes
  <2>2. ButtonPacket(op, n) = [FromButton(op) EXCEPT !.sig = <<"own", n>>]
    BY DEF ButtonPacket
  <2> QED
    BY <1>1, <2>1, <2>2
<1>3. \A s : \A p \in Packets : /\ [p EXCEPT !.sig = s].op = p.op /\ [p EXCEPT !.sig = s].conn = p.conn
                                /\ [p EXCEPT !.sig = s].fault = p.fault /\ [p EXCEPT !.sig = s].sig = s
  BY DEF Packets
<1> QED
  BY <1>1, <1>2, <1>3 DEF ButtonPacket

\* An event n after the next one.
LEMMA SpokenEvent ==
  ASSUME TypeOK, bKey = "own", NEW n \in Nat, NEW ack \in BOOLEAN
  PROVE  /\ ButtonEvent(n, ack) \in Packets /\ ButtonEvent(n, ack).op = "BUTTON_EVENT"
         /\ ButtonEvent(n, ack).conn = OwnConn /\ ButtonEvent(n, ack).sig = <<"own", bTx + n>>
         /\ ButtonEvent(n, ack).count = bCount + n + 1 /\ ButtonEvent(n, ack).fault = "none"
<1> DEFINE p == ButtonPacket("BUTTON_EVENT", bTx + n)
<1>0. bTx \in Nat /\ bCount \in Nat /\ "own" \in Keys
  BY DEF TypeOK, Keys
<1>1. /\ p \in Packets /\ p.op = "BUTTON_EVENT" /\ p.conn = OwnConn /\ p.sig = <<"own", bTx + n>>
      /\ p.fault = "none" /\ bCount + n + 1 \in Nat
  BY <1>0, SpokenPacket
<1>2. ButtonEvent(n, ack) = [p EXCEPT !.count = bCount + n + 1, !.ack = ack]
  BY DEF ButtonEvent
<1> HIDE DEF p
<1>3. [p EXCEPT !.count = bCount + n + 1, !.ack = ack] \in Packets
  <2>1. \A c \in Nat : \A a \in BOOLEAN : [p EXCEPT !.count = c, !.ack = a] \in Packets
    BY <1>0, <1>1, FieldTypes
  <2> QED
    BY <1>1, <2>1
<1>4. \A c, a : /\ [p EXCEPT !.count = c, !.ack = a].op = p.op
                /\ [p EXCEPT !.count = c, !.ack = a].conn = p.conn
                /\ [p EXCEPT !.count = c, !.ack = a].sig = p.sig
                /\ [p EXCEPT !.count = c, !.ack = a].fault = p.fault
                /\ [p EXCEPT !.count = c, !.ack = a].count = c
  BY <1>1 DEF Packets
<1> QED
  BY <1>1, <1>2, <1>3, <1>4

\* The next event.
LEMMA SpokenFirst ==
  ASSUME TypeOK, bKey = "own", NEW ack \in BOOLEAN
  PROVE  /\ ButtonEvent(0, ack) \in Packets /\ ButtonEvent(0, ack).op = "BUTTON_EVENT"
         /\ ButtonEvent(0, ack).conn = OwnConn /\ ButtonEvent(0, ack).sig = <<"own", bTx>>
         /\ ButtonEvent(0, ack).count = bCount + 1 /\ ButtonEvent(0, ack).fault = "none"
<1>1. /\ ButtonEvent(0, ack) \in Packets /\ ButtonEvent(0, ack).op = "BUTTON_EVENT"
      /\ ButtonEvent(0, ack).conn = OwnConn /\ ButtonEvent(0, ack).sig = <<"own", bTx + 0>>
      /\ ButtonEvent(0, ack).count = bCount + 0 + 1 /\ ButtonEvent(0, ack).fault = "none"
  BY SpokenEvent
<1>2. bTx + 0 = bTx /\ bCount + 0 + 1 = bCount + 1
  BY DEF TypeOK
<1> QED
  BY <1>1, <1>2

\* What the button says by itself, packet by packet.
LEMMA SpeaksSays ==
  ASSUME TypeOK, TypeOK', bKey = "own", ButtonSpeaks, NEW q \in Arriving'
  PROVE  q \in Arriving \/ (q \in Packets /\ Said(q))
<1>0. bTx \in Nat /\ bCount \in Nat /\ "own" \in Keys /\ UNCHANGED <<packets, pendingFragment>>
  BY DEF TypeOK, Keys, ButtonSpeaks, sessionVars, coroVars
<1>1. ASSUME NEW op \in {"BUTTON_EVENT", "PING_REQUEST", "GET_BATTERY_LEVEL_RESPONSE",
                         "DISCONNECT_VERIFIED_LINK"}
      PROVE  /\ ButtonPacket(op, bTx) \in Packets /\ ButtonPacket(op, bTx).op = op
             /\ ButtonPacket(op, bTx).conn = OwnConn /\ ButtonPacket(op, bTx).sig = <<"own", bTx>>
  BY <1>0, SpokenPacket
<1>9. ASSUME NEW ack \in BOOLEAN
      PROVE  /\ ButtonEvent(0, ack) \in Packets /\ ButtonEvent(0, ack).op = "BUTTON_EVENT"
             /\ ButtonEvent(0, ack).conn = OwnConn /\ ButtonEvent(0, ack).sig = <<"own", bTx>>
             /\ ButtonEvent(0, ack).count = bCount + 1
  BY SpokenFirst
<1>3. CASE \E ack \in BOOLEAN : Notify(ButtonEvent(0, ack)) /\ bTx' = bTx + 1 /\ bCount' = bCount + 1
  <2>1. PICK ack \in BOOLEAN : Notify(ButtonEvent(0, ack))
    BY <1>3
  <2>2. /\ ButtonEvent(0, ack) \in Packets /\ ButtonEvent(0, ack).op = "BUTTON_EVENT"
        /\ ButtonEvent(0, ack).conn = OwnConn /\ ButtonEvent(0, ack).sig = <<"own", bTx>>
        /\ ButtonEvent(0, ack).count = bCount + 1
    BY <1>9
  <2>4. OwnSigned(ButtonEvent(0, ack)) /\ ButtonEvent(0, ack).sig[2] = bTx
    BY <2>2 DEF OwnSigned, NoSig
  <2>5. bTx <= bTx /\ bTx < bTx' /\ bCount + 1 = bCount + 1 + (bTx - bTx) /\ bCount + 1 <= bCount'
    BY <1>0, <1>3
  <2>3. Said(ButtonEvent(0, ack))
    BY <2>2, <2>4, <2>5 DEF Said
  <2> QED
    BY <1>0, <2>1, <2>2, <2>3, Notified
<1>4. CASE \E ack \in BOOLEAN :
              /\ downlink' = Append(downlink, [more |-> FALSE,
                               packets |-> <<ButtonEvent(0, ack), ButtonEvent(1, FALSE)>>])
              /\ bTx' = bTx + 2 /\ bCount' = bCount + 2
  <2>1. PICK ack \in BOOLEAN :
              downlink' = Append(downlink, [more |-> FALSE,
                               packets |-> <<ButtonEvent(0, ack), ButtonEvent(1, FALSE)>>])
    BY <1>4
  <2> DEFINE e0 == ButtonEvent(0, ack)
             e1 == ButtonEvent(1, FALSE)
  <2>2. /\ e0 \in Packets /\ e0.op = "BUTTON_EVENT" /\ e0.conn = OwnConn /\ e0.sig = <<"own", bTx>>
        /\ e0.count = bCount + 1
    BY <1>9
  <2>3. /\ e1 \in Packets /\ e1.op = "BUTTON_EVENT" /\ e1.conn = OwnConn /\ e1.sig = <<"own", bTx + 1>>
        /\ e1.count = bCount + 2
    <3>1. /\ ButtonEvent(1, FALSE) \in Packets /\ ButtonEvent(1, FALSE).op = "BUTTON_EVENT"
          /\ ButtonEvent(1, FALSE).conn = OwnConn /\ ButtonEvent(1, FALSE).sig = <<"own", bTx + 1>>
          /\ ButtonEvent(1, FALSE).count = bCount + 1 + 1
      BY SpokenEvent
    <3>2. bCount + 1 + 1 = bCount + 2
      BY <1>0
    <3> QED
      BY <3>1, <3>2
  <2> HIDE DEF e0, e1
  <2>4. Said(e0) /\ Said(e1)
    BY <1>0, <1>4, <2>2, <2>3 DEF Said, OwnSigned, NoSig
  <2> DEFINE v == [more |-> FALSE, packets |-> <<e0, e1>>]
  <2>5. v \in Values /\ v.packets = <<e0, e1>>
    <3>1. \A p, r \in Packets : <<p, r>> \in Seq(Packets) \ {<<>>}
      OBVIOUS
    <3>2. <<e0, e1>> \in Seq(Packets) \ {<<>>}
      BY <2>2, <2>3, <3>1
    <3> QED
      BY <3>2 DEF Values
  <2>6. downlink' = Append(downlink, v)
    BY <2>1 DEF e0, e1
  <2> HIDE DEF v
  <2>7. Elements(downlink') = Elements(downlink) \cup {v}
    <3>1. downlink \in Seq(Values)
      BY DEF TypeOK
    <3> QED
      BY <2>5, <2>6, <3>1, ElementsAdded
  <2>8. Elements(v.packets) = {e0, e1}
    <3>1. \A p, r : Elements(<<p, r>>) = {p, r}
      BY DEF Elements
    <3> QED
      BY <2>5, <3>1
  <2>9. q \in Arriving \/ q \in {e0, e1}
    BY <1>0, <2>7, <2>8, ArrivingMember, ArrivingMemberNext
  <2> QED
    BY <2>2, <2>3, <2>4, <2>9
<1>5. CASE \E op \in {"PING_REQUEST", "GET_BATTERY_LEVEL_RESPONSE", "DISCONNECT_VERIFIED_LINK"} :
              Notify(ButtonPacket(op, bTx)) /\ bTx' = bTx + 1
  <2>1. PICK op \in {"PING_REQUEST", "GET_BATTERY_LEVEL_RESPONSE", "DISCONNECT_VERIFIED_LINK"} :
              Notify(ButtonPacket(op, bTx))
    BY <1>5
  <2>2. /\ ButtonPacket(op, bTx) \in Packets /\ ButtonPacket(op, bTx).op = op
        /\ ButtonPacket(op, bTx).conn = OwnConn /\ ButtonPacket(op, bTx).sig = <<"own", bTx>>
    BY <1>0, <1>1
  <2>3. Said(ButtonPacket(op, bTx))
    BY <1>0, <1>5, <2>2 DEF Said, OwnSigned, NoSig
  <2> QED
    BY <1>0, <2>1, <2>2, <2>3, Notified
<1> QED
  BY <1>3, <1>4, <1>5 DEF ButtonSpeaks

\* What the button says by itself may be trusted.
LEMMA ButtonSpeaksSafe ==
  ASSUME TypeOK, TypeOK', IInv, WritesTrue', ButtonSpeaks
  PROVE  IInv'
<1> USE DEF sessionVars, coroVars, stateVars, authVars, eventVars
<1>1. /\ UNCHANGED <<setup, started, state, ready, failure, pairing, connId, sessionKey, rxCounter,
                     txCounter, delivered, pendingFragment, packets, out, failed, uplink, broken,
                     bKey, bRx, bAcked, bPending, refused>>
      /\ bState = "active" /\ bState' \in {"active", "closed"}
      /\ \/ bTx' = bTx + 1 /\ bCount' \in {bCount, bCount + 1}
         \/ bTx' = bTx + 2 /\ bCount' = bCount + 2
  BY DEF ButtonSpeaks
<1>2. /\ UplinkTrue /\ StateTrue /\ EventsAscend /\ PacketsTrue /\ AcksTrue
      /\ bTx \in Nat /\ bCount \in Nat /\ rxCounter \in Nat
      /\ ButtonOpen /\ ButtonOpen' /\ ButtonVerified /\ ButtonVerified' /\ bKey = "own"
      /\ bTx' \in Nat /\ bTx' > bTx /\ bCount' \in Nat /\ bCount' >= bCount
  <2>1. UplinkTrue /\ StateTrue /\ EventsAscend /\ PacketsTrue /\ AcksTrue
    BY DEF IInv
  <2>2. bTx \in Nat /\ bCount \in Nat /\ rxCounter \in Nat
    BY DEF TypeOK
  <2>3. /\ ButtonOpen /\ ButtonOpen' /\ ButtonVerified /\ ButtonVerified' /\ bKey = "own"
    BY <1>1, <2>1 DEF ButtonOpen, ButtonVerified, UplinkTrue
  <2>4. bTx' \in Nat /\ bTx' > bTx /\ bCount' \in Nat /\ bCount' >= bCount
    BY <1>1, <2>2
  <2> QED
    BY <2>1, <2>2, <2>3, <2>4
<1>3. \A q \in Arriving' : q \in Arriving \/ (q \in Packets /\ Said(q))
  BY <1>2, SpeaksSays
<1>4. \A q \in Arriving : q \in Packets /\ (OwnSigned(q) => q.sig[2] \in Nat) /\ q.count \in Nat
  BY ArrivingPackets DEF Packets, OwnSigned
<1>5. \A q \in Packets : Said(q) => q.sig[2] \in Nat /\ q.count \in Nat
  BY DEF Said, Packets, OwnSigned
<1>6. PacketsTrue'
  <2>1. ASSUME NEW q \in Packets, Said(q) PROVE PacketTrue(q)'
    BY <1>2, <2>1 DEF PacketTrue, Said, Offer
  <2>2. ASSUME NEW q \in Arriving PROVE PacketTrue(q)'
    BY <1>1, <1>2, <1>4 DEF PacketsTrue, PacketTrue
  <2> QED
    BY <1>3, <2>1, <2>2 DEF PacketsTrue
<1>7. EventsAscend'
  <2>1. \A q \in Arriving : GenuineEvent(q) => /\ q.sig[2] < bTx /\ q.count <= bCount
                                               /\ q.sig[2] \in Nat /\ q.count \in Nat
    BY <1>2, <1>4 DEF PacketsTrue, PacketTrue, GenuineEvent
  <2>2. \A q \in Packets : Said(q) /\ GenuineEvent(q) =>
            /\ bTx <= q.sig[2] /\ q.count = bCount + 1 + (q.sig[2] - bTx)
            /\ q.sig[2] \in Nat /\ q.count \in Nat
    BY <1>5 DEF Said, GenuineEvent
  <2>3. LastDelivered' = LastDelivered /\ LastDelivered \in Nat /\ LastDelivered <= bCount
    BY <1>1, <1>2, LastDeliveredType DEF LastDelivered, EventsAscend
  <2>4. \A p, q \in Arriving' :
          GenuineEvent(p) /\ GenuineEvent(q) /\ p.sig[2] < q.sig[2] => p.count < q.count
    <3> SUFFICES ASSUME NEW p \in Arriving', NEW q \in Arriving', GenuineEvent(p), GenuineEvent(q),
                        p.sig[2] < q.sig[2]
                 PROVE  p.count < q.count
      OBVIOUS
    <3>1. CASE p \in Arriving /\ q \in Arriving
      BY <1>2, <3>1 DEF EventsAscend
    <3>2. CASE p \in Arriving /\ q \in Packets /\ Said(q)
      BY <1>2, <2>1, <2>2, <3>2
    <3>3. CASE p \in Packets /\ Said(p) /\ q \in Arriving
      BY <1>2, <2>1, <2>2, <3>3
    <3>4. CASE p \in Packets /\ Said(p) /\ q \in Packets /\ Said(q)
      BY <1>2, <2>2, <3>4
    <3> QED
      BY <1>3, <3>1, <3>2, <3>3, <3>4
  <2>5. \A p \in Arriving' : GenuineEvent(p) /\ p.sig[2] >= rxCounter' => p.count > LastDelivered'
    <3> SUFFICES ASSUME NEW p \in Arriving', GenuineEvent(p), p.sig[2] >= rxCounter'
                 PROVE  p.count > LastDelivered'
      OBVIOUS
    <3>1. CASE p \in Arriving
      BY <1>1, <1>2, <2>3, <3>1 DEF EventsAscend
    <3>2. CASE p \in Packets /\ Said(p)
      BY <1>2, <2>2, <2>3, <3>2
    <3> QED
      BY <1>3, <3>1, <3>2
  <2>6. LastDelivered' <= bCount'
    BY <1>2, <2>3
  <2> QED
    BY <1>2, <2>4, <2>5, <2>6 DEF EventsAscend
<1>8. UplinkTrue'
  <2>1. (InStep' <=> InStep) /\ (Torn' <=> Torn)
    BY <1>1 DEF InStep, Torn, HandlerFailed
  <2> QED
    BY <1>1, <1>2, <2>1 DEF UplinkTrue
<1>9. StateTrue'
  <2>1. Quiet' <=> Quiet
    BY <1>1 DEF Quiet
  <2> QED
    BY <1>1, <1>2, <2>1 DEF StateTrue
<1>10. AcksTrue'
  BY <1>1, <1>2 DEF AcksTrue, AckedWereDelivered, LastDelivered
<1> QED
  BY <1>6, <1>7, <1>8, <1>9, <1>10 DEF IInv

\* A third party's packet tells the session nothing.
LEMMA StraySafe ==
  ASSUME TypeOK, TypeOK', IInv, WritesTrue', StrayNotification
  PROVE  IInv'
<1> USE DEF sessionVars, coroVars, stateVars, authVars, eventVars, buttonVars
<1>1. /\ UNCHANGED <<setup, started, state, ready, failure, pairing, connId, sessionKey, rxCounter,
                     txCounter, delivered, pendingFragment, packets, out, failed, uplink, broken,
                     bState, bKey, bTx, bRx, bCount, bAcked, bPending,
                     refused>>
  BY DEF StrayNotification
<1>2. PICK p \in Strays[setup] : downlink' = Append(downlink, Whole(p))
  BY DEF StrayNotification
<1>3. p \in Packets /\ Harmless(p)
  BY StrayAssumption DEF TypeOK, Harmless
<1>4. \A q \in Arriving' : q \in Arriving \/ q = p
  <2>1. Whole(p) \in Values /\ Whole(p).packets = <<p>>
    BY <1>3, Pieces
  <2>2. Elements(downlink') = Elements(downlink) \cup {Whole(p)}
    <3>1. downlink \in Seq(Values)
      BY DEF TypeOK
    <3> QED
      BY <1>2, <2>1, <3>1, ElementsAdded
  <2>3. Elements(Whole(p).packets) = {p}
    BY <2>1, ElementsOfFew
  <2> QED
    BY <1>1, <2>2, <2>3, ArrivingMember, ArrivingMemberNext
<1>5. PacketsTrue' /\ EventsAscend'
  <2>1. \A q \in Arriving' : q \in Arriving \/ Harmless(q)
    BY <1>3, <1>4
  <2>2. rxCounter' \in Nat /\ rxCounter' >= rxCounter
    <3>1. rxCounter \in Nat
      BY DEF TypeOK
    <3> QED
      BY <1>1, <3>1
  <2>3. PacketsTrue /\ EventsAscend
    BY DEF IInv
  <2> QED
    BY <1>1, <2>1, <2>2, <2>3, NothingNew
<1>6. UplinkTrue' /\ AcksTrue'
  BY <1>1, SilentHandler
<1>7. StateTrue'
  BY <1>1, SameState DEF IInv
<1> QED
  BY <1>5, <1>6, <1>7 DEF IInv

\* The link is lost with what is on it.
LEMMA LostSafe ==
  ASSUME TypeOK, TypeOK', IInv, WritesTrue', ConnectionLost
  PROVE  IInv'
<1> USE DEF sessionVars, coroVars, stateVars, authVars, eventVars, buttonVars
<1>1. /\ UNCHANGED <<setup, started, state, ready, failure, pairing, connId, sessionKey, rxCounter,
                     txCounter, delivered, pendingFragment, packets, out, failed,
                     bState, bKey, bTx, bRx, bCount, bAcked, bPending,
                     refused>>
      /\ broken' = TRUE /\ uplink' = <<>>
  BY DEF ConnectionLost
<1>2. Elements(downlink') \subseteq Elements(downlink)
  <2>1. downlink \in Seq(Values)
    BY DEF TypeOK
  <2> QED
    BY <2>1, ElementsOf DEF ConnectionLost
<1>3. Arriving' \subseteq Arriving
  BY <1>1, <1>2, ArrivingMember, ArrivingMemberNext
<1>4. PacketsTrue' /\ EventsAscend'
  BY <1>1, <1>3, NothingAdded
<1>5. UplinkTrue'
  BY <1>1 DEF IInv, UplinkTrue, ButtonOpen, Torn, HandlerFailed
<1>6. StateTrue'
  <2>1. Quiet => Quiet'
    BY <1>1 DEF Quiet
  <2> QED
    BY <1>1, <2>1 DEF IInv, StateTrue, ButtonVerified, ButtonOpen, Answered
<1>7. AcksTrue'
  BY <1>1 DEF IInv, AcksTrue, AckedWereDelivered, LastDelivered
<1> QED
  BY <1>4, <1>5, <1>6, <1>7 DEF IInv

\* What an open button refuses comes after a counter that was not sent; before,
\* it refuses nothing.
LEMMA ButtonRefusesSafe ==
  ASSUME TypeOK, TypeOK', IInv, WritesTrue', NEW u, ButtonRefuses(u)
  PROVE  IInv'
<1>0. Takes(u) /\ UplinkTrue /\ StateTrue /\ EventsAscend /\ PacketsTrue /\ AcksTrue
  BY DEF ButtonRefuses, IInv
<1>1. UNCHANGED <<setup, started, state, ready, failure, pairing, connId, sessionKey, rxCounter,
                  txCounter, delivered, pendingFragment, packets, out, failed, downlink, broken,
                  bState, bKey, bTx, bRx, bCount, bAcked>>
  BY <1>0, TakesKeeps DEF ButtonRefuses
<1>2. Torn /\ ButtonOpen
  <2>1. CASE refused
    BY <1>0, <2>1 DEF UplinkTrue
  <2>2. CASE ~Expects(u)
    BY <1>0, <2>2, TakesRequest, TakesSigned
  <2> QED
    BY <2>1, <2>2 DEF ButtonRefuses
<1>3. UplinkTrue'
  BY <1>0, <1>1, <1>2 DEF UplinkTrue, ButtonOpen, Torn, HandlerFailed
<1>4. StateTrue'
  <2>1. started
    BY <1>0, <1>2 DEF StateTrue, ButtonOpen
  <2>2. state \in {"ESTABLISHED", "FAILED", "IDLE"}
    BY <1>0, <1>2 DEF StateTrue, ButtonOpen, TypeOK, States
  <2> QED
    BY <1>0, <1>1, <2>1, <2>2 DEF StateTrue, ButtonOpen, ButtonVerified
<1>5. Arriving' = Arriving
  BY <1>1, ArrivingMember, ArrivingMemberNext
<1>6. PacketsTrue' /\ EventsAscend'
  BY <1>1, <1>5, NothingAdded DEF IInv
<1>7. AcksTrue'
  <2>1. bAcked' <= LastDelivered
    BY <1>0, <1>1 DEF AcksTrue, AckedWereDelivered
  <2> QED
    BY <1>0, <2>1, TakesAcks
<1> QED
  BY <1>3, <1>4, <1>6, <1>7 DEF IInv

(* Writes and the lock *)

\* What a handler does to its own packets and writes; it writes in a session
\* that is under way only.
LEMMA HandlerWrites ==
  ASSUME TypeOK, NEW p, HandlePacket(current, p)
  PROVE  /\ UNCHANGED <<setup, started>>
         /\ \A g \in Coros \ {current} : packets'[g] = packets[g]
         /\ \/ UNCHANGED <<writing, failed>>
            \/ /\ writing' = writing \cup {current}
               /\ failed' \in {failed, failed \cup {current}}
               /\ state \notin {"IDLE", "FAILED"}
<1>1. UNCHANGED <<setup, started>> /\ \A g \in Coros \ {current} : packets'[g] = packets[g]
  BY HandlerKeeps DEF TypeOK
<1>2. CASE (\E q : Send(current, q)) /\ state \notin {"IDLE", "FAILED"}
  BY <1>1, <1>2 DEF Send, Write
<1>3. CASE UNCHANGED <<writing, failed>>
  BY <1>1, <1>3
<1> QED
  BY <1>2, <1>3 DEF HandlePacket, Ignored, NoSlots, HandleFullVerify1, PairingRejected,
         HandleFullVerify2, QuickVerifyNegative, HandleQuickVerify, VerifyFails, InitResponse,
         ButtonEvents, Ping, OtherPacket, DisconnectLink, Verified, ForSession, Return, Raise,
         Reply, ReplySigned, SendInit

\* A step makes no handler busy but one that holds the lock then.
LEMMA SerializedKept ==
  ASSUME Serialized, UNCHANGED setup,
         \/ \A g \in Handlers : Idle(g) => Idle(g)'
         \/ \E h \in Handlers : setup.lock => \A g \in Handlers \ {h} : Idle(g)'
  PROVE  Serialized'
BY DEF Serialized

\* A write that raises is the last thing its handler does, and the session fails.
LEMMA WritesStep == TypeOK /\ IInv /\ [Next]_vars => WritesTrue'
<1> SUFFICES ASSUME TypeOK, IInv, [Next]_vars PROVE WritesTrue'
  OBVIOUS
<1>1. /\ WritesTrue /\ StateTrue /\ writing \subseteq Coros /\ Starter \notin Handlers
      /\ \A h \in Handlers : h \in Coros /\ h # Starter /\ h # NoCoro
  BY CoroAssumption DEF IInv, TypeOK, Coros
<1>2. (started => started') /\ (started /\ state = "FAILED" => state' = "FAILED")
  BY StepMoves DEF Moves, StartMove, FailMove, ReadyMove, OtherMove
<1>3. ASSUME UNCHANGED <<setup, packets, writing, failed>> PROVE WritesTrue'
  <2>1. Serialized'
    BY <1>1, <1>3, SerializedKept DEF WritesTrue, Idle
  <2> QED
    BY <1>1, <1>2, <1>3, <2>1 DEF WritesTrue
<1>4. CASE Start
  <2>1. /\ UNCHANGED <<setup, packets>> /\ writing' = writing \cup {Starter} /\ ~started /\ started'
        /\ failed' \subseteq failed \cup {Starter}
    BY <1>4 DEF Start, Send, Write
  <2>2. Serialized'
    BY <1>1, <2>1, SerializedKept DEF WritesTrue, Idle
  <2> QED
    BY <1>1, <2>1, <2>2 DEF WritesTrue
<1>5. ASSUME NEW h \in Coros, WriteReturns(h) PROVE WritesTrue'
  <2>1. /\ UNCHANGED <<setup, started, state, packets>> /\ h \in writing \ failed
        /\ \/ writing' = writing \ {h} /\ failed' = failed
           \/ writing' = writing /\ failed' = failed
           \/ writing' = writing /\ failed' = failed \cup {h} /\ out[h] # <<>>
    BY <1>5 DEF WriteReturns, Write, stateVars
  <2>2. Serialized'
    BY <1>1, <2>1, SerializedKept DEF WritesTrue, Idle
  <2>3. out[h] # <<>> => started
    BY <1>1 DEF StateTrue, Quiet
  <2> QED
    BY <1>1, <2>1, <2>2, <2>3 DEF WritesTrue
<1>6. ASSUME NEW h \in Coros, WriteRaises(h) PROVE WritesTrue'
  <2>1. /\ UNCHANGED <<setup, started, failed>> /\ writing' = writing \ {h}
        /\ packets' \in {packets, [packets EXCEPT ![h] = <<>>]}
        /\ h # Starter => state' = "FAILED"
    BY <1>6 DEF WriteRaises, Fail
  <2>2. \A g \in Handlers : Idle(g) => Idle(g)'
    BY <1>1, <2>1 DEF Idle, TypeOK
  <2>3. Serialized'
    BY <1>1, <2>1, <2>2, SerializedKept DEF WritesTrue
  <2> QED
    BY <1>1, <1>2, <2>1, <2>3 DEF WritesTrue
<1>7. ASSUME NEW h \in Handlers, Feed(h) PROVE WritesTrue'
  <2>1. /\ UNCHANGED <<setup, started, state, writing, failed>> /\ LockFree
        /\ \A g \in Coros \ {h} : packets'[g] = packets[g]
    BY <1>7 DEF Feed, stateVars, TypeOK
  <2>2. setup.lock => \A g \in Handlers \ {h} : Idle(g)'
    BY <1>1, <2>1 DEF LockFree, Idle
  <2>3. Serialized'
    BY <1>1, <2>1, <2>2, SerializedKept DEF WritesTrue
  <2> QED
    BY <1>1, <2>1, <2>3 DEF WritesTrue
<1>8. ASSUME NEW h \in Handlers, current = h, HandlePacket(h, Head(packets[h])) PROVE WritesTrue'
  <2>1. /\ UNCHANGED <<setup, started>>
        /\ \A g \in Coros \ {h} : packets'[g] = packets[g]
        /\ \/ UNCHANGED <<writing, failed>>
           \/ /\ writing' = writing \cup {h} /\ failed' \in {failed, failed \cup {h}}
              /\ state \notin {"IDLE", "FAILED"}
    BY <1>8, HandlerWrites
  <2>2. packets[h] # <<>>
    BY <1>1, <1>8 DEF TypeOK
  <2>3. setup.lock => \A g \in Handlers \ {h} : Idle(g)'
    BY <1>1, <2>1, <2>2 DEF WritesTrue, Serialized, Idle
  <2>4. Serialized'
    BY <1>1, <2>1, <2>3, SerializedKept DEF WritesTrue
  <2>5. state \notin {"IDLE", "FAILED"} => started
    BY <1>1 DEF StateTrue
  <2> QED
    BY <1>1, <1>2, <2>1, <2>4, <2>5 DEF WritesTrue
<1>9. CASE ButtonStep \/ ButtonSpeaks \/ StrayNotification \/ ConnectionLost \/ UNCHANGED vars
  <2>1. UNCHANGED <<setup, packets, writing, failed>>
    BY <1>9 DEF ButtonStep, ButtonHolds, ButtonAnswers, ButtonAccepts, ButtonRefuses, Takes,
                ButtonSpeaks, StrayNotification, ConnectionLost, vars, sessionVars, coroVars
  <2> QED
    BY <1>3, <2>1
<1> QED
  BY <1>4, <1>5, <1>6, <1>7, <1>8, <1>9 DEF Next, CoroStep

\* The induction step: one lemma for each action.
LEMMA SafeStep == TypeOK /\ IInv /\ [Next]_vars => IInv'
<1> SUFFICES ASSUME TypeOK, IInv, [Next]_vars PROVE IInv'
  OBVIOUS
<1>1. TypeOK' /\ WritesTrue'
  BY TypeStep, WritesStep
<1>2. CASE UNCHANGED vars
  <2>1. /\ UNCHANGED <<setup, started, state, ready, failure, pairing, connId, sessionKey, rxCounter,
                       txCounter, delivered, pendingFragment, packets, downlink, out, failed, uplink, broken,
                       bState, bKey, bTx, bRx, bCount, bAcked, bPending,
                     refused>>
    BY <1>2 DEF vars, stateVars, authVars, eventVars, coroVars, linkVars, buttonVars
  <2>2. Arriving' = Arriving
    BY <2>1, ArrivingMember, ArrivingMemberNext
  <2>3. PacketsTrue' /\ EventsAscend'
    BY <1>1, <2>1, <2>2, NothingAdded
  <2>4. UplinkTrue' /\ AcksTrue' /\ StateTrue'
    BY <1>1, <2>1, SilentHandler, SameState DEF IInv
  <2> QED
    BY <1>1, <2>3, <2>4 DEF IInv
<1>3. CASE CoroStep
  BY <1>1, <1>3, StartSafe, WriteReturnsSafe, WriteRaisesSafe, FeedSafe, HandlePacketSafe DEF CoroStep
<1>4. CASE ButtonStep
  BY <1>1, <1>4, ButtonHoldsSafe, ButtonAnswersSafe, ButtonAcceptsSafe, ButtonRefusesSafe
     DEF ButtonStep
<1>5. CASE ButtonSpeaks \/ StrayNotification \/ ConnectionLost
  BY <1>1, <1>5, ButtonSpeaksSafe, StraySafe, LostSafe
<1> QED
  BY <1>2, <1>3, <1>4, <1>5 DEF Next

-----------------------------------------------------------------------------
(* The theorems *)

\* Nothing arrives that the session would wrongly trust, and each side is where
\* the other one takes it to be; as long as no write has failed, the button is
\* sent only what it expects.
THEOREM InvariantHolds == Spec => []IInv
<1>1. Init => TypeOK /\ IInv
  BY TypeInit, SafeInit
<1>2. (TypeOK /\ IInv) /\ [Next]_vars => (TypeOK /\ IInv)'
  BY TypeStep, SafeStep
<1> QED
  BY <1>1, <1>2, PTL DEF Spec

\* The button accepts everything the code sends it, fragments in one piece,
\* requests one at a time and signed packets in the order of their counters,
\* whatever handlers and sends are suspended and whichever write raises, on a lost
\* link or on a live one; but when the handlers are not serialized and one of them
\* had a write that did not go out, another may send the counter after it.
THEOREM OnlyGapsAreRefused == Spec => []RefusesOnlyGaps
<1>1. IInv => RefusesOnlyGaps
  BY DEF IInv, UplinkTrue, RefusesOnlyGaps, Torn, HandlerFailed
<1> QED
  BY <1>1, InvariantHolds, PTL

\* No event is acknowledged to the button before it was given to the callback.
THEOREM DeliveredBeforeAcked == Spec => []AckedWereDelivered
<1>1. IInv => AckedWereDelivered
  BY DEF IInv, AcksTrue
<1> QED
  BY <1>1, InvariantHolds, PTL

\* Whoever waits for the session to be ready is woken by a failure, or when it is
\* established on the key of the button, which has opened it.
THEOREM ReadyMeansDecided == Spec => []ReadyIsDecided
<1>1. IInv => ReadyIsDecided
  BY DEF IInv, StateTrue, UplinkTrue, ReadyIsDecided, ButtonOpen, ButtonVerified
<1> QED
  BY <1>1, InvariantHolds, PTL

\* The credentials of a pairing are kept only if the button keeps them.
THEOREM CredentialsAreConfirmed == Spec => []CredentialsConfirmed
<1>1. IInv => CredentialsConfirmed
  BY DEF IInv, StateTrue, UplinkTrue, CredentialsConfirmed, ButtonVerified
<1> QED
  BY <1>1, InvariantHolds, PTL
=============================================================================
