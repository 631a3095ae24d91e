-------------------------------- MODULE Framing --------------------------------
(***************************************************************************)
(* _send_packet against _defragment (protocol.py): packets become values of *)
(* the GATT characteristic, fragments of a packet or bundles of several,    *)
(* and become packets again.                                                *)
(*                                                                         *)
(* A value is its fragment bit, its bundle bit and the bytes after the      *)
(* header; a bundle, which only the button makes, is a list of items of a   *)
(* header, a size and a payload, the first header being that of the value.  *)
(***************************************************************************)
EXTENDS SequencesExt, Integers

CONSTANTS
    Mtus,       \* the MTUs of a connection, 23 and more in the code
    MaxLength,  \* bound on the length of a packet
    MaxPackets  \* bound on the packets of a run

VARIABLES
    mtu,      \* the MTU of this connection
    sent,     \* history: the packets sent
    wire,     \* values under way
    pending,  \* _pending_fragment
    received  \* history: the packets handed to _handle_packet

vars == <<mtu, sent, wire, pending, received>>

\* The bytes of packet k tell packets and places apart.
Packet(k, length) == [i \in 1..length |-> k * (MaxLength + 1) + i]

Lesser(a, b) == IF a < b THEN a ELSE b

Value(body, fragment) == [fragment |-> fragment, bundle |-> FALSE, body |-> body]

\* Mutant: a last fragment that is full announces another.
MutValuesFullLast(packet) ==
    LET size == mtu - 4
        last == (Len(packet) + size - 1) \div size
    IN IF Len(packet) <= size
         THEN <<Value(packet, FALSE)>>
         ELSE [j \in 1..last |->
                 Value(SubSeq(packet, (j - 1) * size + 1, Lesser(j * size, Len(packet))),
                       j * size <= Len(packet))]

\* The values _send_packet writes.
Values(packet) ==
    LET size == mtu - 4
        last == (Len(packet) + size - 1) \div size
    IN IF Len(packet) <= size
         THEN <<Value(packet, FALSE)>>
         ELSE [j \in 1..last |->
                 Value(SubSeq(packet, (j - 1) * size + 1, Lesser(j * size, Len(packet))),
                       j < last)]

\* The items of a bundle, by the place of the size of each.
Items(body) ==
    LET from[pos \in 1..Len(body) + 2] ==
            IF pos > Len(body) \/ pos + body[pos] > Len(body) THEN <<>>
            ELSE <<SubSeq(body, pos + 1, pos + body[pos])>> \o from[pos + body[pos] + 2]
    IN from[1]

\* The packets a value completes when these bytes wait for their end.
Completed(waiting, value) ==
    IF value.body = <<>> \/ value.fragment THEN <<>>
    ELSE IF waiting # <<>> THEN <<waiting \o value.body>>
    ELSE IF value.bundle THEN Items(value.body)
    ELSE <<value.body>>

\* The bytes that wait after a value.
Waiting(waiting, value) ==
    IF value.fragment THEN waiting \o value.body
    ELSE IF value.body = <<>> THEN waiting ELSE <<>>

-----------------------------------------------------------------------------
Init ==
    /\ mtu \in Mtus
    /\ sent = <<>> /\ wire = <<>> /\ pending = <<>> /\ received = <<>>

\* A packet is sent; it has at least its opcode.
SendPacket(length) ==
    LET packet == Packet(Len(sent) + 1, length) IN
    /\ Len(sent) < MaxPackets
    /\ sent' = Append(sent, packet)
    /\ wire' = wire \o Values(packet)
    /\ UNCHANGED <<mtu, pending, received>>

\* The button sends two packets of these lengths in one value.
SendBundle(length1, length2) ==
    LET packet1 == Packet(Len(sent) + 1, length1)
        packet2 == Packet(Len(sent) + 2, length2)
        body == <<length1>> \o packet1 \o <<0, length2>> \o packet2
    IN
    /\ Len(sent) + 2 <= MaxPackets
    /\ Len(body) <= mtu - 4
    /\ sent' = sent \o <<packet1, packet2>>
    /\ wire' = Append(wire, [fragment |-> FALSE, bundle |-> TRUE, body |-> body])
    /\ UNCHANGED <<mtu, pending, received>>

\* _defragment of the next value.
Defragment ==
    /\ wire # <<>> /\ wire' = Tail(wire)
    /\ received' = received \o Completed(pending, Head(wire))
    /\ pending' = Waiting(pending, Head(wire))
    /\ UNCHANGED <<mtu, sent>>

Next ==
    \/ \E length \in 1..MaxLength : SendPacket(length)
    \/ \E length1, length2 \in 1..MaxLength : SendBundle(length1, length2)
    \/ Defragment

Spec == Init /\ [][Next]_vars

-----------------------------------------------------------------------------
\* Packets of every length arrive whole and in order, in whatever values they
\* travel, no value is longer than a GATT write of the connection may be, and no
\* bytes are left in the buffer for the next packet.
PacketsSurvive ==
    /\ \A i \in DOMAIN wire : 1 + Len(wire[i].body) <= mtu - 3
    /\ IsPrefix(received, sent)
    /\ wire = <<>> => received = sent /\ pending = <<>>
=============================================================================
