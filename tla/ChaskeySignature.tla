--------------------------- MODULE ChaskeySignature ---------------------------
(***************************************************************************)
(* What chaskey_signature (protocol.py) feeds to its permutation, for two   *)
(* packets that grow byte by byte.                                          *)
(*                                                                         *)
(* The permutation is symbolic: a state of the cipher is the list of what   *)
(* was absorbed between its applications, so two packets get different      *)
(* signatures, up to the truncation to five bytes, exactly when these lists *)
(* differ.  Blocks have BlockSize bytes instead of 16, and words take Word  *)
(* values instead of 2^32.                                                  *)
(***************************************************************************)
EXTENDS Naturals, Sequences

CONSTANTS
    ByteValues, \* the bytes of a packet; 0 and 1 are those of the padding
    BlockSize,  \* bytes absorbed at a time
    Word,       \* the values of a word, 2^32 in the code
    MaxLength   \* bound on the length of a packet

VARIABLES
    packet,   \* per signer: the packet
    counter,  \* per signer: the value of its counter
    direction \* per signer: the end of the connection it signs for

vars == <<packet, counter, direction>>

Signers == {1, 2}
Counters == 0..(Word * Word - 1)

\* The counter goes into two words of the state, the direction into the third.
Start(c, d) == <<c % Word, (c \div Word) % Word, d>>

\* Mutant: the same subkey ends padded and full packets.
MutTailKeySame(p, offset) ==
    [block |-> SubSeq(p, offset + 1, Len(p)) \o <<1>>
                 \o [i \in 1..(BlockSize - 1 - (Len(p) - offset)) |-> 0],
     key |-> "K1"]

\* The last bytes of a packet that does not fill its last block.
Tail_(p, offset) ==
    [block |-> SubSeq(p, offset + 1, Len(p)) \o <<1>>
                 \o [i \in 1..(BlockSize - 1 - (Len(p) - offset)) |-> 0],
     key |-> "K2"]

\* A full block; the subkey is added if it is the last.
Full(p, offset) ==
    [block |-> SubSeq(p, offset + 1, offset + BlockSize),
     key |-> IF Len(p) = offset + BlockSize THEN "K1" ELSE "none"]

\* The loop from its second turn on: the first absorbs nothing.
Turn(p, offset) ==
    IF Len(p) - offset >= BlockSize THEN Full(p, offset) ELSE Tail_(p, offset)

Absorbed(p) ==
    LET from[offset \in 0..Len(p)] ==
            IF Turn(p, offset).key # "none" THEN <<Turn(p, offset)>>
            ELSE <<Turn(p, offset)>> \o from[offset + BlockSize]
    IN from[0]

chaskey_signature(d, c, p) == [start |-> Start(c, d), absorbed |-> Absorbed(p)]

-----------------------------------------------------------------------------
\* An empty packet is refused, so packets start with one byte.
Init ==
    /\ packet \in [Signers -> {<<b>> : b \in ByteValues}]
    /\ counter \in [Signers -> Counters]
    /\ direction \in [Signers -> {0, 1}]

Grow(s, b) ==
    /\ Len(packet[s]) < MaxLength
    /\ packet' = [packet EXCEPT ![s] = Append(@, b)]
    /\ UNCHANGED <<counter, direction>>

Next == \E s \in Signers, b \in ByteValues : Grow(s, b)

Spec == Init /\ [][Next]_vars

-----------------------------------------------------------------------------
\* A signature fits one packet, counter and direction only: not a shorter packet
\* that its padding makes look like the other, nor the same packet sent later or
\* sent back.
SignaturesTellApart ==
    LET signed(s) == <<direction[s], counter[s], packet[s]>> IN
    signed(1) # signed(2) =>
        chaskey_signature(direction[1], counter[1], packet[1])
            # chaskey_signature(direction[2], counter[2], packet[2])
=============================================================================
