--------------------------- MODULE ProtocolFunctions ---------------------------
(***************************************************************************)
(* The pure functions of protocol.py: a behaviour exercises one of them,    *)
(* chosen by subject, and leaves the variables of the others at zero.       *)
(***************************************************************************)
EXTENDS Naturals, Sequences

CONSTANTS
    Swipes, Gaps, Uses,                    \* of DuoEvents
    MaxCount,                              \* of ClassicEvents
    ByteValues, BlockSize, Word, MaxSigned,     \* of ChaskeySignature
    WordBits, Carry, Inputs, Rounds,       \* of ChaskeyRounds
    Mtus, MaxLength, MaxPackets            \* of Framing

VARIABLES
    subject,   \* the function of this behaviour
    doing, note, owed, owedAck, result, expected,  \* both event decoders
    use, bCount, bTime, bQueueing, decoder,        \* DuoEvents
    queueing, count,                               \* ClassicEvents
    packet, counter, direction,                    \* ChaskeySignature
    v, text, round,                                \* ChaskeyRounds
    mtu, sent, wire, pending, received             \* Framing

noteVars == <<doing, note, owed, owedAck, result, expected>>
duoVars == <<use, bCount, bTime, bQueueing, decoder>>
classicVars == <<queueing, count>>
signatureVars == <<packet, counter, direction>>
roundVars == <<v, text, round>>
frameVars == <<mtu, sent, wire, pending, received>>
vars == <<subject, noteVars, duoVars, classicVars, signatureVars, roundVars,
          frameVars>>

NoNote == doing = 0 /\ note = 0 /\ owed = 0 /\ owedAck = 0 /\ result = 0 /\ expected = 0
NoDuo == use = 0 /\ bCount = 0 /\ bTime = 0 /\ bQueueing = 0 /\ decoder = 0
NoClassic == queueing = 0 /\ count = 0
NoSignature == packet = 0 /\ counter = 0 /\ direction = 0
NoRound == v = 0 /\ text = 0 /\ round = 0
NoFrame == mtu = 0 /\ sent = 0 /\ wire = 0 /\ pending = 0 /\ received = 0

Duo == INSTANCE DuoEvents
Classic == INSTANCE ClassicEvents WITH Swipes <- {}
Signature == INSTANCE ChaskeySignature WITH MaxLength <- MaxSigned
Permutation == INSTANCE ChaskeyRounds
Frames == INSTANCE Framing

\* A word has two halves; a block of a signature has room for its padding, and an
\* MTU for a header, a byte and the three bytes that GATT takes.
ASSUME Parameters ==
    /\ Swipes \cap {"none", "unrecognized"} = {} /\ Gaps \subseteq Nat
    /\ \A u \in Uses : u.pressed \subseteq {0, 1}
    /\ ByteValues \subseteq Nat /\ BlockSize \in Nat \ {0} /\ Word \in Nat \ {0}
    /\ WordBits \in Nat \ {0} /\ WordBits % 2 = 0
    /\ Carry \in 0..Permutation!Modulus - 1 /\ Inputs \subseteq 0..Permutation!Modulus - 1
    /\ \A m \in Mtus : m \in Nat /\ m > 4
    /\ MaxLength \in Nat

Init ==
    \/ /\ subject = "duo" /\ Duo!Init
       /\ NoClassic /\ NoSignature /\ NoRound /\ NoFrame
    \/ /\ subject = "classic" /\ Classic!Init
       /\ NoDuo /\ NoSignature /\ NoRound /\ NoFrame
    \/ /\ subject = "signature" /\ Signature!Init
       /\ NoNote /\ NoDuo /\ NoClassic /\ NoRound /\ NoFrame
    \/ /\ subject = "permutation" /\ Permutation!Init
       /\ NoNote /\ NoDuo /\ NoClassic /\ NoSignature /\ NoFrame
    \/ /\ subject = "framing" /\ Frames!Init
       /\ NoNote /\ NoDuo /\ NoClassic /\ NoSignature /\ NoRound

Next ==
    \/ /\ subject = "duo" /\ Duo!Next
       /\ UNCHANGED <<subject, classicVars, signatureVars, roundVars, frameVars>>
    \/ /\ subject = "classic" /\ Classic!Next
       /\ UNCHANGED <<subject, duoVars, signatureVars, roundVars, frameVars>>
    \/ /\ subject = "signature" /\ Signature!Next
       /\ UNCHANGED <<subject, noteVars, duoVars, classicVars, roundVars, frameVars>>
    \/ /\ subject = "permutation" /\ Permutation!Next
       /\ UNCHANGED <<subject, noteVars, duoVars, classicVars, signatureVars, frameVars>>
    \/ /\ subject = "framing" /\ Frames!Next
       /\ UNCHANGED <<subject, noteVars, duoVars, classicVars, signatureVars, roundVars>>

Spec == Init /\ [][Next]_vars

-----------------------------------------------------------------------------
\* Each action of the user becomes one event, in whatever notifications its
\* updates travel (decode_button_events and decode_duo_button_events).
OneEventPerAction ==
    /\ subject = "duo" => Duo!OneEventPerAction
    /\ subject = "classic" => Classic!OneEventPerAction

\* A notification asks for an acknowledgement exactly when it ends an action
\* (button_events_need_ack and DuoDecodeResult.needs_ack).
AckEndsAction ==
    /\ subject = "duo" => Duo!AckEndsAction
    /\ subject = "classic" => Classic!AckEndsAction

\* The counters of both buttons that decode_duo_button_events rebuilds from
\* differences, and the count, time and place in the queue of each event, are
\* those of the Duo.
CountsRebuilt == subject = "duo" => Duo!CountsRebuilt

\* chaskey_signature fits one packet, counter and direction only.
SignaturesTellApart == subject = "signature" => Signature!SignaturesTellApart

\* _chaskey_permute computes the textbook permutation for any number of rounds.
RoundsAgree == subject = "permutation" => Permutation!RoundsAgree

\* chaskey_subkeys doubles the key as one number.
SubkeysDouble == subject = "permutation" => Permutation!SubkeysDouble

\* What _send_packet splits, _defragment puts together, and it takes bundles apart.
PacketsSurvive == subject = "framing" => Frames!PacketsSurvive
=============================================================================
