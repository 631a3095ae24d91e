---------------------------- MODULE ChaskeyRounds ----------------------------
(***************************************************************************)
(* The permutation and the subkeys of Chaskey as protocol.py computes them, *)
(* against their textbook definitions, on words of WordBits bits instead of *)
(* 32.  The code keeps the third word rotated by half a word between        *)
(* rounds; the textbook rotates it at the end of each.                      *)
(***************************************************************************)
EXTENDS Naturals

CONSTANTS
    WordBits,  \* bits of a word, an even number
    Carry,     \* what replaces 0x87 in the subkeys
    Inputs,    \* the words an input is made of
    Rounds     \* rounds of the permutation

VARIABLES
    v,      \* the local variables v0 to v3 of _chaskey_permute
    text,   \* the four words of the textbook
    round   \* rounds done

vars == <<v, text, round>>

\* The powers of two.
Pow2[n \in 0..WordBits] == IF n = 0 THEN 1 ELSE 2 * Pow2[n - 1]

Modulus == Pow2[WordBits]
Index == 0..3   \* of the words of a block
BitOf(n, i) == (n \div Pow2[i]) % 2

\* Exclusive or, as a table.
XorTable == [a \in 0..(Modulus - 1) |-> [b \in 0..(Modulus - 1) |->
    LET Low[i \in 0..WordBits] ==
            IF i = 0 THEN 0
            ELSE Low[i - 1] + Pow2[i - 1] * ((BitOf(a, i - 1) + BitOf(b, i - 1)) % 2)
    IN Low[WordBits]]]
Xor(a, b) == XorTable[a][b]

_u32(n) == n % Modulus

\* A rotation of a short word goes round it as often as need be.
_rol32(n, bits) ==
    LET b == bits % WordBits IN _u32(n * Pow2[b]) + n \div Pow2[WordBits - b]

\* The rotation by 16, half a word.
Swap(n) == _rol32(n, WordBits \div 2)

-----------------------------------------------------------------------------
\* The assignment before the loop of _chaskey_permute and again after it.
Rotated(w) == [w EXCEPT ![2] = Swap(@)]

\* Mutant: the third word is added as it is kept.
MutRoundUnswapped(w) ==
    LET v0 == _u32(w[0] + w[1])
        v1 == Xor(v0, _rol32(w[1], 5))
        v2 == _u32(w[3] + w[2])
        v3 == Xor(v2, _rol32(w[3], 8))
        v2x == _u32(v2 + v1)
        v0x == _u32(v3 + Swap(v0))
    IN [i \in Index |-> <<v0x, Xor(v2x, _rol32(v1, 7)), v2x, Xor(v0x, _rol32(v3, 13))>>[i + 1]]

\* One turn of the loop.
Round(w) ==
    LET v0 == _u32(w[0] + w[1])
        v1 == Xor(v0, _rol32(w[1], 5))
        v2 == _u32(w[3] + Swap(w[2]))
        v3 == Xor(v2, _rol32(w[3], 8))
        v2x == _u32(v2 + v1)
        v0x == _u32(v3 + Swap(v0))
    IN [i \in Index |-> <<v0x, Xor(v2x, _rol32(v1, 7)), v2x, Xor(v0x, _rol32(v3, 13))>>[i + 1]]

\* Mutant: no carry between words.
MutSubkeyNoCarry(w) ==
    [i \in Index |->
        IF i = 0 THEN Xor(_u32(w[0] * 2), IF BitOf(w[3], WordBits - 1) = 1 THEN Carry ELSE 0)
        ELSE _u32(w[i] * 2)]

\* The next words of chaskey_subkeys, from the last four.
Subkey(w) ==
    [i \in Index |->
        IF i = 0 THEN Xor(_u32(w[0] * 2), IF BitOf(w[3], WordBits - 1) = 1 THEN Carry ELSE 0)
        ELSE _u32(w[i] * 2) + BitOf(w[i - 1], WordBits - 1)]

-----------------------------------------------------------------------------
\* The textbook: a round is two half rounds of two additions each, after each
\* of which a word is rotated and the sum added to it.
Half(w, a, b) ==
    LET x == _u32(w[0] + w[1])
        y == _u32(w[3] + w[2])
    IN [i \in Index |-> <<x, Xor(x, _rol32(w[1], a)), y, Xor(y, _rol32(w[3], b))>>[i + 1]]

\* The second half round pairs the words the other way and swaps two of them.
TextRound(w) ==
    LET h == Half(w, 5, 8)
        g == Half([i \in Index |-> <<h[2], h[1], Swap(h[0]), h[3]>>[i + 1]], 7, 13)
    IN [i \in Index |-> <<g[2], g[1], Swap(g[0]), g[3]>>[i + 1]]

\* A block as a number of four words.
Whole(w) == w[0] + Modulus * (w[1] + Modulus * (w[2] + Modulus * w[3]))

Init ==
    /\ text \in [Index -> Inputs]
    /\ v = Rotated(text)
    /\ round = 0

Permute ==
    /\ round < Rounds
    /\ v' = Round(v) /\ text' = TextRound(text)
    /\ round' = round + 1

Next == Permute

Spec == Init /\ [][Next]_vars

-----------------------------------------------------------------------------
\* After any number of rounds the code's words, rotated for the last time, are
\* those of the textbook: _chaskey_permute may stop after 16, or 8, or any.
RoundsAgree == Rotated(v) = text

\* Doubling word by word, with the carries between words, doubles the block as
\* one number, and a bit that falls off the top is replaced by Carry.
SubkeysDouble ==
    LET double == 2 * Whole(v)
        top == Modulus * Modulus * Modulus * Modulus
        kept == double % top
        low == kept % Modulus
    IN Whole(Subkey(v)) =
           (kept - low) + Xor(low, IF double >= top THEN Carry ELSE 0)
=============================================================================
