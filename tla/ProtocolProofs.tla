---------------------------- MODULE ProtocolProofs ----------------------------
(***************************************************************************)
(* Proofs, for any parameters that the assumption of ProtocolFunctions     *)
(* admits, about the packets of protocol.py: what _send_packet splits and  *)
(* a bundle holds is put together again, signatures fit one packet only, and*)
(* _chaskey_permute and chaskey_subkeys compute what the textbook says.    *)
(***************************************************************************)
EXTENDS ProtocolFunctions, DataInduction

-----------------------------------------------------------------------------
(* Fragments and bundles *)

\* What packets and values are made of.
Packets == Seq(Nat)
WireValues == [fragment : BOOLEAN, bundle : BOOLEAN, body : Seq(Nat)]

\* Three lists of packets are joined in any order.
LEMMA ThreeJoined ==
  \A r, s, t \in Seq(Packets) : r \o (s \o t) = (r \o s) \o t
BY ConcatAssociative

\* A sequence starts with another.
LEMMA PrefixPlaces ==
  ASSUME NEW S, NEW s \in Seq(S), NEW t \in Seq(S)
  PROVE  Frames!IsPrefix(s, t)
           <=> Len(s) <= Len(t) /\ \A i \in 1..Len(s) : s[i] = t[i]
<1>1. Len(s) \in Nat /\ Len(t) \in Nat
  BY LenProperties
<1>2. CASE Len(s) <= Len(t)
  <2>1. \A i \in 1..Len(s) : s[i] \in S /\ t[i] \in S
    BY <1>1, <1>2, ElementOfSeq
  <2>2. /\ Len(SubSeq(s, 1, Len(s))) = Len(s) /\ Len(SubSeq(t, 1, Len(s))) = Len(s)
        /\ SubSeq(s, 1, Len(s)) \in Seq(S) /\ SubSeq(t, 1, Len(s)) \in Seq(S)
        /\ \A i \in 1..Len(s) : /\ SubSeq(s, 1, Len(s))[i] = s[i]
                                /\ SubSeq(t, 1, Len(s))[i] = t[i]
    BY <1>1, <2>1, SubSeqProperties
  <2>3. SubSeq(s, 1, Len(s)) = SubSeq(t, 1, Len(s)) <=> \A i \in 1..Len(s) : s[i] = t[i]
    BY <1>1, <2>2, SeqEqual
  <2> QED
    BY <1>2, <2>3 DEF Frames!IsPrefix
<1> QED
  BY <1>2 DEF Frames!IsPrefix

\* What is a prefix of a sequence is one of what the sequence becomes.
LEMMA PrefixAppended ==
  ASSUME NEW S, NEW s \in Seq(S), NEW t \in Seq(S), NEW u \in Seq(S),
         Frames!IsPrefix(s, t)
  PROVE  Frames!IsPrefix(s, t \o u)
<1>1. Len(s) \in Nat /\ Len(t) \in Nat /\ Len(u) \in Nat
  BY LenProperties
<1>2. Len(s) <= Len(t) /\ \A i \in 1..Len(s) : s[i] = t[i]
  BY PrefixPlaces
<1>3. /\ t \o u \in Seq(S) /\ Len(t \o u) = Len(t) + Len(u)
      /\ \A i \in 1..Len(t) + Len(u) :
            (t \o u)[i] = IF i <= Len(t) THEN t[i] ELSE u[i - Len(t)]
  BY ConcatProperties
<1>4. Len(s) <= Len(t \o u)
  BY <1>1, <1>2, <1>3
<1>5. ASSUME NEW i \in 1..Len(s) PROVE s[i] = (t \o u)[i]
  <2>1. i \in 1..Len(t) + Len(u) /\ i <= Len(t)
    BY <1>1, <1>2
  <2> QED
    BY <1>2, <1>3, <2>1
<1> QED
  BY <1>3, <1>4, <1>5, PrefixPlaces

\* A sequence is a prefix of itself.
LEMMA PrefixItself ==
  ASSUME NEW S, NEW s \in Seq(S)
  PROVE  Frames!IsPrefix(s, s)
<1>1. Len(s) \in Nat
  BY LenProperties
<1> QED
  BY <1>1 DEF Frames!IsPrefix

\* Where a packet of a length is cut into fragments.
Cut(length, size, j) == Frames!Lesser(j * size, length)

\* The cuts go from the start of the packet to its end, and no fragment is longer
\* than the space in a value.
LEMMA Cuts ==
  ASSUME NEW length \in Nat \ {0}, NEW size \in Nat \ {0}
  PROVE  LET last == (length + size - 1) \div size IN
         /\ last \in Nat \ {0}
         /\ Cut(length, size, 0) = 0 /\ Cut(length, size, last) = length
         /\ \A j \in 1..last :
               /\ Cut(length, size, j - 1) \in 0..length - 1
               /\ Cut(length, size, j - 1) = (j - 1) * size
               /\ Cut(length, size, j) \in 1..length
               /\ Cut(length, size, j - 1) < Cut(length, size, j)
               /\ Cut(length, size, j) - Cut(length, size, j - 1) <= size
<1> DEFINE last == (length + size - 1) \div size
<1>1. last \in Nat /\ last * size <= length + size - 1 /\ length + size - 1 < last * size + size
  <2> DEFINE total == length + size - 1
  <2>1. total \in Nat /\ size \in Nat /\ size > 0
    OBVIOUS
  <2> HIDE DEF total
  <2>2. total \div size \in Nat /\ (total \div size) * size <= total
        /\ total < (total \div size) * size + size
    BY <2>1
  <2> QED
    BY <2>2 DEF total
<1> HIDE DEF last
<1>2. last # 0
  <2> SUFFICES ASSUME last = 0 PROVE FALSE
    OBVIOUS
  <2>1. last * size = 0
    OBVIOUS
  <2> QED
    BY <1>1, <2>1
<1>3. Cut(length, size, 0) = 0 /\ Cut(length, size, last) = length
  BY <1>1 DEF Cut, Frames!Lesser
<1>4. ASSUME NEW j \in 1..last
      PROVE  /\ Cut(length, size, j - 1) \in 0..length - 1
             /\ Cut(length, size, j - 1) = (j - 1) * size
             /\ Cut(length, size, j) \in 1..length
             /\ Cut(length, size, j - 1) < Cut(length, size, j)
             /\ Cut(length, size, j) - Cut(length, size, j - 1) <= size
  <2>1. j \in Nat /\ j - 1 \in Nat /\ (last - j) \in Nat
    BY <1>1
  <2>2. (last - j) * size \in Nat /\ (j - 1) * size \in Nat
    BY <2>1
  <2>3. last * size = (last - j) * size + (j - 1) * size + size
    BY <1>1, <2>1
  <2>4. j * size = (j - 1) * size + size
    BY <2>1
  <2> DEFINE a == (last - j) * size
             b == (j - 1) * size
             c == j * size
             d == last * size
  <2>5. b <= length - 1
    <3> HIDE DEF a, b, c, d
    <3>1. a \in Nat /\ b \in Nat /\ d = a + b + size /\ d <= length + size - 1
      BY <1>1, <2>2, <2>3 DEF a, b, d
    <3> QED
      BY <3>1
  <2>6. Cut(length, size, j - 1) = b
    <3>1. b < length /\ b \in Nat
      BY <2>2, <2>5
    <3> HIDE DEF b
    <3> QED
      BY <3>1 DEF Cut, Frames!Lesser, b
  <2>7. Cut(length, size, j) = IF c < length THEN c ELSE length
    BY DEF Cut, Frames!Lesser
  <2>8. b \in Nat /\ c = b + size
    BY <2>2, <2>4
  <2> HIDE DEF a, b, c, d
  <2>9. Cut(length, size, j - 1) = (j - 1) * size
    BY <2>6 DEF b
  <2> QED
    BY <2>5, <2>6, <2>7, <2>8, <2>9
<1> QED
  BY <1>1, <1>2, <1>3, <1>4 DEF last

\* A packet is its first bytes followed by the next ones.
LEMMA Joined ==
  ASSUME NEW p \in Packets, NEW a \in 0..Len(p), NEW z \in a..Len(p)
  PROVE  /\ SubSeq(p, 1, a) \in Packets /\ SubSeq(p, a + 1, z) \in Packets
         /\ Len(SubSeq(p, a + 1, z)) = z - a
         /\ Len(SubSeq(p, 1, a)) = a
         /\ SubSeq(p, 1, a) \o SubSeq(p, a + 1, z) = SubSeq(p, 1, z)
         /\ SubSeq(p, 1, Len(p)) = p
<1>1. Len(p) \in Nat /\ a \in Nat /\ z \in Nat /\ a <= z /\ z <= Len(p)
  BY LenProperties DEF Packets
<1>2. \A i \in 1..Len(p) : p[i] \in Nat
  BY ElementOfSeq DEF Packets
<1> DEFINE l == SubSeq(p, 1, a)
           m == SubSeq(p, a + 1, z)
           r == SubSeq(p, 1, z)
<1>3. l \in Seq(Nat) /\ Len(l) = a /\ \A i \in 1..a : l[i] = p[i]
  <2>1. \A i \in 1..a : p[i] \in Nat
    BY <1>1, <1>2
  <2>2. /\ SubSeq(p, 1, a) \in Seq(Nat)
        /\ Len(SubSeq(p, 1, a)) = IF 1 <= a THEN a - 1 + 1 ELSE 0
        /\ \A i \in 1..a - 1 + 1 : SubSeq(p, 1, a)[i] = p[1 + i - 1]
    BY <1>1, <2>1, SubSeqProperties
  <2> QED
    BY <1>1, <2>2
<1>4. r \in Seq(Nat) /\ Len(r) = z /\ \A i \in 1..z : r[i] = p[i]
  <2>1. \A i \in 1..z : p[i] \in Nat
    BY <1>1, <1>2
  <2>2. /\ SubSeq(p, 1, z) \in Seq(Nat)
        /\ Len(SubSeq(p, 1, z)) = IF 1 <= z THEN z - 1 + 1 ELSE 0
        /\ \A i \in 1..z - 1 + 1 : SubSeq(p, 1, z)[i] = p[1 + i - 1]
    BY <1>1, <2>1, SubSeqProperties
  <2> QED
    BY <1>1, <2>2
<1>5. m \in Seq(Nat) /\ Len(m) = z - a /\ \A i \in 1..z - a : m[i] = p[a + i]
  <2>1. \A i \in a + 1..z : p[i] \in Nat
    BY <1>1, <1>2
  <2>2. /\ SubSeq(p, a + 1, z) \in Seq(Nat)
        /\ Len(SubSeq(p, a + 1, z)) = IF a + 1 <= z THEN z - (a + 1) + 1 ELSE 0
        /\ \A i \in 1..z - (a + 1) + 1 : SubSeq(p, a + 1, z)[i] = p[(a + 1) + i - 1]
    BY <1>1, <2>1, SubSeqProperties
  <2> QED
    BY <1>1, <2>2
<1> HIDE DEF l, m, r
<1>6. l \o m = r
  <2>1. /\ l \o m \in Seq(Nat) /\ Len(l \o m) = Len(l) + Len(m)
        /\ \A i \in 1..Len(l) + Len(m) :
              (l \o m)[i] = IF i <= Len(l) THEN l[i] ELSE m[i - Len(l)]
    BY <1>3, <1>5, ConcatProperties
  <2>2. Len(l \o m) = z
    BY <1>1, <1>3, <1>5, <2>1
  <2>3. ASSUME NEW i \in 1..z PROVE (l \o m)[i] = r[i]
    <3>1. CASE i <= a
      <4>1. i \in 1..a /\ i \in 1..Len(l) + Len(m) /\ i <= Len(l)
        BY <1>1, <1>3, <1>5, <3>1
      <4>2. (l \o m)[i] = l[i]
        BY <2>1, <4>1
      <4> QED
        BY <1>3, <1>4, <4>1, <4>2, Zenon
    <3>2. CASE ~ (i <= a)
      <4>1. i - a \in 1..z - a /\ i \in 1..Len(l) + Len(m) /\ a + (i - a) = i
        BY <1>1, <1>3, <1>5, <3>2
      <4>2. (l \o m)[i] = m[i - Len(l)]
        BY <1>3, <2>1, <3>2, <4>1
      <4>3. m[i - a] = p[a + (i - a)]
        BY <1>5, <4>1
      <4>4. r[i] = p[i]
        BY <1>4
      <4> QED
        BY <1>3, <4>1, <4>2, <4>3, <4>4
    <3> QED
      BY <3>1, <3>2
  <2> QED
    BY <1>4, <2>1, <2>2, <2>3, SeqEqual
<1>7. SubSeq(p, 1, Len(p)) = p
  BY SubSeqFull DEF Packets
<1> QED
  BY <1>3, <1>4, <1>5, <1>6, <1>7 DEF l, m, r, Packets

\* What _defragment makes of the values under way, from the packets it has handed on
\* and the bytes that wait: the packets and the bytes after each value, up to all
\* the packets and no byte.
Run(w, taken, waiting, all, n, b) ==
    /\ n \in [0..Len(w) -> Seq(Packets)] /\ b \in [0..Len(w) -> Packets]
    /\ n[0] = taken /\ b[0] = waiting /\ n[Len(w)] = all /\ b[Len(w)] = <<>>
    /\ \A i \in 1..Len(w) : /\ Frames!Completed(b[i - 1], w[i]) \in Seq(Packets)
                            /\ n[i] = n[i - 1] \o Frames!Completed(b[i - 1], w[i])
                            /\ b[i] = Frames!Waiting(b[i - 1], w[i])
    /\ \A i \in 0..Len(w) : Frames!IsPrefix(n[i], all)

\* A prefix stays one behind the same packets.
LEMMA PrefixBehind ==
  ASSUME NEW S, NEW r \in Seq(S), NEW s \in Seq(S), NEW t \in Seq(S),
         Frames!IsPrefix(s, t)
  PROVE  Frames!IsPrefix(r \o s, r \o t)
<1>1. Len(r) \in Nat /\ Len(s) \in Nat /\ Len(t) \in Nat
  BY LenProperties
<1>2. Len(s) <= Len(t) /\ \A i \in 1..Len(s) : s[i] = t[i]
  BY PrefixPlaces
<1>3. /\ r \o s \in Seq(S) /\ Len(r \o s) = Len(r) + Len(s)
      /\ \A i \in 1..Len(r) + Len(s) :
            (r \o s)[i] = IF i <= Len(r) THEN r[i] ELSE s[i - Len(r)]
  BY ConcatProperties
<1>4. /\ r \o t \in Seq(S) /\ Len(r \o t) = Len(r) + Len(t)
      /\ \A i \in 1..Len(r) + Len(t) :
            (r \o t)[i] = IF i <= Len(r) THEN r[i] ELSE t[i - Len(r)]
  BY ConcatProperties
<1>5. Len(r \o s) <= Len(r \o t)
  BY <1>1, <1>2, <1>3, <1>4
<1>6. ASSUME NEW i \in 1..Len(r) + Len(s) PROVE (r \o s)[i] = (r \o t)[i]
  <2>1. i \in 1..Len(r) + Len(t)
    BY <1>1, <1>2
  <2>2. CASE i <= Len(r)
    BY <1>3, <1>4, <2>1, <2>2
  <2>3. CASE ~ (i <= Len(r))
    <3>1. i - Len(r) \in 1..Len(s)
      BY <1>1, <2>3
    <3> QED
      BY <1>2, <1>3, <1>4, <2>1, <2>3, <3>1
  <2> QED
    BY <2>2, <2>3
<1> QED
  BY <1>3, <1>4, <1>5, <1>6, PrefixPlaces

\* Values that become packets of their own may follow others.
LEMMA RunExtended ==
  ASSUME NEW w \in Seq(WireValues), NEW taken, NEW waiting, NEW all \in Seq(Packets),
         NEW n, NEW b, Run(w, taken, waiting, all, n, b),
         NEW x \in Seq(WireValues), NEW more \in Seq(Packets),
         NEW m, NEW c, Run(x, <<>>, <<>>, more, m, c)
  PROVE  \E f, g : Run(w \o x, taken, waiting, all \o more, f, g)
<1> DEFINE k == Len(w)
           l == Len(x)
           y == w \o x
           total == all \o more
           f == [i \in 0..k + l |-> IF i <= k THEN n[i] ELSE all \o m[i - k]]
           g == [i \in 0..k + l |-> IF i <= k THEN b[i] ELSE c[i - k]]
<1>1. k \in Nat /\ l \in Nat /\ total \in Seq(Packets)
  BY LenProperties, ConcatProperties
<1>2. /\ Len(y) = k + l
      /\ \A i \in 1..k : y[i] = w[i]
      /\ \A i \in k + 1..k + l : y[i] = x[i - k]
  <2>1. Len(y) = k + l /\ \A i \in 1..k + l : y[i] = IF i <= k THEN w[i] ELSE x[i - k]
    BY ConcatProperties
  <2> HIDE DEF k, l, y
  <2> QED
    BY <1>1, <2>1
<1>3. /\ n \in [0..k -> Seq(Packets)] /\ b \in [0..k -> Packets]
      /\ n[0] = taken /\ b[0] = waiting /\ n[k] = all /\ b[k] = <<>>
      /\ \A i \in 1..k : /\ Frames!Completed(b[i - 1], w[i]) \in Seq(Packets)
                         /\ n[i] = n[i - 1] \o Frames!Completed(b[i - 1], w[i])
                         /\ b[i] = Frames!Waiting(b[i - 1], w[i])
      /\ \A i \in 0..k : Frames!IsPrefix(n[i], all)
  BY DEF Run
<1>4. /\ m \in [0..l -> Seq(Packets)] /\ c \in [0..l -> Packets]
      /\ m[0] = <<>> /\ c[0] = <<>> /\ m[l] = more /\ c[l] = <<>>
      /\ \A i \in 1..l : /\ Frames!Completed(c[i - 1], x[i]) \in Seq(Packets)
                         /\ m[i] = m[i - 1] \o Frames!Completed(c[i - 1], x[i])
                         /\ c[i] = Frames!Waiting(c[i - 1], x[i])
      /\ \A i \in 0..l : Frames!IsPrefix(m[i], more)
  BY DEF Run
<1> HIDE DEF k, l, y, total
<1>5. /\ \A i \in 0..k : f[i] = n[i] /\ g[i] = b[i]
      /\ \A j \in 0..l : f[k + j] = all \o m[j] /\ g[k + j] = c[j]
  <2>1. \A i \in 0..k : f[i] = n[i] /\ g[i] = b[i]
    BY <1>1
  <2>2. ASSUME NEW j \in 0..l PROVE f[k + j] = all \o m[j] /\ g[k + j] = c[j]
    <3>1. CASE j = 0
      <4>1. all \o <<>> = all
        BY ConcatEmptySeq
      <4>2. k + j = k /\ k \in 0..k
        BY <1>1, <3>1
      <4> QED
        BY <1>3, <1>4, <2>1, <3>1, <4>1, <4>2
    <3>2. CASE j # 0
      <4>1. k + j \in 0..k + l /\ ~ (k + j <= k) /\ (k + j) - k = j
        BY <1>1, <3>2
      <4> QED
        BY <4>1
    <3> QED
      BY <3>1, <3>2
  <2> QED
    BY <2>1, <2>2
<1>6. \A i \in 0..k + l : i \in 0..k \/ \E j \in 1..l : i = k + j
  <2>1. ASSUME NEW i \in 0..k + l, i \notin 0..k PROVE i - k \in 1..l /\ i = k + (i - k)
    BY <1>1, <2>1
  <2> QED
    BY <2>1
<1>7. f \in [0..k + l -> Seq(Packets)] /\ g \in [0..k + l -> Packets]
  <2>1. ASSUME NEW i \in 0..k + l PROVE f[i] \in Seq(Packets) /\ g[i] \in Packets
    <3>1. CASE i \in 0..k
      BY <1>3, <1>5, <3>1
    <3>2. ASSUME NEW j \in 1..l, i = k + j PROVE f[i] \in Seq(Packets) /\ g[i] \in Packets
      <4>1. j \in 0..l /\ m[j] \in Seq(Packets) /\ c[j] \in Packets
        BY <1>1, <1>4
      <4>2. all \o m[j] \in Seq(Packets)
        BY <4>1, ConcatProperties
      <4> QED
        BY <1>5, <3>2, <4>1, <4>2
    <3> QED
      BY <1>6, <3>1, <3>2
  <2> QED
    BY <2>1
<1> HIDE DEF f, g
<1>8. f[0] = taken /\ g[0] = waiting /\ f[k + l] = total /\ g[k + l] = <<>>
  <2>1. 0 \in 0..k /\ l \in 0..l
    BY <1>1
  <2> QED
    BY <1>3, <1>4, <1>5, <2>1 DEF total
<1>9. ASSUME NEW i \in 1..k + l
      PROVE  /\ Frames!Completed(g[i - 1], y[i]) \in Seq(Packets)
             /\ f[i] = f[i - 1] \o Frames!Completed(g[i - 1], y[i])
             /\ g[i] = Frames!Waiting(g[i - 1], y[i])
  <2>1. CASE i \in 1..k
    <3>1. i \in 0..k /\ i - 1 \in 0..k
      BY <1>1, <2>1
    <3>2. f[i] = n[i] /\ f[i - 1] = n[i - 1] /\ g[i] = b[i] /\ g[i - 1] = b[i - 1]
      BY <1>5, <3>1
    <3> QED
      BY <1>2, <1>3, <2>1, <3>2
  <2>2. CASE i \notin 1..k
    <3> DEFINE j == i - k
    <3>1. j \in 1..l /\ j \in 0..l /\ j - 1 \in 0..l /\ i = k + j /\ i - 1 = k + (j - 1)
          /\ i \in k + 1..k + l
      BY <1>1, <2>2
    <3>2. y[i] = x[j]
      BY <1>2, <3>1
    <3> HIDE DEF j
    <3>3. f[i] = all \o m[j] /\ f[i - 1] = all \o m[j - 1] /\ g[i] = c[j] /\ g[i - 1] = c[j - 1]
      BY <1>5, <3>1
    <3> DEFINE done == Frames!Completed(c[j - 1], x[j])
    <3>4. done \in Seq(Packets) /\ m[j] = m[j - 1] \o done /\ m[j - 1] \in Seq(Packets)
          /\ c[j] = Frames!Waiting(c[j - 1], x[j])
      BY <1>4, <3>1
    <3>5. all \o (m[j - 1] \o done) = (all \o m[j - 1]) \o done
      <4> HIDE DEF done
      <4> QED
        BY <3>4, ThreeJoined, Zenon
    <3> QED
      BY <3>2, <3>3, <3>4, <3>5
  <2> QED
    BY <2>1, <2>2
<1>10. ASSUME NEW i \in 0..k + l PROVE Frames!IsPrefix(f[i], total)
  <2>1. CASE i \in 0..k
    <3>1. f[i] = n[i] /\ n[i] \in Seq(Packets) /\ Frames!IsPrefix(n[i], all)
      BY <1>3, <1>5, <2>1
    <3> QED
      BY <3>1, PrefixAppended DEF total
  <2>2. ASSUME NEW j \in 1..l, i = k + j PROVE Frames!IsPrefix(f[i], total)
    <3>1. j \in 0..l
      BY <1>1
    <3>2. f[i] = all \o m[j] /\ m[j] \in Seq(Packets) /\ Frames!IsPrefix(m[j], more)
      BY <1>4, <1>5, <2>2, <3>1
    <3> QED
      BY <3>2, PrefixBehind DEF total
  <2> QED
    BY <1>6, <2>1, <2>2
<1>11. Run(y, taken, waiting, total, f, g)
  BY <1>2, <1>7, <1>8, <1>9, <1>10 DEF Run
<1> QED
  BY <1>11 DEF y, total

\* The fragments of a packet become the packet, none is longer than the MTU allows,
\* and nothing waits after the last.
LEMMA Fragments ==
  ASSUME mtu \in Nat, mtu > 4, NEW p \in Packets, p # <<>>
  PROVE  LET x == Frames!Values(p) IN
         /\ x \in Seq(WireValues)
         /\ \A i \in 1..Len(x) : 1 + Len(x[i].body) <= mtu - 3
         /\ \E m, c : Run(x, <<>>, <<>>, <<p>>, m, c)
<1> DEFINE size == mtu - 4
           length == Len(p)
           last == (length + size - 1) \div size
           x == Frames!Values(p)
<1>1. length \in Nat \ {0} /\ size \in Nat \ {0} /\ mtu - 3 = size + 1
  BY LenProperties, EmptySeq DEF Packets
<1>2. <<p>> \in Seq(Packets) /\ Len(<<p>>) = 1 /\ <<>> \in Seq(Packets) /\ <<>> \in Packets
  BY DEF Packets
<1>3. /\ Frames!IsPrefix(<<p>>, <<p>>) /\ Frames!IsPrefix(<<>>, <<p>>)
      /\ <<>> \o <<p>> = <<p>> /\ <<>> \o <<>> = <<>>
  <2>1. Frames!IsPrefix(<<p>>, <<p>>)
    BY <1>2, PrefixItself
  <2>2. Frames!IsPrefix(<<>>, <<p>>)
    <3>1. SubSeq(<<>>, 1, 0) = <<>> /\ SubSeq(<<p>>, 1, 0) = <<>>
      BY SubSeqEmpty
    <3>2. Len(<<>>) = 0 /\ 0 <= Len(<<p>>)
      OBVIOUS
    <3> QED
      BY <3>1, <3>2 DEF Frames!IsPrefix
  <2>3. <<>> \o <<p>> = <<p>> /\ <<>> \o <<>> = <<>>
    BY <1>2, ConcatEmptySeq
  <2> QED
    BY <2>1, <2>2, <2>3
<1>4. CASE length <= size
  <2> DEFINE value == Frames!Value(p, FALSE)
             m == [i \in 0..1 |-> IF i = 1 THEN <<p>> ELSE <<>>]
             c == [i \in 0..1 |-> <<>>]
  <2>1. x = <<value>>
    BY <1>4 DEF Frames!Values
  <2>2. value.fragment = FALSE /\ value.bundle = FALSE /\ value.body = p
        /\ value \in WireValues
    BY DEF Frames!Value, WireValues, Packets
  <2>3. Frames!Completed(<<>>, value) = <<p>> /\ Frames!Waiting(<<>>, value) = <<>>
    BY <2>2 DEF Frames!Completed, Frames!Waiting
  <2> HIDE DEF value
  <2>4. x \in Seq(WireValues) /\ Len(x) = 1 /\ x[1] = value
    BY <2>1, <2>2
  <2>5. /\ m \in [0..1 -> Seq(Packets)] /\ c \in [0..1 -> Packets]
        /\ m[0] = <<>> /\ c[0] = <<>> /\ m[1] = <<p>> /\ c[1] = <<>>
    BY <1>2
  <2> HIDE DEF x, m, c
  <2>6. \A i \in 1..1 : i = 1 /\ i - 1 = 0
    OBVIOUS
  <2>7. \A i \in 0..1 : i = 0 \/ i = 1
    OBVIOUS
  <2>8. \A i \in 1..1 : /\ Frames!Completed(c[i - 1], x[i]) \in Seq(Packets)
                        /\ m[i] = m[i - 1] \o Frames!Completed(c[i - 1], x[i])
                        /\ c[i] = Frames!Waiting(c[i - 1], x[i])
    BY <1>2, <1>3, <2>3, <2>4, <2>5, <2>6
  <2>9. \A i \in 0..1 : Frames!IsPrefix(m[i], <<p>>)
    BY <1>3, <2>5, <2>7
  <2>10. Run(x, <<>>, <<>>, <<p>>, m, c)
    BY <2>4, <2>5, <2>8, <2>9 DEF Run
  <2>11. \A i \in 1..Len(x) : 1 + Len(x[i].body) <= mtu - 3
    BY <1>1, <1>4, <2>2, <2>4, <2>6
  <2> QED
    BY <2>4, <2>10, <2>11 DEF x
<1>5. CASE ~ (length <= size)
  <2> DEFINE cut(j) == Cut(length, size, j)
             m == [i \in 0..last |-> IF i = last THEN <<p>> ELSE <<>>]
             c == [i \in 0..last |-> IF i = last THEN <<>> ELSE SubSeq(p, 1, cut(i))]
  <2>1. /\ last \in Nat \ {0} /\ cut(0) = 0 /\ cut(last) = length
        /\ \A j \in 1..last :
              /\ cut(j - 1) \in 0..length - 1 /\ cut(j - 1) = (j - 1) * size
              /\ cut(j) \in 1..length
              /\ cut(j - 1) < cut(j) /\ cut(j) - cut(j - 1) <= size
    BY <1>1, Cuts
  <2>2. x = [j \in 1..last |->
               Frames!Value(SubSeq(p, (j - 1) * size + 1, Frames!Lesser(j * size, length)),
                            j < last)]
    BY <1>5 DEF Frames!Values
  <2> HIDE DEF last, x
  <2>3. ASSUME NEW j \in 1..last
        PROVE  x[j] = Frames!Value(SubSeq(p, cut(j - 1) + 1, cut(j)), j < last)
    BY <2>1, <2>2 DEF Cut
  <2> HIDE DEF cut
  <2>4. ASSUME NEW j \in 1..last
        PROVE  /\ (j # last => x[j].fragment = TRUE) /\ (j = last => x[j].fragment = FALSE)
               /\ x[j].bundle = FALSE
               /\ x[j].body = SubSeq(p, cut(j - 1) + 1, cut(j))
               /\ x[j] \in WireValues /\ x[j].body # <<>> /\ 1 + Len(x[j].body) <= mtu - 3
               /\ SubSeq(p, 1, cut(j - 1)) \in Packets
               /\ Len(SubSeq(p, 1, cut(j - 1))) = cut(j - 1)
               /\ SubSeq(p, 1, cut(j - 1)) \o x[j].body = SubSeq(p, 1, cut(j))
    <3> DEFINE part == SubSeq(p, cut(j - 1) + 1, cut(j))
    <3>1. cut(j - 1) \in 0..Len(p) /\ cut(j) \in cut(j - 1)..Len(p)
          /\ cut(j) - cut(j - 1) \in 1..size
      <4>1. /\ cut(j - 1) \in 0..length - 1 /\ cut(j) \in 1..length
            /\ cut(j - 1) < cut(j) /\ cut(j) - cut(j - 1) <= size
        BY <2>1
      <4>2. \A a \in 0..length - 1, z \in 1..length :
                a < z /\ z - a <= size => /\ a \in 0..length /\ z \in a..length
                                          /\ z - a \in 1..size
        BY <1>1
      <4> QED
        BY <1>1, <4>1, <4>2, Zenon
    <3>2. /\ part \in Packets /\ Len(part) = cut(j) - cut(j - 1)
          /\ SubSeq(p, 1, cut(j - 1)) \in Packets
          /\ Len(SubSeq(p, 1, cut(j - 1))) = cut(j - 1)
          /\ SubSeq(p, 1, cut(j - 1)) \o part = SubSeq(p, 1, cut(j))
      BY <3>1, Joined
    <3> HIDE DEF part
    <3>3. /\ (j # last => x[j].fragment = TRUE) /\ (j = last => x[j].fragment = FALSE)
          /\ x[j].bundle = FALSE /\ x[j].body = part
          /\ x[j] \in [fragment : BOOLEAN, bundle : BOOLEAN, body : {part}]
      <4> DEFINE more == j < last
      <4>1. x[j] = [fragment |-> more, bundle |-> FALSE, body |-> part]
        BY <2>3 DEF Frames!Value, part
      <4>2. more \in BOOLEAN /\ (j # last => more = TRUE) /\ (j = last => more = FALSE)
        BY <2>1
      <4> HIDE DEF more
      <4> QED
        BY <4>1, <4>2
    <3>4. x[j] \in WireValues
      BY <3>2, <3>3 DEF WireValues, Packets
    <3>5. part # <<>> /\ 1 + Len(part) <= mtu - 3
      BY <1>1, <3>1, <3>2
    <3> QED
      BY <3>2, <3>3, <3>4, <3>5 DEF part
  <2>5. x \in Seq(WireValues) /\ Len(x) = last
    <3>1. \A j \in 1..last : x[j] \in WireValues
      BY <2>4
    <3>2. x \in [1..last -> WireValues]
      BY <2>2, <3>1
    <3> QED
      BY <2>1, <3>2
  <2>6. ASSUME NEW i \in 0..last
        PROVE  /\ m[i] = IF i = last THEN <<p>> ELSE <<>>
               /\ c[i] = IF i = last THEN <<>> ELSE SubSeq(p, 1, cut(i))
               /\ m[i] \in Seq(Packets) /\ c[i] \in Packets
    <3>1. i # last => SubSeq(p, 1, cut(i)) \in Packets
      <4>1. i # last => i + 1 \in 1..last /\ (i + 1) - 1 = i
        BY <2>1
      <4> QED
        BY <2>4, <4>1
    <3> QED
      BY <1>2, <3>1
  <2>7. /\ m \in [0..last -> Seq(Packets)] /\ c \in [0..last -> Packets]
    BY <2>6
  <2> HIDE DEF m, c
  <2>8. m[0] = <<>> /\ c[0] = <<>> /\ m[last] = <<p>> /\ c[last] = <<>>
    <3>1. 0 \in 0..last /\ last \in 0..last /\ 0 # last /\ 0 + 1 \in 1..last
      BY <2>1
    <3>2. SubSeq(p, 1, cut(0)) = <<>>
      BY <2>1, SubSeqEmpty
    <3> QED
      BY <2>6, <3>1, <3>2
  <2>9. ASSUME NEW i \in 1..last
        PROVE  /\ Frames!Completed(c[i - 1], x[i]) = IF i = last THEN <<p>> ELSE <<>>
               /\ c[i] = Frames!Waiting(c[i - 1], x[i])
    <3>1. i \in 0..last /\ i - 1 \in 0..last /\ i - 1 # last
      BY <2>1
    <3>2. c[i - 1] = SubSeq(p, 1, cut(i - 1)) /\ c[i] = IF i = last THEN <<>> ELSE SubSeq(p, 1, cut(i))
      BY <2>6, <3>1
    <3>3. c[i - 1] \o x[i].body = SubSeq(p, 1, cut(i))
      BY <2>4, <3>2
    <3>4. CASE i = last
      <4>1. x[i].fragment = FALSE /\ x[i].body # <<>> /\ x[i].bundle = FALSE
        BY <2>4, <3>4
      <4>2. SubSeq(p, 1, cut(i)) = p
        BY <2>1, <3>4, Joined, SubSeqFull DEF Packets
      <4>3. c[i - 1] = <<>> => x[i].body = p
        <5>1. x[i].body \in Seq(Nat)
          BY <2>4 DEF WireValues
        <5>2. <<>> \o x[i].body = x[i].body
          BY <5>1, ConcatEmptySeq
        <5> QED
          BY <3>3, <4>2, <5>2
      <4> QED
        BY <3>2, <3>3, <3>4, <4>1, <4>2, <4>3 DEF Frames!Completed, Frames!Waiting
    <3>5. CASE i # last
      <4>1. x[i].fragment = TRUE
        BY <2>1, <2>4, <3>5
      <4> QED
        BY <3>2, <3>3, <3>5, <4>1 DEF Frames!Completed, Frames!Waiting
    <3> QED
      BY <3>4, <3>5
  <2>10. ASSUME NEW i \in 1..last
         PROVE  /\ Frames!Completed(c[i - 1], x[i]) \in Seq(Packets)
                /\ m[i] = m[i - 1] \o Frames!Completed(c[i - 1], x[i])
    <3>1. i \in 0..last /\ i - 1 \in 0..last /\ i - 1 # last
      BY <2>1
    <3>2. m[i - 1] = <<>> /\ m[i] = IF i = last THEN <<p>> ELSE <<>>
      BY <2>6, <3>1
    <3> QED
      BY <1>2, <1>3, <2>9, <3>2
  <2>11. \A i \in 0..last : Frames!IsPrefix(m[i], <<p>>)
    BY <1>3, <2>6
  <2>12. Run(x, <<>>, <<>>, <<p>>, m, c)
    BY <2>5, <2>7, <2>8, <2>9, <2>10, <2>11 DEF Run
  <2>13. \A i \in 1..Len(x) : 1 + Len(x[i].body) <= mtu - 3
    BY <2>4, <2>5
  <2> QED
    BY <2>5, <2>12, <2>13 DEF x
<1> QED
  BY <1>4, <1>5

\* What Items reads at a place.
ItemAt(body, f, pos) ==
    IF pos > Len(body) \/ pos + body[pos] > Len(body) THEN <<>>
    ELSE <<SubSeq(body, pos + 1, pos + body[pos])>> \o f[pos + body[pos] + 2]
ItemsRead(body, f) == f = [pos \in 1..Len(body) + 2 |-> ItemAt(body, f, pos)]

\* Reading the items of a bundle ends, and its first place has all of them.
LEMMA ItemsTaken ==
  ASSUME NEW body \in Packets
  PROVE  \E f : /\ \A pos \in 1..Len(body) + 2 : f[pos] = ItemAt(body, f, pos)
                /\ Frames!Items(body) = f[1]
<1> DEFINE D == 1..Len(body) + 2
           more == {pos \in 1..Len(body) : pos + body[pos] <= Len(body)}
           item == [pos \in D |-> IF pos \in more THEN <<SubSeq(body, pos + 1, pos + body[pos])>>
                                  ELSE <<>>]
           next == [pos \in D |-> IF pos \in more THEN pos + body[pos] + 2 ELSE pos]
<1>1. Len(body) \in Nat /\ \A i \in 1..Len(body) : body[i] \in Nat
  BY LenProperties, ElementOfSeq DEF Packets
<1>2. ASSUME NEW o \in D, o \in more
      PROVE  /\ next[o] = o + body[o] + 2 /\ next[o] \in D /\ next[o] > o
             /\ item[o] = <<SubSeq(body, o + 1, o + body[o])>>
  <2>1. o \in 1..Len(body) /\ o + body[o] <= Len(body) /\ body[o] \in Nat
    BY <1>1, <1>2
  <2>2. o + body[o] + 2 \in D /\ o + body[o] + 2 > o
    BY <1>1, <2>1
  <2> QED
    BY <1>2, <2>2
<1>3. D \in SUBSET (0..Len(body) + 2) /\ Len(body) + 2 \in Nat
  BY <1>1
<1>4. ASSUME NEW o \in D
      PROVE  o \in more <=> ~ (o > Len(body) \/ o + body[o] > Len(body))
  <2>1. CASE o > Len(body)
    BY <1>1, <2>1
  <2>2. CASE ~ (o > Len(body))
    <3>1. o \in 1..Len(body)
      BY <1>1, <2>2
    <3> QED
      BY <1>1, <2>2, <3>1
  <2> QED
    BY <2>1, <2>2
<1>5. \A o \in D : o \notin more => item[o] = <<>>
  OBVIOUS
<1> HIDE DEF more, item, next
<1>6. PICK f : IsReading(f, D, more, item, next)
  <2> HIDE DEF D
  <2>1. \A o \in D : o \in more => next[o] \in D /\ next[o] > o
    BY <1>2
  <2> QED
    BY <1>3, <2>1, ReadingExists
<1>7. \A o \in D : f[o] = IF o \in more THEN item[o] \o f[next[o]] ELSE item[o]
  BY <1>6 DEF IsReading
<1>8. f = [pos \in D |-> ItemAt(body, f, pos)]
  <2>1. f = [pos \in D |-> f[pos]]
    BY <1>6 DEF IsReading
  <2>2. ASSUME NEW o \in D PROVE f[o] = ItemAt(body, f, o)
    <3> HIDE DEF D
    <3>1. CASE o \in more
      BY <1>2, <1>4, <1>7, <3>1 DEF ItemAt
    <3>2. CASE o \notin more
      BY <1>4, <1>5, <1>7, <3>2 DEF ItemAt
    <3> QED
      BY <3>1, <3>2
  <2> HIDE DEF D
  <2> QED
    BY <2>1, <2>2
<1>9. \E g : ItemsRead(body, g)
  BY <1>8 DEF ItemsRead
<1> DEFINE g == CHOOSE g : ItemsRead(body, g)
<1>10. ItemsRead(body, g)
  BY <1>9
<1>11. Frames!Items(body) = g[1]
  BY DEF Frames!Items, ItemsRead, ItemAt
<1> HIDE DEF g
<1> QED
  BY <1>10, <1>11 DEF ItemsRead

\* Two packets, one after the other.
LEMMA Pair ==
  ASSUME NEW p \in Packets, NEW q \in Packets
  PROVE  <<p>> \o <<q>> = <<p, q>>
<1>1. <<p>> \in Seq(Packets) /\ Len(<<p>>) = 1 /\ <<q>> \in Seq(Packets) /\ Len(<<q>>) = 1
      /\ <<p, q>> \in Seq(Packets) /\ Len(<<p, q>>) = 2
      /\ <<p>>[1] = p /\ <<q>>[1] = q /\ <<p, q>>[1] = p /\ <<p, q>>[2] = q
  OBVIOUS
<1> DEFINE both == <<p>> \o <<q>>
           pair == <<p, q>>
<1>2. /\ both \in Seq(Packets) /\ Len(both) = Len(<<p>>) + Len(<<q>>)
      /\ \A i \in 1..Len(<<p>>) + Len(<<q>>) :
            both[i] = IF i <= Len(<<p>>) THEN <<p>>[i] ELSE <<q>>[i - Len(<<p>>)]
  BY <1>1, ConcatProperties
<1> HIDE DEF both
<1>3. Len(both) = 2 /\ both[1] = p /\ both[2] = q
  <2>1. 1 \in 1..2 /\ 2 \in 1..2 /\ 2 - 1 = 1
    OBVIOUS
  <2> QED
    BY <1>1, <1>2, <2>1
<1>4. pair \in Seq(Packets) /\ Len(pair) = 2 /\ pair[1] = p /\ pair[2] = q
  BY <1>1
<1> HIDE DEF pair
<1>5. \A i \in 1..2 : i = 1 \/ i = 2
  OBVIOUS
<1>6. both = pair
  BY <1>2, <1>3, <1>4, <1>5, SeqEqual
<1> QED
  BY <1>6 DEF both, pair

\* A bundle of two packets is taken apart into the two packets.
LEMMA BundleTaken ==
  ASSUME NEW p \in Packets, NEW q \in Packets
  PROVE  LET body == <<Len(p)>> \o p \o <<0, Len(q)>> \o q IN
         body \in Packets /\ body # <<>> /\ Frames!Items(body) = <<p, q>>
<1> DEFINE k == Len(p)
           l == Len(q)
           first == <<k>> \o p
           second == first \o <<0, l>>
           body == second \o q
<1>1. k \in Nat /\ l \in Nat /\ p \in Seq(Nat) /\ q \in Seq(Nat)
  BY LenProperties DEF Packets
<1>2. <<k>> \in Seq(Nat) /\ Len(<<k>>) = 1 /\ <<0, l>> \in Seq(Nat) /\ Len(<<0, l>>) = 2
  BY <1>1
<1>3. /\ first \in Seq(Nat) /\ Len(first) = 1 + k /\ first[1] = k
      /\ \A i \in 1..k : first[1 + i] = p[i]
  <2>1. /\ first \in Seq(Nat) /\ Len(first) = Len(<<k>>) + Len(p)
        /\ \A i \in 1..Len(<<k>>) + Len(p) :
              first[i] = IF i <= Len(<<k>>) THEN <<k>>[i] ELSE p[i - Len(<<k>>)]
    BY <1>1, <1>2, ConcatProperties
  <2> HIDE DEF first
  <2>2. \A i \in 1..1 + k : first[i] = IF i <= 1 THEN <<k>>[i] ELSE p[i - 1]
    BY <1>2, <2>1
  <2>3. ASSUME NEW i \in 1..k PROVE first[1 + i] = p[i]
    <3>1. 1 + i \in 1..1 + k /\ ~ (1 + i <= 1) /\ (1 + i) - 1 = i
      BY <1>1
    <3> QED
      BY <2>2, <3>1
  <2>4. 1 \in 1..1 + k
    BY <1>1
  <2>5. first[1] = k
    BY <2>2, <2>4
  <2> QED
    BY <1>2, <2>1, <2>3, <2>5
<1> HIDE DEF first
<1>4. /\ second \in Seq(Nat) /\ Len(second) = k + 3 /\ second[1] = k /\ second[k + 3] = l
      /\ \A i \in 1..k : second[1 + i] = p[i]
  <2>1. /\ second \in Seq(Nat) /\ Len(second) = Len(first) + Len(<<0, l>>)
        /\ \A i \in 1..Len(first) + Len(<<0, l>>) :
              second[i] = IF i <= Len(first) THEN first[i] ELSE <<0, l>>[i - Len(first)]
    BY <1>2, <1>3, ConcatProperties
  <2> HIDE DEF second
  <2>2. \A i \in 1..k + 3 : second[i] = IF i <= 1 + k THEN first[i] ELSE <<0, l>>[i - (1 + k)]
    <3>1. Len(first) = 1 + k /\ Len(<<0, l>>) = 2 /\ (1 + k) + 2 = k + 3
      BY <1>1, <1>2, <1>3
    <3> QED
      BY <2>1, <3>1, Zenon
  <2>3. second[1] = k
    <3>1. 1 \in 1..k + 3 /\ 1 <= 1 + k
      BY <1>1
    <3> QED
      BY <1>3, <2>2, <3>1
  <2>4. second[k + 3] = l
    <3>1. k + 3 \in 1..k + 3 /\ ~ (k + 3 <= 1 + k) /\ (k + 3) - (1 + k) = 2
      BY <1>1
    <3>2. <<0, l>>[2] = l
      OBVIOUS
    <3> QED
      BY <2>2, <3>1, <3>2
  <2>5. ASSUME NEW i \in 1..k PROVE second[1 + i] = p[i]
    <3>1. 1 + i \in 1..k + 3 /\ 1 + i <= 1 + k
      BY <1>1
    <3> QED
      BY <1>3, <2>2, <3>1
  <2> QED
    BY <1>1, <1>2, <1>3, <2>1, <2>3, <2>4, <2>5
<1> HIDE DEF second
<1>5. /\ body \in Seq(Nat) /\ Len(body) = k + l + 3 /\ body[1] = k /\ body[k + 3] = l
      /\ \A i \in 1..k : body[1 + i] = p[i]
      /\ \A i \in 1..l : body[k + 3 + i] = q[i]
  <2>1. /\ body \in Seq(Nat) /\ Len(body) = Len(second) + Len(q)
        /\ \A i \in 1..Len(second) + Len(q) :
              body[i] = IF i <= Len(second) THEN second[i] ELSE q[i - Len(second)]
    BY <1>1, <1>4, ConcatProperties
  <2> HIDE DEF body
  <2>2. \A i \in 1..k + l + 3 : body[i] = IF i <= k + 3 THEN second[i] ELSE q[i - (k + 3)]
    <3>1. Len(second) = k + 3 /\ Len(q) = l /\ Len(second) + Len(q) = k + l + 3
      BY <1>1, <1>4
    <3> HIDE DEF k, l
    <3> QED
      BY <2>1, <3>1
  <2>3. 1 \in 1..k + l + 3 /\ 1 <= k + 3 /\ k + 3 \in 1..k + l + 3
    BY <1>1
  <2>4. ASSUME NEW i \in 1..k PROVE body[1 + i] = p[i]
    <3>1. 1 + i \in 1..k + l + 3 /\ 1 + i <= k + 3
      BY <1>1
    <3> QED
      BY <1>4, <2>2, <3>1
  <2>5. ASSUME NEW i \in 1..l PROVE body[k + 3 + i] = q[i]
    <3>1. /\ k + 3 + i \in 1..k + l + 3 /\ ~ (k + 3 + i <= k + 3)
          /\ (k + 3 + i) - (k + 3) = i
      BY <1>1
    <3> QED
      BY <2>2, <3>1
  <2>6. body[1] = k /\ body[k + 3] = l
    BY <1>4, <2>2, <2>3
  <2> QED
    BY <1>1, <1>4, <2>1, <2>4, <2>5, <2>6
<1> HIDE DEF body
<1>6. body \in Packets /\ body # <<>>
  <2>1. Len(body) # 0
    BY <1>1, <1>5
  <2> QED
    BY <1>5, <2>1 DEF Packets
<1>7. PICK f : /\ \A pos \in 1..Len(body) + 2 : f[pos] = ItemAt(body, f, pos)
               /\ Frames!Items(body) = f[1]
  BY <1>6, ItemsTaken
<1>8. SubSeq(body, 2, 1 + k) = p
  <2>1. \A i \in 2..1 + k : body[i] \in Nat
    <3>1. \A i \in 2..1 + k : i \in 1..Len(body)
      BY <1>1, <1>5
    <3> QED
      BY <1>5, <3>1, ElementOfSeq
  <2>2. /\ SubSeq(body, 2, 1 + k) \in Seq(Nat)
        /\ Len(SubSeq(body, 2, 1 + k)) = IF 2 <= 1 + k THEN (1 + k) - 2 + 1 ELSE 0
        /\ \A i \in 1..(1 + k) - 2 + 1 : SubSeq(body, 2, 1 + k)[i] = body[2 + i - 1]
    BY <1>1, <2>1, SubSeqProperties
  <2> DEFINE r == SubSeq(body, 2, 1 + k)
  <2> HIDE DEF r
  <2>3. r \in Seq(Nat) /\ Len(r) = k
    BY <1>1, <2>2 DEF r
  <2>4. ASSUME NEW i \in 1..k PROVE r[i] = p[i]
    <3>1. i \in 1..(1 + k) - 2 + 1 /\ 2 + i - 1 = 1 + i
      BY <1>1
    <3> QED
      BY <1>5, <2>2, <3>1 DEF r
  <2> QED
    BY <1>1, <2>3, <2>4, SeqEqual DEF r
<1>9. SubSeq(body, k + 4, k + 3 + l) = q
  <2>1. \A i \in k + 4..k + 3 + l : body[i] \in Nat
    <3>1. \A i \in k + 4..k + 3 + l : i \in 1..Len(body)
      BY <1>1, <1>5
    <3> QED
      BY <1>5, <3>1, ElementOfSeq
  <2>2. /\ SubSeq(body, k + 4, k + 3 + l) \in Seq(Nat)
        /\ Len(SubSeq(body, k + 4, k + 3 + l))
             = IF k + 4 <= k + 3 + l THEN (k + 3 + l) - (k + 4) + 1 ELSE 0
        /\ \A i \in 1..(k + 3 + l) - (k + 4) + 1 :
              SubSeq(body, k + 4, k + 3 + l)[i] = body[(k + 4) + i - 1]
    BY <1>1, <2>1, SubSeqProperties
  <2> DEFINE r == SubSeq(body, k + 4, k + 3 + l)
  <2> HIDE DEF r
  <2>3. r \in Seq(Nat) /\ Len(r) = l
    BY <1>1, <2>2 DEF r
  <2>4. ASSUME NEW i \in 1..l PROVE r[i] = q[i]
    <3>1. i \in 1..(k + 3 + l) - (k + 4) + 1 /\ (k + 4) + i - 1 = k + 3 + i
      BY <1>1
    <3> QED
      BY <1>5, <2>2, <3>1 DEF r
  <2> QED
    BY <1>1, <2>3, <2>4, SeqEqual DEF r
<1>10. f[k + l + 5] = <<>>
  <2>1. k + l + 5 \in 1..Len(body) + 2 /\ k + l + 5 > Len(body)
    BY <1>1, <1>5
  <2> QED
    BY <1>7, <2>1 DEF ItemAt
<1>11. f[k + 3] = <<q>>
  <2>1. /\ k + 3 \in 1..Len(body) + 2 /\ ~ (k + 3 > Len(body))
        /\ ~ (k + 3 + l > Len(body)) /\ k + 3 + l + 2 = k + l + 5 /\ k + 3 + 1 = k + 4
    BY <1>1, <1>5
  <2>2. f[k + 3] = <<SubSeq(body, k + 3 + 1, k + 3 + l)>> \o f[k + 3 + l + 2]
    BY <1>5, <1>7, <2>1 DEF ItemAt
  <2>3. <<q>> \o <<>> = <<q>>
    OBVIOUS
  <2> QED
    BY <1>9, <1>10, <2>1, <2>2, <2>3
<1>12. f[1] = <<p, q>>
  <2>1. /\ 1 \in 1..Len(body) + 2 /\ ~ (1 > Len(body)) /\ ~ (1 + k > Len(body))
        /\ 1 + k + 2 = k + 3 /\ 1 + 1 = 2
    BY <1>1, <1>5
  <2>2. f[1] = <<SubSeq(body, 1 + 1, 1 + k)>> \o f[1 + k + 2]
    BY <1>5, <1>7, <2>1 DEF ItemAt
  <2>3. <<p>> \o <<q>> = <<p, q>>
    BY Pair
  <2> QED
    BY <1>8, <1>11, <2>1, <2>2, <2>3
<1> QED
  BY <1>6, <1>7, <1>12 DEF body, second, first

\* The values under way become, with what waits, the packets sent and not yet received.
FramesInv ==
    /\ mtu \in Nat /\ mtu > 4
    /\ sent \in Seq(Packets) /\ received \in Seq(Packets)
    /\ wire \in Seq(WireValues) /\ pending \in Packets
    /\ \A i \in 1..Len(wire) : 1 + Len(wire[i].body) <= mtu - 3
    /\ \E n, b : Run(wire, received, pending, sent, n, b)

\* The values of packets join those under way.
LEMMA ValuesJoin ==
  ASSUME FramesInv, NEW x \in Seq(WireValues), NEW more \in Seq(Packets),
         \A i \in 1..Len(x) : 1 + Len(x[i].body) <= mtu - 3,
         \E m, c : Run(x, <<>>, <<>>, more, m, c),
         mtu' = mtu, received' = received, pending' = pending,
         sent' = sent \o more, wire' = wire \o x
  PROVE  FramesInv'
<1>1. /\ Len(wire) \in Nat /\ Len(x) \in Nat
      /\ Len(wire \o x) = Len(wire) + Len(x) /\ wire \o x \in Seq(WireValues)
      /\ \A i \in 1..Len(wire) + Len(x) :
            (wire \o x)[i] = IF i <= Len(wire) THEN wire[i] ELSE x[i - Len(wire)]
  BY LenProperties, ConcatProperties DEF FramesInv
<1>2. ASSUME NEW i \in 1..Len(wire \o x) PROVE 1 + Len((wire \o x)[i].body) <= mtu - 3
  <2>1. CASE i <= Len(wire)
    <3>1. i \in 1..Len(wire) /\ (wire \o x)[i] = wire[i]
      BY <1>1, <2>1
    <3> QED
      BY <3>1 DEF FramesInv
  <2>2. CASE ~ (i <= Len(wire))
    <3>1. i - Len(wire) \in 1..Len(x) /\ (wire \o x)[i] = x[i - Len(wire)]
      BY <1>1, <2>2
    <3> QED
      BY <3>1
  <2> QED
    BY <2>1, <2>2
<1>3. \E f, g : Run(wire \o x, received, pending, sent \o more, f, g)
  <2>1. PICK n, b : Run(wire, received, pending, sent, n, b)
    BY DEF FramesInv
  <2>2. PICK m, c : Run(x, <<>>, <<>>, more, m, c)
    OBVIOUS
  <2>3. wire \in Seq(WireValues) /\ sent \in Seq(Packets)
    BY DEF FramesInv
  <2> QED
    BY <2>1, <2>2, <2>3, RunExtended
<1>4. \E f, g : Run(wire', received', pending', sent', f, g)
  BY <1>3
<1>5. sent' \in Seq(Packets) /\ wire' \in Seq(WireValues)
  BY <1>1, ConcatProperties DEF FramesInv
<1>6. \A i \in 1..Len(wire') : 1 + Len(wire'[i].body) <= mtu' - 3
  BY <1>2
<1> QED
  BY <1>4, <1>5, <1>6 DEF FramesInv

\* The bytes of a packet.
LEMMA PacketTyped ==
  ASSUME NEW k \in Nat, NEW length \in 1..MaxLength
  PROVE  /\ Frames!Packet(k, length) \in Packets /\ Len(Frames!Packet(k, length)) = length
         /\ Frames!Packet(k, length) # <<>>
<1>1. MaxLength \in Nat /\ length \in Nat \ {0}
  BY Parameters
<1> DEFINE p == [i \in 1..length |-> k * (MaxLength + 1) + i]
<1>2. k * (MaxLength + 1) \in Nat
  BY <1>1
<1>3. p \in [1..length -> Nat]
  BY <1>1, <1>2
<1>4. p \in Seq(Nat) /\ Len(p) = length
  BY <1>1, <1>3
<1>5. p # <<>>
  <2> HIDE DEF p
  <2> QED
    BY <1>1, <1>4
<1> QED
  BY <1>4, <1>5 DEF Frames!Packet, Packets

\* A packet is sent.
LEMMA PacketSent ==
  ASSUME FramesInv, NEW length \in 1..MaxLength, Frames!SendPacket(length)
  PROVE  FramesInv'
<1> DEFINE p == Frames!Packet(Len(sent) + 1, length)
           x == Frames!Values(p)
<1>1. /\ sent' = Append(sent, p) /\ wire' = wire \o x
      /\ UNCHANGED <<mtu, pending, received>>
  BY DEF Frames!SendPacket
<1>2. Len(sent) + 1 \in Nat
  BY LenProperties DEF FramesInv
<1>3. p \in Packets /\ p # <<>>
  BY <1>2, PacketTyped
<1> HIDE DEF p
<1>4. /\ x \in Seq(WireValues)
      /\ \A i \in 1..Len(x) : 1 + Len(x[i].body) <= mtu - 3
      /\ \E m, c : Run(x, <<>>, <<>>, <<p>>, m, c)
  BY <1>3, Fragments DEF FramesInv
<1> HIDE DEF x
<1>5. Append(sent, p) = sent \o <<p>> /\ <<p>> \in Seq(Packets)
  BY <1>3, AppendIsConcat DEF FramesInv
<1> QED
  BY <1>1, <1>4, <1>5, ValuesJoin

\* Two packets are sent in a bundle.
LEMMA BundleSent ==
  ASSUME FramesInv, NEW length1 \in 1..MaxLength, NEW length2 \in 1..MaxLength,
         Frames!SendBundle(length1, length2)
  PROVE  FramesInv'
<1> DEFINE p == Frames!Packet(Len(sent) + 1, length1)
           q == Frames!Packet(Len(sent) + 2, length2)
           body == <<length1>> \o p \o <<0, length2>> \o q
           value == [fragment |-> FALSE, bundle |-> TRUE, body |-> body]
           x == <<value>>
           m == [i \in 0..1 |-> IF i = 1 THEN <<p, q>> ELSE <<>>]
           c == [i \in 0..1 |-> <<>>]
<1>1. /\ sent' = sent \o <<p, q>> /\ wire' = Append(wire, value)
      /\ Len(body) <= mtu - 4
      /\ UNCHANGED <<mtu, pending, received>>
  BY DEF Frames!SendBundle
<1>2. Len(sent) + 1 \in Nat /\ Len(sent) + 2 \in Nat
  BY LenProperties DEF FramesInv
<1>3. p \in Packets /\ q \in Packets /\ Len(p) = length1 /\ Len(q) = length2
  BY <1>2, PacketTyped
<1> HIDE DEF p, q
<1>4. body \in Packets /\ body # <<>> /\ Frames!Items(body) = <<p, q>>
  BY <1>3, BundleTaken
<1> HIDE DEF body
<1>5. /\ value \in WireValues /\ value.fragment = FALSE /\ value.bundle = TRUE
      /\ value.body = body
  BY <1>4 DEF WireValues, Packets
<1>6. Frames!Completed(<<>>, value) = <<p, q>> /\ Frames!Waiting(<<>>, value) = <<>>
  BY <1>4, <1>5 DEF Frames!Completed, Frames!Waiting
<1> HIDE DEF value
<1>7. x \in Seq(WireValues) /\ Len(x) = 1 /\ x[1] = value
  BY <1>5
<1>8. /\ <<p, q>> \in Seq(Packets) /\ <<>> \in Seq(Packets) /\ <<>> \in Packets
      /\ <<>> \o <<p, q>> = <<p, q>>
  BY <1>3, ConcatEmptySeq DEF Packets
<1>9. /\ m \in [0..1 -> Seq(Packets)] /\ c \in [0..1 -> Packets]
      /\ m[0] = <<>> /\ c[0] = <<>> /\ m[1] = <<p, q>> /\ c[1] = <<>>
  BY <1>8
<1>10. /\ \A i \in 1..1 : i = 1 /\ i - 1 = 0
       /\ \A i \in 0..1 : i = 0 \/ i = 1
  OBVIOUS
<1>11. Frames!IsPrefix(<<p, q>>, <<p, q>>) /\ Frames!IsPrefix(<<>>, <<p, q>>)
  <2>1. SubSeq(<<>>, 1, 0) = <<>> /\ SubSeq(<<p, q>>, 1, 0) = <<>>
    BY SubSeqEmpty
  <2>2. Len(<<>>) = 0 /\ 0 <= Len(<<p, q>>)
    OBVIOUS
  <2> QED
    BY <1>8, <2>1, <2>2, PrefixItself DEF Frames!IsPrefix
<1>12. sent \o <<p, q>> \in Seq(Packets) /\ Append(wire, value) = wire \o x
  BY <1>5, <1>8, ConcatProperties, AppendIsConcat DEF FramesInv
<1> HIDE DEF x, m, c
<1>13. \A i \in 1..1 : /\ Frames!Completed(c[i - 1], x[i]) \in Seq(Packets)
                       /\ m[i] = m[i - 1] \o Frames!Completed(c[i - 1], x[i])
                       /\ c[i] = Frames!Waiting(c[i - 1], x[i])
  BY <1>6, <1>7, <1>8, <1>9, <1>10
<1>14. \A i \in 0..1 : Frames!IsPrefix(m[i], <<p, q>>)
  BY <1>9, <1>10, <1>11
<1>15. Run(x, <<>>, <<>>, <<p, q>>, m, c)
  BY <1>7, <1>9, <1>13, <1>14 DEF Run
<1>16. \A i \in 1..Len(x) : 1 + Len(x[i].body) <= mtu - 3
  <2>1. Len(body) \in Nat
    BY <1>4, LenProperties DEF Packets
  <2>2. 1 + Len(body) <= mtu - 3
    BY <1>1, <2>1 DEF FramesInv
  <2> QED
    BY <1>5, <1>7, <1>10, <2>2
<1>17. \E f, g : Run(x, <<>>, <<>>, <<p, q>>, f, g)
  BY <1>15
<1> QED
  BY <1>1, <1>7, <1>8, <1>12, <1>16, <1>17, ValuesJoin

\* The next value is taken.
LEMMA ValueTaken ==
  ASSUME FramesInv, Frames!Defragment
  PROVE  FramesInv'
<1>1. /\ wire # <<>> /\ wire' = Tail(wire)
      /\ received' = received \o Frames!Completed(pending, Head(wire))
      /\ pending' = Frames!Waiting(pending, Head(wire))
      /\ UNCHANGED <<mtu, sent>>
  BY DEF Frames!Defragment
<1> DEFINE k == Len(wire)
           rest == Tail(wire)
<1>2. /\ k \in Nat \ {0} /\ Head(wire) = wire[1] /\ rest \in Seq(WireValues)
      /\ Len(rest) = k - 1 /\ \A i \in 1..k - 1 : rest[i] = wire[i + 1]
  <2>1. wire \in Seq(WireValues) /\ wire # <<>>
    BY <1>1 DEF FramesInv
  <2>2. /\ Tail(wire) \in Seq(WireValues) /\ Len(Tail(wire)) = Len(wire) - 1
        /\ \A i \in 1..Len(Tail(wire)) : Tail(wire)[i] = wire[i + 1]
    BY <2>1, HeadTailProperties
  <2>3. Len(wire) \in Nat \ {0} /\ Head(wire) = wire[1]
    BY <2>1, LenProperties, EmptySeq
  <2> QED
    BY <2>2, <2>3
<1>3. PICK n, b : Run(wire, received, pending, sent, n, b)
  BY DEF FramesInv
<1>4. /\ n \in [0..k -> Seq(Packets)] /\ b \in [0..k -> Packets]
      /\ n[0] = received /\ b[0] = pending /\ n[k] = sent /\ b[k] = <<>>
      /\ \A i \in 1..k : /\ Frames!Completed(b[i - 1], wire[i]) \in Seq(Packets)
                         /\ n[i] = n[i - 1] \o Frames!Completed(b[i - 1], wire[i])
                         /\ b[i] = Frames!Waiting(b[i - 1], wire[i])
      /\ \A i \in 0..k : Frames!IsPrefix(n[i], sent)
  BY <1>3 DEF Run
<1> DEFINE m == [i \in 0..k - 1 |-> n[i + 1]]
           c == [i \in 0..k - 1 |-> b[i + 1]]
<1> HIDE DEF k, rest
<1>5. \A i \in 0..k - 1 : i + 1 \in 0..k
  BY <1>2
<1>6. m \in [0..k - 1 -> Seq(Packets)] /\ c \in [0..k - 1 -> Packets]
  BY <1>4, <1>5
<1>7. /\ \A i \in 0..k - 1 : m[i] = n[i + 1] /\ c[i] = b[i + 1]
  OBVIOUS
<1> HIDE DEF m, c
<1>8. m[0] = received' /\ c[0] = pending' /\ m[k - 1] = sent /\ c[k - 1] = <<>>
  <2>1. 0 \in 0..k - 1 /\ k - 1 \in 0..k - 1 /\ (k - 1) + 1 = k /\ 0 + 1 = 1
        /\ 1 \in 1..k /\ 1 - 1 = 0
    BY <1>2
  <2>2. n[1] = received' /\ b[1] = pending'
    <3>1. n[1] = n[0] \o Frames!Completed(b[0], wire[1]) /\ b[1] = Frames!Waiting(b[0], wire[1])
      BY <1>4, <2>1
    <3> QED
      BY <1>1, <1>2, <1>4, <3>1
  <2> QED
    BY <1>4, <1>7, <2>1, <2>2
<1>9. ASSUME NEW i \in 1..k - 1
      PROVE  /\ Frames!Completed(c[i - 1], rest[i]) \in Seq(Packets)
             /\ m[i] = m[i - 1] \o Frames!Completed(c[i - 1], rest[i])
             /\ c[i] = Frames!Waiting(c[i - 1], rest[i])
  <2>1. i + 1 \in 1..k /\ (i + 1) - 1 = i /\ i \in 0..k - 1 /\ i - 1 \in 0..k - 1
        /\ (i - 1) + 1 = i
    BY <1>2
  <2>2. /\ Frames!Completed(b[i], wire[i + 1]) \in Seq(Packets)
        /\ n[i + 1] = n[i] \o Frames!Completed(b[i], wire[i + 1])
        /\ b[i + 1] = Frames!Waiting(b[i], wire[i + 1])
    BY <1>4, <2>1
  <2>3. m[i] = n[i + 1] /\ c[i] = b[i + 1] /\ m[i - 1] = n[i] /\ c[i - 1] = b[i]
    BY <1>7, <2>1
  <2> QED
    BY <1>2, <2>2, <2>3
<1>10. \A i \in 0..k - 1 : Frames!IsPrefix(m[i], sent)
  BY <1>4, <1>5, <1>7
<1>11. Run(rest, received', pending', sent, m, c)
  BY <1>2, <1>6, <1>8, <1>9, <1>10 DEF Run
<1>12. received' \in Seq(Packets) /\ pending' \in Packets
  <2>1. 0 \in 0..k - 1
    BY <1>2
  <2> QED
    BY <1>6, <1>8, <2>1
<1>13. ASSUME NEW i \in 1..Len(rest) PROVE 1 + Len(rest[i].body) <= mtu - 3
  <2>1. i \in 1..k - 1 /\ i + 1 \in 1..Len(wire)
    BY <1>2 DEF k
  <2>2. rest[i] = wire[i + 1]
    BY <1>2, <2>1
  <2> QED
    BY <2>1, <2>2 DEF FramesInv
<1>14. wire' = rest
  BY <1>1 DEF rest
<1>15. \E f, g : Run(wire', received', pending', sent', f, g)
  BY <1>1, <1>11, <1>14
<1> QED
  BY <1>1, <1>2, <1>12, <1>13, <1>14, <1>15 DEF FramesInv

\* Nothing is under way at first, and every step keeps the invariant.
LEMMA FramesStart ==
  ASSUME Frames!Init
  PROVE  FramesInv
<1>1. mtu \in Mtus /\ sent = <<>> /\ wire = <<>> /\ pending = <<>> /\ received = <<>>
  BY DEF Frames!Init
<1>2. mtu \in Nat /\ mtu > 4
  BY <1>1, Parameters
<1> DEFINE m == [i \in 0..0 |-> <<>>]
<1>3. <<>> \in Seq(Packets) /\ <<>> \in Seq(WireValues) /\ <<>> \in Packets /\ Len(<<>>) = 0
  BY DEF Packets
<1>4. m \in [0..0 -> Seq(Packets)] /\ m \in [0..0 -> Packets] /\ m[0] = <<>>
  BY <1>3
<1> HIDE DEF m
<1>5. \A i \in 0..0 : Frames!IsPrefix(m[i], <<>>)
  <2>1. Frames!IsPrefix(<<>>, <<>>)
    BY <1>3, PrefixItself
  <2>2. \A i \in 0..0 : i = 0
    OBVIOUS
  <2> QED
    BY <1>4, <2>1, <2>2
<1>6. \A i \in 1..0 : FALSE
  OBVIOUS
<1>7. Run(<<>>, <<>>, <<>>, <<>>, m, m)
  BY <1>3, <1>4, <1>5, <1>6 DEF Run
<1>8. \E f, g : Run(wire, received, pending, sent, f, g)
  BY <1>1, <1>7
<1> QED
  BY <1>1, <1>2, <1>3, <1>6, <1>8 DEF FramesInv

\* Packets and bundles are sent, and values taken, without losing their place.
LEMMA FramesSteps ==
  ASSUME FramesInv, Frames!Next \/ UNCHANGED Frames!vars
  PROVE  FramesInv'
<1>1. CASE \E length \in 1..MaxLength : Frames!SendPacket(length)
  BY <1>1, PacketSent
<1>2. CASE \E length1, length2 \in 1..MaxLength : Frames!SendBundle(length1, length2)
  BY <1>2, BundleSent
<1>3. CASE Frames!Defragment
  BY <1>3, ValueTaken
<1>4. CASE UNCHANGED Frames!vars
  BY <1>4 DEF Frames!vars, FramesInv
<1> QED
  BY <1>1, <1>2, <1>3, <1>4 DEF Frames!Next

\* What is under way and waits is all that is missing.
LEMMA FramesSurvive ==
  ASSUME FramesInv
  PROVE  Frames!PacketsSurvive
<1>1. PICK n, b : Run(wire, received, pending, sent, n, b)
  BY DEF FramesInv
<1>2. Len(wire) \in Nat /\ DOMAIN wire = 1..Len(wire)
  BY LenProperties DEF FramesInv
<1>3. Frames!IsPrefix(received, sent)
  <2>1. 0 \in 0..Len(wire)
    BY <1>2
  <2> QED
    BY <1>1, <2>1 DEF Run
<1>4. wire = <<>> => received = sent /\ pending = <<>>
  <2> SUFFICES ASSUME wire = <<>> PROVE received = sent /\ pending = <<>>
    OBVIOUS
  <2>1. Len(wire) = 0
    OBVIOUS
  <2> QED
    BY <1>1, <2>1 DEF Run
<1>5. \A i \in DOMAIN wire : 1 + Len(wire[i].body) <= mtu - 3
  BY <1>2 DEF FramesInv
<1> QED
  BY <1>3, <1>4, <1>5 DEF Frames!PacketsSurvive

\* _defragment hands on what _send_packet and the button sent, whole and in order.
THEOREM PacketsArrive == Spec => []PacketsSurvive
<1> DEFINE I == subject = "framing" => FramesInv
<1>1. Init => I
  BY FramesStart DEF Init
<1>2. I /\ [Next]_vars => I'
  <2> SUFFICES ASSUME I, [Next]_vars PROVE I'
    OBVIOUS
  <2>1. subject' = subject
    BY DEF Next, vars
  <2>2. subject = "framing" => Frames!Next \/ UNCHANGED Frames!vars
    BY DEF Next, vars, frameVars, Frames!vars
  <2> QED
    BY <2>1, <2>2, FramesSteps
<1>3. I => PacketsSurvive
  BY FramesSurvive DEF PacketsSurvive
<1> QED
  BY <1>1, <1>2, <1>3, PTL DEF Spec

-----------------------------------------------------------------------------
(* The signatures of packets *)

\* Packets, and what a turn of the loop of chaskey_signature absorbs.
Signables == Seq(Nat)
Absorptions == [block : Seq(Nat), key : {"none", "K1", "K2"}]

\* A turn absorbs the next bytes as they are, up to a whole block.
LEMMA FullTurn ==
  ASSUME NEW p \in Signables, NEW o \in 0..Len(p), Len(p) - o >= BlockSize
  PROVE  /\ Signature!Turn(p, o) \in Absorptions
         /\ Signature!Turn(p, o).key = IF Len(p) = o + BlockSize THEN "K1" ELSE "none"
         /\ \A i \in 1..BlockSize : Signature!Turn(p, o).block[i] = p[o + i]
<1>1. BlockSize \in Nat \ {0} /\ Len(p) \in Nat /\ o \in Nat
  BY Parameters, LenProperties DEF Signables
<1> DEFINE block == SubSeq(p, o + 1, o + BlockSize)
           key == IF Len(p) = o + BlockSize THEN "K1" ELSE "none"
<1>2. Signature!Turn(p, o) = [block |-> block, key |-> key]
  BY DEF Signature!Turn, Signature!Full
<1>3. \A i \in o + 1..o + BlockSize : p[i] \in Nat
  <2>1. \A i \in o + 1..o + BlockSize : i \in 1..Len(p)
    BY <1>1
  <2> QED
    BY <2>1, ElementOfSeq DEF Signables
<1>4. /\ SubSeq(p, o + 1, o + BlockSize) \in Seq(Nat)
      /\ \A i \in 1..(o + BlockSize) - (o + 1) + 1 :
            SubSeq(p, o + 1, o + BlockSize)[i] = p[(o + 1) + i - 1]
  BY <1>1, <1>3, SubSeqProperties
<1>5. ASSUME NEW i \in 1..BlockSize PROVE block[i] = p[o + i]
  <2>1. i \in 1..(o + BlockSize) - (o + 1) + 1 /\ (o + 1) + i - 1 = o + i
    BY <1>1
  <2> HIDE DEF block
  <2> QED
    BY <1>4, <2>1 DEF block
<1>6. block \in Seq(Nat) /\ key \in {"none", "K1", "K2"}
  BY <1>4
<1> HIDE DEF block
<1> QED
  BY <1>2, <1>5, <1>6 DEF Absorptions

\* The last turn of other packets adds a 1 and fills the block with zeros.
LEMMA PaddedTurn ==
  ASSUME NEW p \in Signables, NEW o \in 0..Len(p), ~ (Len(p) - o >= BlockSize)
  PROVE  /\ Signature!Turn(p, o) \in Absorptions
         /\ Signature!Turn(p, o).key = "K2"
         /\ \A i \in 1..Len(p) - o : Signature!Turn(p, o).block[i] = p[o + i]
         /\ Signature!Turn(p, o).block[Len(p) - o + 1] = 1
         /\ \A i \in Len(p) - o + 2..BlockSize : Signature!Turn(p, o).block[i] = 0
<1>1. /\ BlockSize \in Nat \ {0} /\ Len(p) \in Nat /\ o \in Nat /\ o <= Len(p)
      /\ Len(p) - o \in Nat /\ BlockSize - 1 - (Len(p) - o) \in Nat
  BY Parameters, LenProperties DEF Signables
<1> DEFINE rest == Len(p) - o
           fill == BlockSize - 1 - (Len(p) - o)
           bytes == SubSeq(p, o + 1, Len(p))
           marked == bytes \o <<1>>
           zeros == [i \in 1..fill |-> 0]
           block == marked \o zeros
<1>2. Signature!Turn(p, o) = [block |-> block, key |-> "K2"]
  BY DEF Signature!Turn, Signature!Tail_
<1>3. rest \in Nat /\ fill \in Nat /\ BlockSize = rest + 1 + fill
  BY <1>1
<1>4. bytes \in Seq(Nat) /\ Len(bytes) = rest /\ \A i \in 1..rest : bytes[i] = p[o + i]
  <2>1. \A i \in o + 1..Len(p) : p[i] \in Nat
    <3>1. \A i \in o + 1..Len(p) : i \in 1..Len(p)
      BY <1>1
    <3> QED
      BY <3>1, ElementOfSeq DEF Signables
  <2>2. /\ SubSeq(p, o + 1, Len(p)) \in Seq(Nat)
        /\ Len(SubSeq(p, o + 1, Len(p)))
             = IF o + 1 <= Len(p) THEN Len(p) - (o + 1) + 1 ELSE 0
        /\ \A i \in 1..Len(p) - (o + 1) + 1 : SubSeq(p, o + 1, Len(p))[i] = p[(o + 1) + i - 1]
    BY <1>1, <2>1, SubSeqProperties
  <2> HIDE DEF bytes
  <2>3. bytes \in Seq(Nat) /\ Len(bytes) = rest
    BY <1>1, <2>2 DEF bytes
  <2>4. ASSUME NEW i \in 1..rest PROVE bytes[i] = p[o + i]
    <3>1. i \in 1..Len(p) - (o + 1) + 1 /\ (o + 1) + i - 1 = o + i
      BY <1>1
    <3> QED
      BY <2>2, <3>1 DEF bytes
  <2> QED
    BY <2>3, <2>4
<1>5. zeros \in Seq(Nat) /\ Len(zeros) = fill /\ \A i \in 1..fill : zeros[i] = 0
  <2> HIDE DEF fill
  <2>1. zeros \in [1..fill -> Nat]
    OBVIOUS
  <2> QED
    BY <1>3, <2>1
<1>6. <<1>> \in Seq(Nat) /\ Len(<<1>>) = 1 /\ <<1>>[1] = 1
  OBVIOUS
<1> HIDE DEF bytes, zeros, rest, fill
<1>7. /\ marked \in Seq(Nat) /\ Len(marked) = rest + 1
      /\ \A i \in 1..rest + 1 : marked[i] = IF i <= rest THEN bytes[i] ELSE <<1>>[i - rest]
  <2>1. /\ marked \in Seq(Nat) /\ Len(marked) = Len(bytes) + Len(<<1>>)
        /\ \A i \in 1..Len(bytes) + Len(<<1>>) :
              marked[i] = IF i <= Len(bytes) THEN bytes[i] ELSE <<1>>[i - Len(bytes)]
    BY <1>4, <1>6, ConcatProperties
  <2> HIDE DEF marked
  <2> QED
    BY <1>4, <1>6, <2>1
<1> HIDE DEF marked
<1>8. /\ block \in Seq(Nat) /\ Len(block) = rest + 1 + fill
      /\ \A i \in 1..rest + 1 + fill :
            block[i] = IF i <= rest + 1 THEN marked[i] ELSE zeros[i - (rest + 1)]
  <2>1. /\ block \in Seq(Nat) /\ Len(block) = Len(marked) + Len(zeros)
        /\ \A i \in 1..Len(marked) + Len(zeros) :
              block[i] = IF i <= Len(marked) THEN marked[i] ELSE zeros[i - Len(marked)]
    BY <1>5, <1>7, ConcatProperties
  <2> HIDE DEF block
  <2> QED
    BY <1>5, <1>7, <2>1
<1> HIDE DEF block
<1>9. ASSUME NEW i \in 1..rest PROVE block[i] = p[o + i]
  <2>1. i \in 1..rest + 1 + fill /\ i \in 1..rest + 1 /\ i <= rest + 1 /\ i <= rest
    BY <1>3
  <2> QED
    BY <1>4, <1>7, <1>8, <2>1
<1>10. block[rest + 1] = 1
  <2>1. rest + 1 \in 1..rest + 1 + fill /\ rest + 1 \in 1..rest + 1 /\ rest + 1 <= rest + 1
        /\ ~ (rest + 1 <= rest) /\ (rest + 1) - rest = 1
    BY <1>3
  <2> QED
    BY <1>6, <1>7, <1>8, <2>1
<1>11. ASSUME NEW i \in rest + 2..BlockSize PROVE block[i] = 0
  <2>1. i \in 1..rest + 1 + fill /\ ~ (i <= rest + 1) /\ i - (rest + 1) \in 1..fill
    BY <1>3
  <2> QED
    BY <1>5, <1>8, <2>1
<1>12. /\ Signature!Turn(p, o) \in Absorptions /\ Signature!Turn(p, o).key = "K2"
       /\ Signature!Turn(p, o).block = block
  BY <1>2, <1>8 DEF Absorptions
<1> QED
  BY <1>9, <1>10, <1>11, <1>12 DEF rest

\* What the loop absorbs from a place on.
AbsorbedAt(p, f, o) ==
    IF Signature!Turn(p, o).key # "none" THEN <<Signature!Turn(p, o)>>
    ELSE <<Signature!Turn(p, o)>> \o f[o + BlockSize]
Absorbing(p, f) == f = [o \in 0..Len(p) |-> AbsorbedAt(p, f, o)]

\* The loop goes on only where a next block starts before the end of the packet.
LEMMA GoesOn ==
  ASSUME NEW p \in Signables, NEW o \in 0..Len(p), Signature!Turn(p, o).key = "none"
  PROVE  /\ o + BlockSize \in 0..Len(p) /\ o + BlockSize < Len(p)
         /\ Len(p) - o >= BlockSize
<1>1. BlockSize \in Nat \ {0} /\ Len(p) \in Nat
  BY Parameters, LenProperties DEF Signables
<1>2. Len(p) - o >= BlockSize
  BY PaddedTurn
<1>3. Len(p) # o + BlockSize
  BY <1>2, FullTurn
<1> QED
  BY <1>1, <1>2, <1>3

\* The loop ends, and its first turn absorbs from the start.
LEMMA LoopAbsorbs ==
  ASSUME NEW p \in Signables
  PROVE  \E f : /\ \A o \in 0..Len(p) : f[o] = AbsorbedAt(p, f, o)
                /\ \A o \in 0..Len(p) : f[o] \in Seq(Absorptions)
                /\ Signature!Absorbed(p) = f[0]
<1> DEFINE L == Len(p)
           D == 0..L
           more == {o \in D : Signature!Turn(p, o).key = "none"}
           item == [o \in D |-> <<Signature!Turn(p, o)>>]
           next == [o \in D |-> o + BlockSize]
<1>1. L \in Nat /\ BlockSize \in Nat \ {0}
  BY Parameters, LenProperties DEF Signables
<1>2. ASSUME NEW o \in D, o \in more
      PROVE  next[o] = o + BlockSize /\ next[o] \in D /\ next[o] > o
  <2>1. o + BlockSize \in 0..Len(p)
    BY <1>2, GoesOn
  <2> QED
    BY <1>1, <2>1
<1>3. \A o \in D : /\ o \in more <=> Signature!Turn(p, o).key = "none"
                   /\ item[o] = <<Signature!Turn(p, o)>>
  OBVIOUS
<1> HIDE DEF more, item, next
<1>4. PICK f : IsReading(f, D, more, item, next)
  <2>1. D \in SUBSET (0..L) /\ \A o \in D : o \in more => next[o] \in D /\ next[o] > o
    BY <1>2
  <2> HIDE DEF D, L
  <2> QED
    BY <1>1, <2>1, ReadingExists
<1>5. \A o \in D : f[o] = IF o \in more THEN item[o] \o f[next[o]] ELSE item[o]
  BY <1>4 DEF IsReading
<1>6. Absorbing(p, f)
  <2>1. f = [o \in D |-> f[o]]
    BY <1>4 DEF IsReading
  <2>2. ASSUME NEW o \in D PROVE f[o] = AbsorbedAt(p, f, o)
    BY <1>2, <1>3, <1>5 DEF AbsorbedAt
  <2> QED
    BY <2>1, <2>2 DEF Absorbing
<1>7. \E g : Absorbing(p, g)
  BY <1>6
<1> DEFINE g == CHOOSE g : Absorbing(p, g)
<1>8. Absorbing(p, g)
  BY <1>7
<1>9. Signature!Absorbed(p) = g[0]
  BY DEF Signature!Absorbed, Absorbing, AbsorbedAt
<1> HIDE DEF g
<1>10. \A o \in D : g[o] = AbsorbedAt(p, g, o)
  BY <1>8 DEF Absorbing
<1> DEFINE S == {k \in Nat : \A o \in D : L < k + o => g[o] \in Seq(Absorptions)}
<1>11. 0 \in S
  <2>1. ASSUME NEW o \in D, L < 0 + o PROVE FALSE
    BY <1>1, <2>1
  <2> QED
    BY <2>1
<1>12. ASSUME NEW k \in Nat, k \in S PROVE k + 1 \in S
  <2>1. ASSUME NEW o \in D, L < (k + 1) + o PROVE g[o] \in Seq(Absorptions)
    <3>1. Signature!Turn(p, o) \in Absorptions
      BY FullTurn, PaddedTurn
    <3>2. <<Signature!Turn(p, o)>> \in Seq(Absorptions)
      BY <3>1
    <3>3. CASE Signature!Turn(p, o).key # "none"
      BY <1>10, <3>2, <3>3 DEF AbsorbedAt
    <3>4. CASE Signature!Turn(p, o).key = "none"
      <4>1. o + BlockSize \in D
        BY <3>4, GoesOn
      <4>2. L < k + (o + BlockSize)
        BY <1>1, <2>1
      <4>3. g[o + BlockSize] \in Seq(Absorptions)
        BY <1>12, <4>1, <4>2
      <4>4. <<Signature!Turn(p, o)>> \o g[o + BlockSize] \in Seq(Absorptions)
        BY <3>2, <4>3, ConcatProperties
      <4> QED
        BY <1>10, <3>4, <4>4 DEF AbsorbedAt
    <3> QED
      BY <3>3, <3>4
  <2> QED
    BY <2>1
<1>13. Nat \subseteq S
  <2> HIDE DEF S
  <2> QED
    BY <1>11, <1>12, Induction
<1>14. ASSUME NEW o \in D PROVE g[o] \in Seq(Absorptions)
  <2>1. L + 1 \in Nat /\ L < (L + 1) + o
    BY <1>1
  <2>2. L + 1 \in S
    <3> HIDE DEF S
    <3> QED
      BY <1>13, <2>1
  <2> QED
    BY <2>1, <2>2
<1> QED
  BY <1>9, <1>10, <1>14

\* Packets of which as much is absorbed from a place on are alike from there on.
Alike(p, q, o) == Len(p) = Len(q) /\ \A i \in o + 1..Len(p) : p[i] = q[i]

\* Turns that absorb the same and end the loop are over the same bytes.
LEMMA LastTurns ==
  ASSUME NEW p \in Signables, NEW q \in Signables, NEW o \in 0..Len(p), o \in 0..Len(q),
         Signature!Turn(p, o) = Signature!Turn(q, o), Signature!Turn(p, o).key # "none"
  PROVE  Alike(p, q, o)
<1>1. BlockSize \in Nat \ {0} /\ Len(p) \in Nat /\ Len(q) \in Nat /\ o \in Nat
  BY Parameters, LenProperties DEF Signables
<1>2. CASE Len(p) - o >= BlockSize
  <2>1. Signature!Turn(p, o).key = "K1" /\ Len(p) = o + BlockSize
    BY <1>2, FullTurn
  <2>2. Len(q) - o >= BlockSize
    BY <2>1, PaddedTurn
  <2>3. Len(q) = o + BlockSize
    BY <2>1, <2>2, FullTurn
  <2>4. ASSUME NEW i \in o + 1..Len(p) PROVE p[i] = q[i]
    <3>1. i - o \in 1..BlockSize /\ o + (i - o) = i
      BY <1>1, <2>1
    <3>2. \A j \in 1..BlockSize : Signature!Turn(p, o).block[j] = p[o + j]
      BY <1>2, FullTurn
    <3>3. \A j \in 1..BlockSize : Signature!Turn(q, o).block[j] = q[o + j]
      BY <2>2, FullTurn
    <3> QED
      BY <3>1, <3>2, <3>3
  <2> QED
    BY <2>1, <2>3, <2>4 DEF Alike
<1>3. CASE ~ (Len(p) - o >= BlockSize)
  <2>1. Signature!Turn(p, o).key = "K2"
    BY <1>3, PaddedTurn
  <2>2. ~ (Len(q) - o >= BlockSize)
    BY <2>1, FullTurn
  <2> DEFINE k == Len(p) - o
             l == Len(q) - o
             x == Signature!Turn(p, o).block
  <2>3. /\ \A i \in 1..k : x[i] = p[o + i]
        /\ x[k + 1] = 1
        /\ \A i \in k + 2..BlockSize : x[i] = 0
    BY <1>3, PaddedTurn
  <2>4. /\ \A i \in 1..l : x[i] = q[o + i]
        /\ x[l + 1] = 1
        /\ \A i \in l + 2..BlockSize : x[i] = 0
    BY <2>2, PaddedTurn
  <2>5. k \in 0..BlockSize - 1 /\ l \in 0..BlockSize - 1
    BY <1>1, <1>3, <2>2
  <2>6. Len(p) = o + k /\ Len(q) = o + l
    BY <1>1
  <2> HIDE DEF k, l, x
  <2>7. ~ (k < l)
    <3> SUFFICES ASSUME k < l PROVE FALSE
      OBVIOUS
    <3>1. l + 1 \in k + 2..BlockSize
      BY <1>1, <2>5
    <3> QED
      BY <2>3, <2>4, <3>1
  <2>8. ~ (l < k)
    <3> SUFFICES ASSUME l < k PROVE FALSE
      OBVIOUS
    <3>1. k + 1 \in l + 2..BlockSize
      BY <1>1, <2>5
    <3> QED
      BY <2>3, <2>4, <3>1
  <2>9. k = l
    BY <1>1, <2>5, <2>7, <2>8
  <2>10. ASSUME NEW i \in o + 1..Len(p) PROVE p[i] = q[i]
    <3>1. i - o \in 1..k /\ o + (i - o) = i
      BY <1>1, <2>5, <2>6
    <3> QED
      BY <2>3, <2>4, <2>9, <3>1
  <2> QED
    BY <2>6, <2>9, <2>10 DEF Alike
<1> QED
  BY <1>2, <1>3

\* What follows the first of a list is told by the list.
LEMMA Front ==
  ASSUME NEW S, NEW a \in S, NEW r \in Seq(S)
  PROVE  /\ (<<a>> \o r)[1] = a
         /\ \A s \in Seq(S) : <<a>> \o r = <<a>> \o s => r = s
<1>1. <<a>> \in Seq(S) /\ Len(<<a>>) = 1 /\ <<a>>[1] = a
  OBVIOUS
<1>2. ASSUME NEW s \in Seq(S)
      PROVE  /\ Len(<<a>> \o s) = 1 + Len(s) /\ (<<a>> \o s)[1] = a /\ Len(s) \in Nat
             /\ \A i \in 1..Len(s) : (<<a>> \o s)[1 + i] = s[i]
  <2> DEFINE t == <<a>> \o s
  <2>1. /\ Len(t) = Len(<<a>>) + Len(s)
        /\ \A i \in 1..Len(<<a>>) + Len(s) :
              t[i] = IF i <= Len(<<a>>) THEN <<a>>[i] ELSE s[i - Len(<<a>>)]
    BY <1>1, ConcatProperties
  <2> HIDE DEF t
  <2>2. Len(s) \in Nat /\ Len(t) = 1 + Len(s)
    BY <1>1, <2>1, LenProperties
  <2>3. \A i \in 1..1 + Len(s) : t[i] = IF i <= 1 THEN <<a>>[i] ELSE s[i - 1]
    BY <1>1, <2>1
  <2>4. t[1] = a
    <3>1. 1 \in 1..1 + Len(s)
      BY <2>2
    <3> QED
      BY <1>1, <2>3, <3>1
  <2>5. ASSUME NEW i \in 1..Len(s) PROVE t[1 + i] = s[i]
    <3>1. 1 + i \in 1..1 + Len(s) /\ ~ (1 + i <= 1) /\ (1 + i) - 1 = i
      BY <2>2
    <3> QED
      BY <2>3, <3>1
  <2> QED
    BY <2>2, <2>4, <2>5 DEF t
<1>3. ASSUME NEW s \in Seq(S), <<a>> \o r = <<a>> \o s PROVE r = s
  <2>1. Len(r) = Len(s)
    BY <1>2, <1>3
  <2>2. \A i \in 1..Len(r) : r[i] = s[i]
    BY <1>2, <1>3, <2>1
  <2> QED
    BY <2>1, <2>2, SeqEqual
<1> QED
  BY <1>2, <1>3

\* Packets from which the same is absorbed are the same.
LEMMA AbsorbedOnce ==
  ASSUME NEW p \in Signables, NEW q \in Signables,
         Signature!Absorbed(p) = Signature!Absorbed(q)
  PROVE  p = q
<1>1. BlockSize \in Nat \ {0} /\ Len(p) \in Nat /\ Len(q) \in Nat
  BY Parameters, LenProperties DEF Signables
<1>2. PICK f : /\ \A o \in 0..Len(p) : f[o] = AbsorbedAt(p, f, o)
               /\ \A o \in 0..Len(p) : f[o] \in Seq(Absorptions)
               /\ Signature!Absorbed(p) = f[0]
  BY LoopAbsorbs
<1>3. PICK g : /\ \A o \in 0..Len(q) : g[o] = AbsorbedAt(q, g, o)
               /\ \A o \in 0..Len(q) : g[o] \in Seq(Absorptions)
               /\ Signature!Absorbed(q) = g[0]
  BY LoopAbsorbs
<1> DEFINE Both == (0..Len(p)) \cap (0..Len(q))
           S == {k \in Nat : \A o \in Both : Len(p) < k + o /\ f[o] = g[o] => Alike(p, q, o)}
<1>4. ASSUME NEW o \in Both
      PROVE  /\ o \in 0..Len(p) /\ o \in 0..Len(q)
             /\ Signature!Turn(p, o) \in Absorptions /\ Signature!Turn(q, o) \in Absorptions
  BY FullTurn, PaddedTurn
<1>5. 0 \in S
  <2>1. ASSUME NEW o \in Both, Len(p) < 0 + o PROVE FALSE
    BY <1>1, <2>1
  <2> QED
    BY <2>1
<1>6. ASSUME NEW k \in Nat, k \in S PROVE k + 1 \in S
  <2>1. ASSUME NEW o \in Both, Len(p) < (k + 1) + o, f[o] = g[o] PROVE Alike(p, q, o)
    <3> DEFINE t == Signature!Turn(p, o)
               u == Signature!Turn(q, o)
               v1 == f[o + BlockSize]
               w1 == g[o + BlockSize]
    <3>1. t \in Absorptions /\ u \in Absorptions /\ o \in 0..Len(p) /\ o \in 0..Len(q)
      BY <1>4
    <3>2. /\ t.key = "none" => /\ o + BlockSize \in 0..Len(p) /\ v1 \in Seq(Absorptions)
                               /\ f[o] = <<t>> \o v1
          /\ t.key # "none" => f[o] = <<t>>
      <4>1. f[o] = AbsorbedAt(p, f, o)
        BY <1>2, <3>1
      <4>2. t.key = "none" => o + BlockSize \in 0..Len(p)
        BY <3>1, GoesOn
      <4> QED
        BY <1>2, <4>1, <4>2 DEF AbsorbedAt
    <3>3. /\ u.key = "none" => /\ o + BlockSize \in 0..Len(q) /\ w1 \in Seq(Absorptions)
                               /\ g[o] = <<u>> \o w1
          /\ u.key # "none" => g[o] = <<u>>
      <4>1. g[o] = AbsorbedAt(q, g, o)
        BY <1>3, <3>1
      <4>2. u.key = "none" => o + BlockSize \in 0..Len(q)
        BY <3>1, GoesOn
      <4> QED
        BY <1>3, <4>1, <4>2 DEF AbsorbedAt
    <3>4. t = u /\ (t.key = "none" => v1 = w1)
      <4> HIDE DEF t, u, v1, w1
      <4>1. <<t>>[1] = t /\ <<u>>[1] = u
        OBVIOUS
      <4>2. f[o][1] = t
        BY <3>1, <3>2, <4>1, Front
      <4>3. g[o][1] = u
        BY <3>1, <3>3, <4>1, Front
      <4>4. t = u
        BY <2>1, <4>2, <4>3
      <4>5. t.key = "none" => v1 = w1
        BY <2>1, <3>1, <3>2, <3>3, <4>4, Front
      <4> QED
        BY <4>4, <4>5
    <3>5. CASE t.key # "none"
      BY <3>1, <3>4, <3>5, LastTurns
    <3>6. CASE t.key = "none"
      <4>1. o + BlockSize \in Both /\ f[o + BlockSize] = g[o + BlockSize]
        BY <3>2, <3>3, <3>4, <3>6
      <4>2. Len(p) < k + (o + BlockSize)
        BY <1>1, <2>1
      <4>3. Alike(p, q, o + BlockSize)
        BY <1>6, <4>1, <4>2
      <4>4. Len(p) - o >= BlockSize /\ Len(q) - o >= BlockSize
        BY <3>1, <3>4, <3>6, GoesOn
      <4>5. \A j \in 1..BlockSize : t.block[j] = p[o + j]
        BY <3>1, <4>4, FullTurn
      <4>6. \A j \in 1..BlockSize : u.block[j] = q[o + j]
        BY <3>1, <4>4, FullTurn
      <4>7. ASSUME NEW i \in o + 1..Len(p) PROVE p[i] = q[i]
        <5>1. CASE i <= o + BlockSize
          <6>1. i - o \in 1..BlockSize /\ o + (i - o) = i
            BY <1>1, <5>1
          <6> HIDE DEF t, u
          <6> QED
            BY <3>4, <4>5, <4>6, <6>1
        <5>2. CASE ~ (i <= o + BlockSize)
          <6>1. i \in (o + BlockSize) + 1..Len(p)
            BY <1>1, <5>2
          <6> QED
            BY <4>3, <6>1 DEF Alike
        <5> QED
          BY <5>1, <5>2
      <4> QED
        BY <4>3, <4>7 DEF Alike
    <3> QED
      BY <3>5, <3>6
  <2> QED
    BY <2>1
<1>7. Nat \subseteq S
  <2> HIDE DEF S
  <2> QED
    BY <1>5, <1>6, Induction
<1>8. Len(p) + 1 \in S
  <2> HIDE DEF S
  <2> QED
    BY <1>1, <1>7
<1>9. 0 \in Both /\ Len(p) < (Len(p) + 1) + 0
  BY <1>1
<1>10. f[0] = g[0]
  BY <1>2, <1>3
<1>11. Alike(p, q, 0)
  <2> HIDE DEF Both
  <2> QED
    BY <1>8, <1>9, <1>10
<1>12. Len(p) = Len(q) /\ \A i \in 1..Len(p) : p[i] = q[i]
  BY <1>11 DEF Alike
<1> QED
  BY <1>12, SeqEqual DEF Signables

\* Counters that fit in two words, and directions, start different signatures.
LEMMA StartOnce ==
  ASSUME NEW c \in Signature!Counters, NEW e \in Signature!Counters, NEW a, NEW b,
         Signature!Start(c, a) = Signature!Start(e, b)
  PROVE  c = e /\ a = b
<1>1. Word \in Nat \ {0}
  BY Parameters
<1>2. Signature!Start(c, a)[1] = c % Word /\ Signature!Start(c, a)[2] = (c \div Word) % Word
      /\ Signature!Start(c, a)[3] = a
  BY DEF Signature!Start
<1>3. Signature!Start(e, b)[1] = e % Word /\ Signature!Start(e, b)[2] = (e \div Word) % Word
      /\ Signature!Start(e, b)[3] = b
  BY DEF Signature!Start
<1>4. c % Word = e % Word /\ (c \div Word) % Word = (e \div Word) % Word /\ a = b
  BY <1>2, <1>3
<1>5. ASSUME NEW n \in Signature!Counters
      PROVE  /\ n \div Word \in 0..Word - 1 /\ (n \div Word) % Word = n \div Word
             /\ n = Word * (n \div Word) + (n % Word)
  <2>1. Word * Word \in Nat
    BY <1>1
  <2>2. n \in Nat /\ n < Word * Word
    BY <2>1 DEF Signature!Counters
  <2>3. n = Word * (n \div Word) + (n % Word) /\ n \div Word \in Nat /\ n % Word \in Nat
    BY <1>1, <2>2
  <2>4. n \div Word < Word
    <3> DEFINE k == n \div Word
    <3> SUFFICES ASSUME k >= Word PROVE FALSE
      BY <1>1, <2>3
    <3>1. Word * k <= n
      BY <1>1, <2>2, <2>3
    <3>2. k \in Nat
      BY <2>3
    <3> HIDE DEF k
    <3>3. Word * k >= Word * Word
      BY <1>1, <3>2
    <3>4. Word * k \in Nat
      BY <1>1, <3>2
    <3> QED
      BY <2>1, <2>2, <3>1, <3>3, <3>4
  <2>5. n \div Word \in 0..Word - 1
    BY <1>1, <2>3, <2>4
  <2>6. \A k \in 0..Word - 1 : k % Word = k
    BY <1>1
  <2> QED
    BY <2>3, <2>5, <2>6
<1> QED
  BY <1>4, <1>5

\* Packets are made of bytes, and counters fit in two words.
SignatureInv ==
    /\ packet \in [Signature!Signers -> Signables]
    /\ counter \in [Signature!Signers -> Signature!Counters]

\* chaskey_signature fits one packet, counter and direction.
LEMMA SignaturesOnce ==
  ASSUME SignatureInv
  PROVE  Signature!SignaturesTellApart
<1>1. 1 \in Signature!Signers /\ 2 \in Signature!Signers
  BY DEF Signature!Signers
<1>2. /\ packet[1] \in Signables /\ packet[2] \in Signables
      /\ counter[1] \in Signature!Counters /\ counter[2] \in Signature!Counters
  BY <1>1 DEF SignatureInv
<1> DEFINE x == Signature!chaskey_signature(direction[1], counter[1], packet[1])
           y == Signature!chaskey_signature(direction[2], counter[2], packet[2])
<1>3. ASSUME x = y
      PROVE  direction[1] = direction[2] /\ counter[1] = counter[2] /\ packet[1] = packet[2]
  <2>1. /\ x.start = Signature!Start(counter[1], direction[1])
        /\ y.start = Signature!Start(counter[2], direction[2])
        /\ x.absorbed = Signature!Absorbed(packet[1])
        /\ y.absorbed = Signature!Absorbed(packet[2])
    BY DEF Signature!chaskey_signature
  <2>2. Signature!Start(counter[1], direction[1]) = Signature!Start(counter[2], direction[2])
    BY <1>3, <2>1
  <2>3. Signature!Absorbed(packet[1]) = Signature!Absorbed(packet[2])
    BY <1>3, <2>1
  <2> QED
    BY <1>2, <2>2, <2>3, StartOnce, AbsorbedOnce
<1> QED
  BY <1>3 DEF Signature!SignaturesTellApart

\* Packets grow by bytes.
LEMMA SignatureSteps ==
  ASSUME SignatureInv, Signature!Next \/ UNCHANGED Signature!vars
  PROVE  SignatureInv'
<1>1. ASSUME NEW s \in Signature!Signers, NEW b \in ByteValues, Signature!Grow(s, b)
      PROVE  SignatureInv'
  <2>1. packet' = [packet EXCEPT ![s] = Append(@, b)] /\ UNCHANGED <<counter, direction>>
    BY <1>1 DEF Signature!Grow
  <2>2. packet[s] \in Signables /\ b \in Nat
    BY Parameters DEF SignatureInv
  <2>3. Append(packet[s], b) \in Signables
    BY <2>2, AppendProperties DEF Signables
  <2> QED
    BY <2>1, <2>3 DEF SignatureInv
<1>2. CASE UNCHANGED Signature!vars
  BY <1>2 DEF Signature!vars, SignatureInv
<1> QED
  BY <1>1, <1>2 DEF Signature!Next

\* A signature tells packets, counters and directions apart, up to its permutation and
\* its truncation, whatever the size of blocks and words.
THEOREM SignaturesApart == Spec => []SignaturesTellApart
<1> DEFINE I == subject = "signature" => SignatureInv
<1>1. Init => I
  <2>1. Signature!Init => SignatureInv
    <3> SUFFICES ASSUME Signature!Init PROVE SignatureInv
      OBVIOUS
    <3>1. \A b \in ByteValues : <<b>> \in Signables
      BY Parameters DEF Signables
    <3> QED
      BY <3>1 DEF Signature!Init, SignatureInv
  <2> QED
    BY <2>1 DEF Init
<1>2. I /\ [Next]_vars => I'
  <2> SUFFICES ASSUME I, [Next]_vars PROVE I'
    OBVIOUS
  <2>1. subject' = subject
    BY DEF Next, vars
  <2>2. subject = "signature" => Signature!Next \/ UNCHANGED Signature!vars
    BY DEF Next, vars, signatureVars, Signature!vars
  <2> QED
    BY <2>1, <2>2, SignatureSteps
<1>3. I => SignaturesTellApart
  BY SignaturesOnce DEF SignaturesTellApart
<1> QED
  BY <1>1, <1>2, <1>3, PTL DEF Spec

-----------------------------------------------------------------------------
(* Words and their bits *)

\* The powers of two as defined.
Powers(f) == f = [n \in 0..WordBits |-> IF n = 0 THEN 1 ELSE 2 * f[n - 1]]

\* The powers of two, up to that of a word.
LEMMA PowersOfTwo ==
  /\ \A n \in 0..WordBits : Permutation!Pow2[n] \in Nat \ {0}
  /\ Permutation!Pow2[0] = 1
  /\ \A n \in 1..WordBits : Permutation!Pow2[n] = 2 * Permutation!Pow2[n - 1]
<1>1. WordBits \in Nat
  BY Parameters
<1> DEFINE V == Nat \ {0}
           step == [n \in 1..WordBits |-> [s \in V |-> 2 * s]]
<1>2. step \in [1..WordBits -> [V -> V]] /\ 1 \in V
  OBVIOUS
<1>3. \A n \in 1..WordBits, s \in V : step[n][s] = 2 * s
  OBVIOUS
<1> HIDE DEF step
<1>4. PICK f : IsFold(f, WordBits, V, 1, step)
  <2> HIDE DEF V
  <2> QED
    BY <1>1, <1>2, FoldExists
<1>5. /\ f \in [0..WordBits -> V] /\ f[0] = 1
      /\ \A n \in 1..WordBits : f[n] = 2 * f[n - 1]
  <2>1. f \in [0..WordBits -> V] /\ f[0] = 1 /\ \A n \in 1..WordBits : f[n] = step[n][f[n - 1]]
    BY <1>4 DEF IsFold
  <2>2. \A n \in 1..WordBits : n - 1 \in 0..WordBits
    BY <1>1
  <2> HIDE DEF V
  <2> QED
    BY <1>3, <2>1, <2>2
<1>6. Powers(f)
  <2>1. \A n \in 0..WordBits : f[n] = IF n = 0 THEN 1 ELSE 2 * f[n - 1]
    <3>1. \A n \in 0..WordBits : n # 0 => n \in 1..WordBits
      BY <1>1
    <3> HIDE DEF V
    <3> QED
      BY <1>5, <3>1
  <2> HIDE DEF V
  <2> QED
    BY <1>5, <2>1 DEF Powers
<1> DEFINE g == CHOOSE g : Powers(g)
<1>7. Powers(g)
  BY <1>6
<1>8. Permutation!Pow2 = g
  BY DEF Permutation!Pow2, Powers
<1> HIDE DEF g
<1>9. \A n \in 0..WordBits : g[n] = IF n = 0 THEN 1 ELSE 2 * g[n - 1]
  BY <1>7 DEF Powers
<1>10. g[0] = 1 /\ \A n \in 1..WordBits : g[n] = 2 * g[n - 1]
  <2>1. 0 \in 0..WordBits /\ \A n \in 1..WordBits : n \in 0..WordBits /\ n # 0
    BY <1>1
  <2> QED
    BY <1>9, <2>1
<1>11. \A n \in 0..WordBits : f[n] = g[n]
  <2>1. WordBits \in Nat /\ SameSteps(f, g, WordBits)
    BY <1>1, <1>5, <1>10 DEF SameSteps
  <2> QED
    BY <2>1, FoldUnique
<1> QED
  BY <1>5, <1>8, <1>10, <1>11

\* Powers of two are added by their product.
LEMMA PowersMultiply ==
  ASSUME NEW a \in 0..WordBits, NEW b \in 0..WordBits, a + b <= WordBits
  PROVE  Permutation!Pow2[a + b] = Permutation!Pow2[a] * Permutation!Pow2[b]
<1>1. WordBits \in Nat /\ a \in Nat /\ b \in Nat
  BY Parameters
<1> DEFINE p == Permutation!Pow2
           S == {n \in Nat : p[a + n] = p[a] * p[n]}
<1>2. /\ \A n \in 0..WordBits : p[n] \in Nat \ {0}
      /\ p[0] = 1 /\ \A n \in 1..WordBits : p[n] = 2 * p[n - 1]
  BY PowersOfTwo
<1> HIDE DEF p
<1>3. 0 \in S
  <2>1. a + 0 = a /\ p[a] \in Nat
    BY <1>1, <1>2
  <2>2. p[a] * 1 = p[a]
    BY <2>1
  <2> QED
    BY <1>2, <2>1, <2>2
<1>4. ASSUME NEW n \in 0..b - 1, n \in S PROVE n + 1 \in S
  <2>1. /\ n \in Nat /\ n + 1 \in 1..WordBits /\ (n + 1) - 1 = n
        /\ a + (n + 1) \in 1..WordBits /\ (a + (n + 1)) - 1 = a + n
        /\ n \in 0..WordBits /\ a + n \in 0..WordBits
    BY <1>1
  <2>2. p[a + (n + 1)] = 2 * p[a + n] /\ p[n + 1] = 2 * p[n] /\ p[a + n] = p[a] * p[n]
    BY <1>2, <1>4, <2>1
  <2>3. p[a] \in Nat /\ p[n] \in Nat
    BY <1>2, <2>1
  <2>4. p[a] * (2 * p[n]) = 2 * (p[a] * p[n])
    BY <2>3
  <2> QED
    BY <2>1, <2>2, <2>4
<1>5. 0..b \subseteq S
  <2> HIDE DEF S
  <2> QED
    BY <1>1, <1>3, <1>4, BoundedInduction
<1>6. b \in S
  <2> HIDE DEF S
  <2> QED
    BY <1>1, <1>5
<1> QED
  BY <1>6 DEF p

\* A word is a quotient and a remainder, and has no other.
LEMMA Quotient ==
  ASSUME NEW m \in Nat \ {0}, NEW q \in Nat, NEW r \in 0..m - 1
  PROVE  (m * q + r) % m = r /\ (m * q + r) \div m = q
<1> DEFINE n == m * q + r
           d == n \div m
           k == n % m
<1>1. m * q \in Nat
  OBVIOUS
<1>2. n \in Nat
  BY <1>1
<1> HIDE DEF n
<1>3. d \in Nat /\ k \in 0..m - 1 /\ n = m * d + k
  BY <1>2
<1> HIDE DEF d, k
<1>4. m * d + k = m * q + r
  BY <1>3 DEF n
<1>5. d = q
  <2>1. CASE d > q
    <3>1. d = q + (d - q) /\ d - q \in Nat /\ d - q >= 1
      BY <1>3, <2>1
    <3>2. m * d = m * q + m * (d - q)
      BY <1>3
    <3>3. m * (d - q) >= m
      BY <3>1
    <3> QED
      BY <1>1, <1>3, <1>4, <3>2, <3>3
  <2>2. CASE d < q
    <3>1. q - d \in Nat /\ q - d >= 1
      BY <1>3, <2>2
    <3>2. m * q = m * d + m * (q - d)
      BY <1>3
    <3>3. m * (q - d) >= m
      BY <3>1
    <3>4. m * d \in Nat
      BY <1>3
    <3> QED
      BY <1>3, <1>4, <3>2, <3>3, <3>4
  <2> QED
    BY <1>3, <2>1, <2>2
<1>6. k = r
  BY <1>1, <1>3, <1>4, <1>5
<1> QED
  BY <1>5, <1>6 DEF d, k, n

\* A word that is turned round swaps its parts.
LEMMA PartsSwap ==
  ASSUME NEW p \in Nat \ {0}, NEW q \in Nat \ {0}, NEW n \in 0..p * q - 1
  PROVE  /\ n \div q \in 0..p - 1 /\ n % q \in 0..q - 1
         /\ n = q * (n \div q) + (n % q)
         /\ ((n * p) % (p * q)) + n \div q = p * (n % q) + n \div q
         /\ p * (n % q) + n \div q \in 0..p * q - 1
<1> DEFINE m == p * q
           d == n \div q
           k == n % q
<1>1. m \in Nat \ {0}
  OBVIOUS
<1>2. n \in Nat /\ n <= m - 1
  BY <1>1
<1>3. d \in Nat /\ k \in 0..q - 1 /\ n = q * d + k
  BY <1>2
<1>4. m = p * q
  OBVIOUS
<1> HIDE DEF m, d, k
<1>5. d <= p - 1
  <2> SUFFICES ASSUME d >= p PROVE FALSE
    BY <1>3
  <2>1. q * d >= q * p
    BY <1>3
  <2>2. q * d \in Nat /\ q * p = m
    BY <1>3, <1>4
  <2> QED
    BY <1>1, <1>2, <1>3, <2>1, <2>2
<1>6. p * k \in Nat /\ p * k <= m - p
  <2>1. q - 1 - k \in Nat
    BY <1>3
  <2>2. p * (q - 1 - k) \in Nat
    BY <2>1
  <2>3. p * (q - 1 - k) = p * q - p - p * k
    BY <1>3
  <2>4. p * k \in Nat
    BY <1>3
  <2> QED
    BY <1>1, <1>4, <2>2, <2>3, <2>4
<1>7. n * p = m * d + p * k
  <2>1. (q * d + k) * p = (p * q) * d + p * k
    BY <1>3
  <2> QED
    BY <1>3, <1>4, <2>1
<1>8. (n * p) % m = p * k
  <2> DEFINE r == p * k
  <2>1. r \in 0..m - 1
    BY <1>1, <1>6
  <2> HIDE DEF r
  <2>2. (m * d + r) % m = r
    BY <1>1, <1>3, <2>1, Quotient
  <2> QED
    BY <1>7, <2>2 DEF r
<1>9. p * k + d \in 0..m - 1
  BY <1>1, <1>3, <1>5, <1>6
<1>10. d \in 0..p - 1
  BY <1>3, <1>5
<1> QED
  BY <1>3, <1>8, <1>9, <1>10 DEF m, d, k

-----------------------------------------------------------------------------
(* Words stay words *)

\* A word fits in WordBits bits.
Word_ == 0..Permutation!Modulus - 1

\* What two parts of a word multiply to.
LEMMA ModulusParts ==
  /\ Permutation!Modulus \in Nat \ {0}
  /\ \A b \in 0..WordBits :
        /\ Permutation!Pow2[b] \in Nat \ {0} /\ Permutation!Pow2[WordBits - b] \in Nat \ {0}
        /\ Permutation!Modulus = Permutation!Pow2[b] * Permutation!Pow2[WordBits - b]
<1>1. WordBits \in Nat /\ WordBits \in 0..WordBits
  BY Parameters
<1>2. Permutation!Modulus \in Nat \ {0}
  BY <1>1, PowersOfTwo DEF Permutation!Modulus
<1>3. ASSUME NEW b \in 0..WordBits
      PROVE  /\ Permutation!Pow2[b] \in Nat \ {0} /\ Permutation!Pow2[WordBits - b] \in Nat \ {0}
             /\ Permutation!Modulus = Permutation!Pow2[b] * Permutation!Pow2[WordBits - b]
  <2>1. WordBits - b \in 0..WordBits /\ b + (WordBits - b) = WordBits
        /\ b + (WordBits - b) <= WordBits
    BY <1>1
  <2> DEFINE c == WordBits - b
  <2>2. c \in 0..WordBits /\ b + c = WordBits /\ b + c <= WordBits
    BY <2>1
  <2> HIDE DEF c
  <2>3. Permutation!Pow2[b + c] = Permutation!Pow2[b] * Permutation!Pow2[c]
    BY <2>2, PowersMultiply
  <2> QED
    BY <2>2, <2>3, PowersOfTwo DEF Permutation!Modulus, c
<1> QED
  BY <1>2, <1>3

\* _u32 gives a word.
LEMMA TruncatedWord ==
  ASSUME NEW n \in Nat
  PROVE  Permutation!_u32(n) \in Word_
BY ModulusParts DEF Permutation!_u32, Word_

\* _rol32 swaps the two parts of a word, and gives a word.
LEMMA RotatedWord ==
  ASSUME NEW n \in Word_, NEW bits \in Nat
  PROVE  /\ Permutation!_rol32(n, bits) \in Word_
         /\ LET b == bits % WordBits
                p == Permutation!Pow2[b]
                q == Permutation!Pow2[WordBits - b]
            IN Permutation!_rol32(n, bits) = p * (n % q) + n \div q
<1> DEFINE b == bits % WordBits
<1>1. b \in 0..WordBits
  BY Parameters
<1> HIDE DEF b
<1> DEFINE p == Permutation!Pow2[b]
           q == Permutation!Pow2[WordBits - b]
           m == Permutation!Modulus
<1>2. p \in Nat \ {0} /\ q \in Nat \ {0} /\ m = p * q
  BY <1>1, ModulusParts
<1>3. Permutation!_rol32(n, bits) = ((n * p) % m) + n \div q
  BY DEF Permutation!_rol32, Permutation!_u32, b
<1>4. n \in 0..m - 1
  BY DEF Word_
<1> HIDE DEF p, q, m
<1>5. n \in 0..p * q - 1
  BY <1>2, <1>4
<1>6. /\ ((n * p) % (p * q)) + n \div q = p * (n % q) + n \div q
      /\ p * (n % q) + n \div q \in 0..p * q - 1
  BY <1>2, <1>5, PartsSwap
<1>7. Permutation!_rol32(n, bits) = p * (n % q) + n \div q
  BY <1>2, <1>3, <1>6
<1>8. Permutation!_rol32(n, bits) \in 0..m - 1
  BY <1>2, <1>6, <1>7
<1> QED
  BY <1>7, <1>8 DEF p, q, m, b, Word_

\* Two rotations by half a word give a word back.
LEMMA SwappedTwice ==
  ASSUME NEW n \in Word_
  PROVE  Permutation!Swap(n) \in Word_ /\ Permutation!Swap(Permutation!Swap(n)) = n
<1> DEFINE half == WordBits \div 2
<1>1. half \in Nat /\ half \in 0..WordBits /\ WordBits = half + half /\ half < WordBits
  BY Parameters
<1> HIDE DEF half
<1>2. half % WordBits = half /\ WordBits - half = half
  BY <1>1
<1> DEFINE h == Permutation!Pow2[half]
           Swapped(k) == h * (k % h) + k \div h
<1>3. ASSUME NEW k \in Word_
      PROVE  Permutation!Swap(k) \in Word_ /\ Permutation!Swap(k) = Swapped(k)
  <2>1. Permutation!Swap(k) = Permutation!_rol32(k, half)
    BY DEF Permutation!Swap, half
  <2> QED
    BY <1>1, <1>2, <2>1, RotatedWord
<1>4. h \in Nat \ {0} /\ Permutation!Modulus = h * h
  BY <1>1, <1>2, ModulusParts
<1> HIDE DEF h
<1>5. n \in 0..h * h - 1
  BY <1>4 DEF Word_
<1>6. n \div h \in 0..h - 1 /\ n % h \in 0..h - 1 /\ n = h * (n \div h) + (n % h)
  BY <1>4, <1>5, PartsSwap
<1> DEFINE d == n \div h
           k == n % h
           s == h * k + d
<1>7. d \in 0..h - 1 /\ k \in Nat /\ n = h * d + k /\ Swapped(n) = s
  BY <1>6
<1> HIDE DEF d, k
<1>8. s % h = d /\ s \div h = k
  BY <1>4, <1>7, Quotient
<1> HIDE DEF s
<1>9. Swapped(s) = h * d + k
  BY <1>8
<1> HIDE DEF Swapped
<1>10. Permutation!Swap(n) \in Word_ /\ Permutation!Swap(n) = s
  BY <1>3, <1>7
<1>11. Permutation!Swap(s) = Swapped(s)
  BY <1>3, <1>10
<1> QED
  BY <1>7, <1>9, <1>10, <1>11

\* What the exclusive or adds for a bit.
Differs(a, b, i) == (Permutation!BitOf(a, i - 1) + Permutation!BitOf(b, i - 1)) % 2

\* The exclusive or of the lowest bits, as defined.
LowBits(f, a, b) ==
    f = [i \in 0..WordBits |->
            IF i = 0 THEN 0
            ELSE f[i - 1] + Permutation!Pow2[i - 1]
                     * ((Permutation!BitOf(a, i - 1) + Permutation!BitOf(b, i - 1)) % 2)]

\* The exclusive or of two words is a word.
LEMMA XorWord ==
  ASSUME NEW a \in Word_, NEW b \in Word_
  PROVE  Permutation!Xor(a, b) \in Word_
<1>1. WordBits \in Nat /\ a \in Nat /\ b \in Nat
  BY Parameters DEF Word_
<1> DEFINE p == Permutation!Pow2
           x == [i \in 1..WordBits |-> Differs(a, b, i)]
           t == [i \in 1..WordBits |-> p[i - 1] * x[i]]
           step == [i \in 1..WordBits |-> [s \in Nat |-> s + t[i]]]
<1>2. /\ \A n \in 0..WordBits : p[n] \in Nat \ {0}
      /\ p[0] = 1 /\ \A n \in 1..WordBits : p[n] = 2 * p[n - 1]
  BY PowersOfTwo
<1>3. \A i \in 1..WordBits : x[i] \in {0, 1}
  <2> SUFFICES ASSUME NEW i \in 1..WordBits PROVE Differs(a, b, i) \in {0, 1}
    OBVIOUS
  <2>1. i - 1 \in 0..WordBits
    BY <1>1
  <2>2. Permutation!BitOf(a, i - 1) \in 0..1 /\ Permutation!BitOf(b, i - 1) \in 0..1
    <3> DEFINE q == p[i - 1]
    <3>1. q \in Nat \ {0}
      BY <1>2, <2>1
    <3> HIDE DEF q
    <3>2. (a \div q) \in Nat /\ (b \div q) \in Nat
      BY <1>1, <3>1
    <3>3. (a \div q) % 2 \in 0..1 /\ (b \div q) % 2 \in 0..1
      BY <3>2
    <3> QED
      BY <3>3 DEF Permutation!BitOf, q
  <2>3. \A c, d \in 0..1 : (c + d) % 2 \in {0, 1}
    OBVIOUS
  <2> QED
    BY <2>2, <2>3 DEF Differs
<1>4. \A i \in 1..WordBits : t[i] \in Nat /\ t[i] <= p[i - 1]
  <2> SUFFICES ASSUME NEW i \in 1..WordBits PROVE t[i] \in Nat /\ t[i] <= p[i - 1]
    OBVIOUS
  <2>1. i - 1 \in 0..WordBits
    BY <1>1
  <2>2. p[i - 1] \in Nat /\ x[i] \in {0, 1}
    BY <1>2, <1>3, <2>1
  <2>3. t[i] = p[i - 1] * x[i]
    OBVIOUS
  <2> HIDE DEF p, x, t
  <2> QED
    BY <2>2, <2>3
<1>5. \A i \in 1..WordBits : t[i] = p[i - 1] * Differs(a, b, i)
  OBVIOUS
<1> HIDE DEF p, x, t
<1>6. step \in [1..WordBits -> [Nat -> Nat]]
  BY <1>4
<1>7. \A i \in 1..WordBits, s \in Nat : step[i][s] = s + t[i]
  OBVIOUS
<1> HIDE DEF step
<1>8. PICK f : IsFold(f, WordBits, Nat, 0, step)
  BY <1>1, <1>6, FoldExists
<1>9. /\ f \in [0..WordBits -> Nat] /\ f[0] = 0
      /\ \A i \in 1..WordBits : f[i] = f[i - 1] + t[i]
  <2>1. f \in [0..WordBits -> Nat] /\ f[0] = 0 /\ \A i \in 1..WordBits : f[i] = step[i][f[i - 1]]
    BY <1>8 DEF IsFold
  <2>2. \A i \in 1..WordBits : i - 1 \in 0..WordBits
    BY <1>1
  <2> QED
    BY <1>7, <2>1, <2>2
<1>10. LowBits(f, a, b)
  <2>1. \A i \in 0..WordBits : i # 0 => i \in 1..WordBits
    BY <1>1
  <2>2. \A i \in 0..WordBits : f[i] = IF i = 0 THEN 0 ELSE f[i - 1] + p[i - 1] * Differs(a, b, i)
    BY <1>5, <1>9, <2>1
  <2> QED
    BY <1>9, <2>2 DEF LowBits, Differs, p
<1> DEFINE g == CHOOSE g : LowBits(g, a, b)
<1>11. LowBits(g, a, b)
  BY <1>10
<1>12. Permutation!Xor(a, b) = g[WordBits]
  BY DEF Permutation!Xor, Permutation!XorTable, Word_, LowBits
<1> HIDE DEF g
<1>13. g[0] = 0 /\ \A i \in 1..WordBits : g[i] = g[i - 1] + t[i]
  <2>1. 0 \in 0..WordBits /\ \A i \in 1..WordBits : i \in 0..WordBits /\ i # 0
    BY <1>1
  <2>2. \A i \in 0..WordBits : g[i] = IF i = 0 THEN 0 ELSE g[i - 1] + p[i - 1] * Differs(a, b, i)
    BY <1>11 DEF LowBits, Differs, p
  <2> QED
    BY <1>5, <2>1, <2>2
<1> DEFINE S == {i \in Nat : g[i] \in 0..p[i] - 1}
<1>14. 0 \in S
  BY <1>2, <1>13
<1>15. ASSUME NEW i \in 0..WordBits - 1, i \in S PROVE i + 1 \in S
  <2>1. i + 1 \in 1..WordBits /\ (i + 1) - 1 = i /\ i \in 0..WordBits /\ i \in Nat
    BY <1>1
  <2>2. g[i + 1] = g[i] + t[i + 1] /\ p[i + 1] = 2 * p[i]
    BY <1>2, <1>13, <2>1
  <2>3. t[i + 1] \in Nat /\ t[i + 1] <= p[i] /\ p[i] \in Nat
    BY <1>2, <1>4, <2>1
  <2>4. g[i] \in 0..p[i] - 1
    BY <1>15
  <2>5. g[i + 1] \in 0..p[i + 1] - 1
    BY <2>2, <2>3, <2>4
  <2> QED
    BY <2>1, <2>5
<1>16. WordBits \in S
  <2>1. 0..WordBits \subseteq S
    <3> HIDE DEF S
    <3> QED
      BY <1>1, <1>14, <1>15, BoundedInduction
  <2> HIDE DEF S
  <2> QED
    BY <1>1, <2>1
<1> QED
  BY <1>12, <1>16 DEF Word_, Permutation!Modulus, p

-----------------------------------------------------------------------------
(* The permutation of Chaskey *)

USE DEF Permutation!Index

\* A block has four words.
Words(w) == w = [i \in Permutation!Index |-> w[i]]

\* A block that is written as four words.
LEMMA FourWords ==
  ASSUME NEW a, NEW b, NEW c, NEW d, NEW w,
         w = [i \in Permutation!Index |-> <<a, b, c, d>>[i + 1]]
  PROVE  w[0] = a /\ w[1] = b /\ w[2] = c /\ w[3] = d /\ Words(w)
BY DEF Words

\* Blocks with the same words are the same.
LEMMA SameWords ==
  ASSUME NEW w, NEW x, Words(w), Words(x),
         w[0] = x[0], w[1] = x[1], w[2] = x[2], w[3] = x[3]
  PROVE  w = x
BY DEF Words

\* The rotation touches one word.
LEMMA RotatedWords ==
  ASSUME NEW w, Words(w)
  PROVE  /\ Words(Permutation!Rotated(w))
         /\ Permutation!Rotated(w)[0] = w[0] /\ Permutation!Rotated(w)[1] = w[1]
         /\ Permutation!Rotated(w)[2] = Permutation!Swap(w[2])
         /\ Permutation!Rotated(w)[3] = w[3]
BY DEF Words, Permutation!Rotated

\* A turn of the loop and a rotation do what a rotation and a round do.
LEMMA RoundAgrees ==
  ASSUME NEW w, Words(w)
  PROVE  /\ Words(Permutation!Round(w))
         /\ Permutation!Rotated(Permutation!Round(w))
              = Permutation!TextRound(Permutation!Rotated(w))
<1> DEFINE t == Permutation!Rotated(w)
           h == Permutation!Half(t, 5, 8)
           k == [i \in Permutation!Index |->
                    <<h[2], h[1], Permutation!Swap(h[0]), h[3]>>[i + 1]]
           g == Permutation!Half(k, 7, 13)
           r == Permutation!Round(w)
<1>1. /\ t[0] = w[0] /\ t[1] = w[1] /\ t[2] = Permutation!Swap(w[2]) /\ t[3] = w[3]
  BY RotatedWords
<1> HIDE DEF t
<1>2. /\ h[0] = Permutation!_u32(t[0] + t[1])
      /\ h[1] = Permutation!Xor(h[0], Permutation!_rol32(t[1], 5))
      /\ h[2] = Permutation!_u32(t[3] + t[2])
      /\ h[3] = Permutation!Xor(h[2], Permutation!_rol32(t[3], 8))
  BY DEF Permutation!Half
<1> HIDE DEF h
<1>3. /\ k[0] = h[2] /\ k[1] = h[1] /\ k[2] = Permutation!Swap(h[0]) /\ k[3] = h[3]
  BY FourWords
<1> HIDE DEF k
<1>4. /\ g[0] = Permutation!_u32(k[0] + k[1])
      /\ g[1] = Permutation!Xor(g[0], Permutation!_rol32(k[1], 7))
      /\ g[2] = Permutation!_u32(k[3] + k[2])
      /\ g[3] = Permutation!Xor(g[2], Permutation!_rol32(k[3], 13))
  BY DEF Permutation!Half
<1> HIDE DEF g
<1>5. Permutation!TextRound(t) =
         [i \in Permutation!Index |-> <<g[2], g[1], Permutation!Swap(g[0]), g[3]>>[i + 1]]
  BY DEF Permutation!TextRound, g, k, h
<1>6. /\ r[0] = g[2] /\ r[1] = g[1] /\ r[2] = g[0] /\ r[3] = g[3]
      /\ Words(r)
  BY <1>1, <1>2, <1>3, <1>4 DEF Permutation!Round, Words
<1> HIDE DEF r
<1>7. Permutation!Rotated(r) = Permutation!TextRound(t)
  BY <1>5, <1>6, FourWords, SameWords, RotatedWords
<1> QED
  BY <1>6, <1>7 DEF r, t

\* A block of words.
Block(w) == Words(w) /\ \A i \in Permutation!Index : w[i] \in Word_

\* Additions, rotations and exclusive ors of words give words.
LEMMA RoundBlock ==
  ASSUME NEW w, Block(w)
  PROVE  Block(Permutation!Round(w))
<1> DEFINE sum(a, b) == Permutation!_u32(a + b)
           v0 == sum(w[0], w[1])
           r1 == Permutation!_rol32(w[1], 5)
           v1 == Permutation!Xor(v0, r1)
           s2 == Permutation!Swap(w[2])
           v2 == sum(w[3], s2)
           r3 == Permutation!_rol32(w[3], 8)
           v3 == Permutation!Xor(v2, r3)
           v2x == sum(v2, v1)
           s0 == Permutation!Swap(v0)
           v0x == sum(v3, s0)
           r1x == Permutation!_rol32(v1, 7)
           v1x == Permutation!Xor(v2x, r1x)
           r3x == Permutation!_rol32(v3, 13)
           v3x == Permutation!Xor(v0x, r3x)
           r == Permutation!Round(w)
<1>1. w[0] \in Word_ /\ w[1] \in Word_ /\ w[2] \in Word_ /\ w[3] \in Word_
  BY DEF Block
<1>2. r = [i \in Permutation!Index |-> <<v0x, v1x, v2x, v3x>>[i + 1]]
  BY DEF Permutation!Round
<1>3. \A a, b \in Word_ : sum(a, b) \in Word_
  <2> SUFFICES ASSUME NEW a \in Word_, NEW b \in Word_ PROVE sum(a, b) \in Word_
    OBVIOUS
  <2>1. a + b \in Nat
    BY DEF Word_
  <2> QED
    BY <2>1, TruncatedWord
<1>4. \A a, b \in Word_ : Permutation!Xor(a, b) \in Word_
  BY XorWord
<1>5. \A a \in Word_ : \A n \in {5, 7, 8, 13} : Permutation!_rol32(a, n) \in Word_
  BY RotatedWord
<1>6. \A a \in Word_ : Permutation!Swap(a) \in Word_
  BY SwappedTwice
<1> HIDE DEF sum
<1>7. v0 \in Word_ /\ r1 \in Word_ /\ s2 \in Word_ /\ r3 \in Word_
  BY <1>1, <1>3, <1>5, <1>6
<1> HIDE DEF v0, r1, s2, r3
<1>8. v1 \in Word_ /\ v2 \in Word_ /\ s0 \in Word_
  BY <1>1, <1>3, <1>4, <1>6, <1>7
<1> HIDE DEF v1, v2, s0
<1>9. v3 \in Word_ /\ v2x \in Word_ /\ r1x \in Word_
  BY <1>3, <1>4, <1>5, <1>7, <1>8
<1> HIDE DEF v3, v2x, r1x
<1>10. v0x \in Word_ /\ v1x \in Word_ /\ r3x \in Word_
  BY <1>3, <1>4, <1>5, <1>8, <1>9
<1> HIDE DEF v0x, v1x, r3x
<1>11. v3x \in Word_
  BY <1>4, <1>10
<1> HIDE DEF v3x, r
<1>12. r[0] = v0x /\ r[1] = v1x /\ r[2] = v2x /\ r[3] = v3x /\ Words(r)
  BY <1>2, FourWords
<1>13. Words(r) /\ \A i \in Permutation!Index : r[i] \in Word_
  BY <1>9, <1>10, <1>11, <1>12
<1> QED
  BY <1>13 DEF Block, r

\* The code's words and those of the textbook.
RoundInv ==
    subject = "permutation" => Block(v) /\ Permutation!Rotated(v) = text

\* Each turn of the loop is a round of the textbook, and its words are words.
LEMMA RoundInvariant == Spec => []RoundInv
<1>1. Init => RoundInv
  <2> SUFFICES ASSUME Init, subject = "permutation" PROVE RoundInv
    BY DEF RoundInv
  <2>1. Permutation!Init
    BY DEF Init
  <2>2. /\ Words(text) /\ v = Permutation!Rotated(text)
        /\ \A i \in Permutation!Index : text[i] \in Word_
    BY <2>1, Parameters DEF Permutation!Init, Words, Word_
  <2>3. /\ text[2] \in Word_ /\ Permutation!Swap(text[2]) \in Word_
        /\ Permutation!Swap(Permutation!Swap(text[2])) = text[2]
    BY <2>2, SwappedTwice
  <2>4. Words(v) /\ Words(Permutation!Rotated(v))
    BY <2>2, RotatedWords
  <2>5. Permutation!Rotated(v) = text
    BY <2>2, <2>3, <2>4, RotatedWords, SameWords
  <2>6. /\ v[0] = text[0] /\ v[1] = text[1]
        /\ v[2] = Permutation!Swap(text[2]) /\ v[3] = text[3]
    BY <2>2, RotatedWords
  <2>7. \A i \in Permutation!Index : v[i] \in Word_
    BY <2>2, <2>3, <2>6
  <2> QED
    BY <2>4, <2>5, <2>7 DEF RoundInv, Block
<1>2. RoundInv /\ [Next]_vars => RoundInv'
  <2> SUFFICES ASSUME RoundInv, [Next]_vars, subject' = "permutation" PROVE RoundInv'
    BY DEF RoundInv
  <2>1. CASE subject = "permutation" /\ Permutation!Next
    <3>1. v' = Permutation!Round(v) /\ text' = Permutation!TextRound(text)
      BY <2>1 DEF Permutation!Next, Permutation!Permute
    <3>2. Block(v) /\ Permutation!Rotated(v) = text
      BY <2>1 DEF RoundInv
    <3>3. Words(v)
      BY <3>2 DEF Block
    <3>4. Block(v') /\ Permutation!Rotated(v') = text'
      BY <3>1, <3>2, <3>3, RoundBlock, RoundAgrees
    <3> QED
      BY <3>4 DEF RoundInv
  <2>2. CASE UNCHANGED <<subject, v, text>>
    BY <2>2 DEF RoundInv, Block, Words, Permutation!Rotated
  <2>3. (subject = "permutation" /\ Permutation!Next) \/ UNCHANGED <<subject, v, text>>
    BY DEF Next, vars, roundVars
  <2> QED
    BY <2>1, <2>2, <2>3
<1> QED
  BY <1>1, <1>2, PTL DEF Spec

\* _chaskey_permute may keep its third word rotated between rounds: the last
\* rotation gives the textbook's words, for words of any even number of bits and
\* any number of rounds.
THEOREM RoundsAlwaysAgree == Spec => []RoundsAgree
<1>1. RoundInv => RoundsAgree
  BY DEF RoundInv, RoundsAgree, Permutation!RoundsAgree
<1> QED
  BY <1>1, RoundInvariant, PTL

-----------------------------------------------------------------------------
(* The subkeys of Chaskey *)

\* A doubled word is its lower bits, one place up, and the bit that falls off.
LEMMA DoubledWord ==
  ASSUME NEW w \in Word_
  PROVE  /\ Permutation!BitOf(w, WordBits - 1) \in {0, 1}
         /\ Permutation!_u32(w * 2) \in 0..Permutation!Modulus - 2
         /\ 2 * w = Permutation!_u32(w * 2)
                      + Permutation!Modulus * Permutation!BitOf(w, WordBits - 1)
<1> DEFINE h == Permutation!Pow2[WordBits - 1]
           m == Permutation!Modulus
<1>1. WordBits \in Nat \ {0} /\ WordBits \in 1..WordBits /\ WordBits - 1 \in 0..WordBits
  BY Parameters
<1>2. h \in Nat \ {0} /\ m = 2 * h
  BY <1>1, PowersOfTwo DEF Permutation!Modulus
<1>3. w \in 0..m - 1 /\ w \in Nat
  BY DEF Word_
<1>4. /\ Permutation!BitOf(w, WordBits - 1) = (w \div h) % 2
      /\ Permutation!_u32(w * 2) = (w * 2) % m
  BY DEF Permutation!BitOf, Permutation!_u32
<1> HIDE DEF h, m
<1>5. w \in 0..2 * h - 1
  BY <1>2, <1>3
<1>6. w \div h \in 0..1 /\ w % h \in 0..h - 1 /\ w = h * (w \div h) + (w % h)
  <2>1. 2 - 1 = 1 /\ 2 \in Nat \ {0}
    OBVIOUS
  <2> QED
    BY <1>2, <1>5, <2>1, PartsSwap
<1> DEFINE b == w \div h
           k == w % h
<1>7. b \in {0, 1} /\ k \in 0..h - 1 /\ w = h * b + k
  BY <1>6
<1>8. Permutation!BitOf(w, WordBits - 1) = b
  <2>1. \A c \in {0, 1} : c % 2 = c
    OBVIOUS
  <2> HIDE DEF b
  <2> QED
    BY <1>4, <1>7, <2>1 DEF b
<1> HIDE DEF b, k
<1> DEFINE r == 2 * k
<1>9. r \in 0..m - 2 /\ r \in 0..m - 1
  BY <1>2, <1>7
<1>10. w * 2 = m * b + r /\ 2 * w = r + m * b
  BY <1>2, <1>7
<1> HIDE DEF r
<1>11. (w * 2) % m = r
  <2>1. m \in Nat \ {0} /\ b \in Nat
    BY <1>2, <1>7
  <2>2. (m * b + r) % m = r
    BY <1>9, <2>1, Quotient
  <2> QED
    BY <1>10, <2>2
<1> QED
  BY <1>4, <1>7, <1>8, <1>9, <1>10, <1>11 DEF m

\* The bit that falls off a word is added to the next one.
LEMMA CarriedUp ==
  ASSUME NEW m \in Nat, NEW u \in Nat, NEW b \in Nat, NEW a \in Nat, NEW t \in Nat
  PROVE  (u + m * b) + m * (a + t) = u + m * ((a + b) + t)
<1>1. m * (a + t) = m * a + m * t
  OBVIOUS
<1>2. m * ((a + b) + t) = m * a + m * b + m * t
  OBVIOUS
<1>3. m * a \in Nat /\ m * b \in Nat /\ m * t \in Nat
  OBVIOUS
<1> QED
  BY <1>1, <1>2, <1>3

\* A number of two digits.
LEMMA TwoDigits ==
  ASSUME NEW m \in Nat \ {0}, NEW n \in Nat \ {0}, NEW x \in 0..m - 1, NEW y \in 0..n - 1
  PROVE  x + m * y \in 0..m * n - 1
<1>1. n - 1 - y \in Nat
  OBVIOUS
<1>2. m * (n - 1 - y) \in Nat
  BY <1>1
<1>3. m * (n - 1 - y) = m * n - m - m * y
  OBVIOUS
<1>4. m * y \in Nat /\ m * n \in Nat
  OBVIOUS
<1> QED
  BY <1>2, <1>3, <1>4

\* Word by word, with the carries between words, a subkey is twice the block.
LEMMA SubkeyDoubles ==
  ASSUME NEW w, Block(w)
  PROVE  LET double == 2 * Permutation!Whole(w)
             top == Permutation!Modulus * Permutation!Modulus
                      * Permutation!Modulus * Permutation!Modulus
             kept == double % top
             low == kept % Permutation!Modulus
         IN  Permutation!Whole(Permutation!Subkey(w)) =
               (kept - low) + Permutation!Xor(low, IF double >= top THEN Carry ELSE 0)
<1> DEFINE m == Permutation!Modulus
           b(i) == Permutation!BitOf(w[i], WordBits - 1)
           u(i) == Permutation!_u32(w[i] * 2)
           fallen == IF b(3) = 1 THEN Carry ELSE 0
           x == Permutation!Xor(u(0), fallen)
           k1 == u(1) + b(0)
           k2 == u(2) + b(1)
           k3 == u(3) + b(2)
           s == Permutation!Subkey(w)
<1>1. m \in Nat \ {0}
  BY ModulusParts
<1>2. ASSUME NEW i \in Permutation!Index
      PROVE  /\ w[i] \in Nat /\ b(i) \in {0, 1} /\ u(i) \in 0..m - 2
             /\ 2 * w[i] = u(i) + m * b(i)
  <2>1. w[i] \in Word_
    BY DEF Block
  <2> QED
    BY <2>1, DoubledWord DEF Word_
<1>3. s[0] = x /\ s[1] = k1 /\ s[2] = k2 /\ s[3] = k3
  BY DEF Permutation!Subkey
<1>4. x \in 0..m - 1
  <2>1. u(0) \in Word_
    BY <1>1, <1>2 DEF Word_
  <2>2. Carry \in Word_ /\ 0 \in Word_
    BY <1>1, Parameters DEF Word_
  <2> QED
    BY <2>1, <2>2, XorWord DEF Word_
<1>5. /\ w[0] \in Nat /\ b(0) \in {0, 1} /\ u(0) \in 0..m - 2 /\ 2 * w[0] = u(0) + m * b(0)
      /\ w[1] \in Nat /\ b(1) \in {0, 1} /\ u(1) \in 0..m - 2 /\ 2 * w[1] = u(1) + m * b(1)
      /\ w[2] \in Nat /\ b(2) \in {0, 1} /\ u(2) \in 0..m - 2 /\ 2 * w[2] = u(2) + m * b(2)
      /\ w[3] \in Nat /\ b(3) \in {0, 1} /\ u(3) \in 0..m - 2 /\ 2 * w[3] = u(3) + m * b(3)
  BY <1>2
<1>6. PICK b0, b1, b2, b3, u0, u1, u2, u3 :
        /\ b0 = b(0) /\ b1 = b(1) /\ b2 = b(2) /\ b3 = b(3)
        /\ u0 = u(0) /\ u1 = u(1) /\ u2 = u(2) /\ u3 = u(3)
  OBVIOUS
<1>7. /\ b0 \in {0, 1} /\ b1 \in {0, 1} /\ b2 \in {0, 1} /\ b3 \in {0, 1}
      /\ u0 \in 0..m - 2 /\ u1 \in 0..m - 2 /\ u2 \in 0..m - 2 /\ u3 \in 0..m - 2
      /\ 2 * w[0] = u0 + m * b0 /\ 2 * w[1] = u1 + m * b1
      /\ 2 * w[2] = u2 + m * b2 /\ 2 * w[3] = u3 + m * b3
  BY <1>5, <1>6
<1>8. k1 = u1 + b0 /\ k2 = u2 + b1 /\ k3 = u3 + b2
      /\ fallen = (IF b3 = 1 THEN Carry ELSE 0) /\ x = Permutation!Xor(u0, fallen)
  BY <1>6
<1> HIDE DEF m, b, u, fallen, x, k1, k2, k3, s
<1>9. /\ k1 \in 0..m - 1 /\ k2 \in 0..m - 1 /\ k3 \in 0..m - 1 /\ u0 \in 0..m - 1
      /\ b0 \in Nat /\ b1 \in Nat /\ b2 \in Nat /\ b3 \in Nat /\ m \in Nat
      /\ u0 \in Nat /\ u1 \in Nat /\ u2 \in Nat /\ u3 \in Nat
      /\ k1 \in Nat /\ k2 \in Nat /\ k3 \in Nat
      /\ w[0] \in Nat /\ w[1] \in Nat /\ w[2] \in Nat /\ w[3] \in Nat
  BY <1>1, <1>5, <1>7, <1>8
<1> DEFINE t3 == m * b3
           t2 == m * (k3 + t3)
           t1 == m * (k2 + t2)
           t0 == m * (k1 + t1)
           x2 == w[2] + m * w[3]
           x1 == w[1] + m * x2
           x0 == w[0] + m * x1
<1>10. t3 \in Nat /\ x2 \in Nat
  BY <1>9
<1>11. 2 * x2 = u2 + t2
  <2>1. 2 * (w[2] + m * w[3]) = 2 * w[2] + m * (2 * w[3])
    BY <1>9, <1>10
  <2>2. 2 * (w[2] + m * w[3]) = (u2 + m * b2) + m * (u3 + t3)
    BY <1>7, <1>9, <1>10, <2>1
  <2>3. (u2 + m * b2) + m * (u3 + t3) = u2 + m * ((u3 + b2) + t3)
    BY <1>9, <1>10, CarriedUp
  <2> QED
    BY <1>8, <2>2, <2>3
<1>12. Permutation!Whole(w) = x0
  BY DEF Permutation!Whole, m
<1> HIDE DEF t3, x2
<1>13. t2 \in Nat /\ x1 \in Nat
  <2>1. k3 + t3 \in Nat
    BY <1>9, <1>10
  <2>2. m * x2 \in Nat
    BY <1>9, <1>10
  <2>3. m * (k3 + t3) \in Nat
    BY <1>9, <2>1
  <2> QED
    BY <1>9, <2>2, <2>3
<1> HIDE DEF t2
<1>14. 2 * x1 = u1 + t1
  <2>1. 2 * (w[1] + m * x2) = 2 * w[1] + m * (2 * x2)
    BY <1>9, <1>10, <1>11, <1>13
  <2>2. 2 * (w[1] + m * x2) = (u1 + m * b1) + m * (u2 + t2)
    BY <1>7, <1>9, <1>10, <1>11, <1>13, <2>1
  <2>3. (u1 + m * b1) + m * (u2 + t2) = u1 + m * ((u2 + b1) + t2)
    BY <1>9, <1>10, <1>11, <1>13, CarriedUp
  <2> QED
    BY <1>8, <2>2, <2>3
<1>15. t1 \in Nat
  <2>1. k2 + t2 \in Nat
    BY <1>9, <1>13
  <2> QED
    BY <1>9, <2>1
<1> HIDE DEF x1, t1
<1>16. 2 * x0 = u0 + t0
  <2>1. 2 * (w[0] + m * x1) = 2 * w[0] + m * (2 * x1)
    BY <1>9, <1>13, <1>14, <1>15
  <2>2. 2 * (w[0] + m * x1) = (u0 + m * b0) + m * (u1 + t1)
    BY <1>7, <1>9, <1>13, <1>14, <1>15, <2>1
  <2>3. (u0 + m * b0) + m * (u1 + t1) = u0 + m * ((u1 + b0) + t1)
    BY <1>9, <1>13, <1>14, <1>15, CarriedUp
  <2> QED
    BY <1>8, <2>2, <2>3
<1> HIDE DEF x0
<1> DEFINE n2 == m * m
           n3 == m * n2
           n4 == m * n3
           d2 == k2 + m * k3
           d1 == k1 + m * d2
           rest == m * d1
           kept == u0 + rest
<1>17. t0 = rest + n4 * b3
  <2>1. t2 = m * k3 + n2 * b3
    <3>1. m * (k3 + m * b3) = m * k3 + (m * m) * b3
      BY <1>9
    <3> QED
      BY <3>1 DEF t2, t3
  <2>2. n2 \in Nat
    BY <1>9
  <2> HIDE DEF n2
  <2>3. k2 + t2 = d2 + n2 * b3 /\ d2 \in Nat
    <3>1. m * k3 \in Nat /\ n2 * b3 \in Nat
      BY <1>9, <2>2
    <3> QED
      BY <1>9, <2>1, <3>1
  <2> HIDE DEF d2
  <2>4. t1 = m * d2 + n3 * b3
    <3>1. m * (d2 + n2 * b3) = m * d2 + (m * n2) * b3
      BY <1>9, <2>2, <2>3
    <3> QED
      BY <2>3, <3>1 DEF t1
  <2>5. n3 \in Nat
    BY <1>9, <2>2
  <2> HIDE DEF n3
  <2>6. k1 + t1 = d1 + n3 * b3 /\ d1 \in Nat
    <3>1. m * d2 \in Nat /\ n3 * b3 \in Nat
      BY <1>9, <2>3, <2>5
    <3> QED
      BY <1>9, <2>4, <3>1
  <2> HIDE DEF d1
  <2>7. m * (d1 + n3 * b3) = m * d1 + (m * n3) * b3
    BY <1>9, <2>5, <2>6
  <2> QED
    BY <2>6, <2>7
<1>18. d1 \in Nat /\ d1 \in 0..n3 - 1 /\ n3 \in Nat \ {0}
  <2>1. n2 \in Nat \ {0}
    BY <1>1
  <2>2. d2 \in 0..n2 - 1
    BY <1>1, <1>9, TwoDigits
  <2> HIDE DEF n2, d2
  <2>3. n3 \in Nat \ {0}
    BY <1>1, <2>1
  <2>4. d1 \in 0..n3 - 1
    BY <1>1, <1>9, <2>1, <2>2, TwoDigits
  <2> HIDE DEF n3, d1
  <2> QED
    BY <2>3, <2>4
<1>19. Permutation!Whole(s) = x + rest
  BY <1>3 DEF Permutation!Whole, m
<1>20. n4 = Permutation!Modulus * Permutation!Modulus
              * Permutation!Modulus * Permutation!Modulus
  <2>1. m * (m * (m * m)) = ((m * m) * m) * m
    BY <1>9
  <2> QED
    BY <2>1 DEF m
<1> HIDE DEF n3, d1
<1>21. n4 \in Nat \ {0} /\ kept \in 0..n4 - 1 /\ rest \in Nat
  <2>1. n4 \in Nat \ {0}
    BY <1>1, <1>18
  <2>2. kept \in 0..n4 - 1
    BY <1>1, <1>9, <1>18, TwoDigits
  <2>3. rest \in Nat
    BY <1>9, <1>18
  <2> QED
    BY <2>1, <2>2, <2>3
<1>22. kept % m = u0
  <2>1. (m * d1 + u0) % m = u0
    BY <1>1, <1>9, <1>18, Quotient
  <2> QED
    BY <1>9, <1>21, <2>1
<1> HIDE DEF n4, rest, t0
<1>23. 2 * x0 = n4 * b3 + kept /\ n4 * b3 \in Nat
  BY <1>9, <1>16, <1>17, <1>21
<1> HIDE DEF kept
<1>24. (2 * x0) % n4 = kept
  <2>1. (n4 * b3 + kept) % n4 = kept
    BY <1>9, <1>21, Quotient
  <2> QED
    BY <1>23, <2>1
<1>25. 2 * x0 >= n4 <=> b3 = 1
  <2>1. CASE b3 = 0
    BY <1>21, <1>23, <2>1
  <2>2. CASE b3 = 1
    BY <1>21, <1>23, <2>2
  <2> QED
    BY <1>7, <2>1, <2>2
<1>26. fallen = IF 2 * x0 >= n4 THEN Carry ELSE 0
  BY <1>8, <1>25
<1>27. x + rest = (kept - u0) + x
  BY <1>4, <1>9, <1>21 DEF kept
<1>28. Permutation!Whole(s) = (kept - u0) + Permutation!Xor(u0, fallen)
  BY <1>8, <1>19, <1>27
<1> QED
  BY <1>12, <1>20, <1>22, <1>24, <1>26, <1>28 DEF m, s

\* chaskey_subkeys doubles the key as one number of four words, whatever carries
\* run between its words, and Carry stands for the bit that falls off the top.
THEOREM KeysDouble == Spec => []SubkeysDouble
<1>1. RoundInv => SubkeysDouble
  BY SubkeyDoubles DEF RoundInv, SubkeysDouble, Permutation!SubkeysDouble
<1> QED
  BY <1>1, RoundInvariant, PTL
=============================================================================
