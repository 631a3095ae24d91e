------------------------ MODULE FlicSessionOrderProofs ------------------------
(***************************************************************************)
(* Lines, OrderInv and HonestInv of FlicSessionOrder are inductive: what   *)
(* is on its way stays in the button's order, whatever is fed, handled,    *)
(* notified or lost.  So events are delivered in order and none is missed, *)
(* and the sessions of an honest button fail only for reasons it has.      *)
(***************************************************************************)
EXTENDS FlicSessionOrder, FlicSessionProofs

-----------------------------------------------------------------------------
(* The order of what is on its way *)

\* The order of packets is a matter of the set-up only, which never changes.
LEMMA OrderKept ==
  ASSUME setup' = setup
  PROVE  /\ \A p : Own(p)' = Own(p)
         /\ \A p, q : Before(p, q)' = Before(p, q)
         /\ \A S, T : AllBefore(S, T)' = AllBefore(S, T)
         /\ \A S, T : Apart(S, T)' = Apart(S, T)
BY DEF Own, Before, AllBefore, Apart

\* Some of the packets are in the order that all of them are in.
LEMMA SmallerSets ==
  ASSUME NEW S, NEW T, NEW A \in SUBSET S, NEW B \in SUBSET T
  PROVE  /\ AllBefore(S, T) => AllBefore(A, B)
         /\ Apart(S, T) => Apart(A, B)
BY DEF AllBefore, Apart

\* A rank is a number.
LEMMA RankTypes == \A p \in Packets : Rank(p) \in Nat
BY DEF Rank, Mine, OwnSigned, Packets

\* Packets in order are different ones.
LEMMA BeforeApart ==
  ASSUME NEW S \in SUBSET Packets, NEW T \in SUBSET Packets, AllBefore(S, T)
  PROVE  Apart(S, T) /\ Apart(T, S)
BY RankTypes DEF AllBefore, Apart, Before

\* The packets of a handler, of a fragment and of the link are packets.
LEMMA LineTypes ==
  ASSUME TypeOK
  PROVE  /\ \A h \in Coros : packets[h] \in Seq(Packets) /\ Elements(packets[h]) \subseteq Packets
         /\ pendingFragment \in Seq(Packets) /\ Elements(pendingFragment) \subseteq Packets
         /\ downlink \in Seq(Values) /\ Elements(downlink) \subseteq Values
         /\ \A v \in Elements(downlink) :
              v.packets \in Seq(Packets) /\ v.packets # <<>> /\ Elements(v.packets) \subseteq Packets
         /\ \A i \in 1..Len(downlink) : downlink[i] \in Elements(downlink)
<1>1. /\ packets \in [Coros -> Seq(Packets)] /\ pendingFragment \in Seq(Packets)
      /\ downlink \in Seq(Values)
  BY DEF TypeOK
<1>2. Elements(downlink) \subseteq Values
  BY <1>1, ElementsOf
<1>3. \A v \in Values : v.packets \in Seq(Packets) /\ v.packets # <<>>
  BY DEF Values
<1>4. \A s \in Seq(Packets) : Elements(s) \subseteq Packets
  BY ElementsOf
<1>5. \A i \in 1..Len(downlink) : downlink[i] \in Elements(downlink)
  BY DEF Elements
<1> QED
  BY <1>1, <1>2, <1>3, <1>4, <1>5

\* What is left of packets in order is in order.
LEMMA AscendingTail ==
  ASSUME NEW s \in Seq(Packets), s # <<>>, Ascending(s)
  PROVE  /\ Ascending(Tail(s)) /\ AllBefore({Head(s)}, Elements(Tail(s)))
<1>1. Head(s) = s[1] /\ Len(s) \in Nat /\ Len(Tail(s)) = Len(s) - 1
      /\ \A i \in 1..Len(Tail(s)) : Tail(s)[i] = s[i + 1]
  BY HeadTailProperties
<1>2. \A i, j \in 1..Len(Tail(s)) : i < j => Before(Tail(s)[i], Tail(s)[j])
  BY <1>1 DEF Ascending
<1>3. \A j \in 1..Len(Tail(s)) : Before(s[1], Tail(s)[j])
  BY <1>1, EmptySeq DEF Ascending
<1> QED
  BY <1>1, <1>2, <1>3 DEF Ascending, AllBefore, Elements

\* The order after a step that keeps the set-up.
LEMMA InOrderNext ==
  ASSUME setup' = setup,
         \A h \in Coros :
            /\ Ascending(packets'[h])
            /\ AllBefore(Elements(packets'[h]), Elements(pendingFragment'))
            /\ \A v \in Elements(downlink') :
                 AllBefore(Elements(packets'[h]), Elements(v.packets))
            /\ \A g \in Coros \ {h} : Apart(Elements(packets'[g]), Elements(packets'[h])),
         \A v \in Elements(downlink') : Ascending(v.packets),
         \A i, j \in 1..Len(downlink') :
            i < j /\ ~(downlink'[i].more /\ j = i + 1) =>
               AllBefore(Elements(downlink'[i].packets), Elements(downlink'[j].packets)),
         \A j \in 2..Len(downlink') :
            AllBefore(Elements(pendingFragment'), Elements(downlink'[j].packets))
  PROVE  InOrder'
<1>1. \A p, q : Before(p, q)' = Before(p, q)
  BY OrderKept
<1>2. \A S, T : AllBefore(S, T)' = AllBefore(S, T) /\ Apart(S, T)' = Apart(S, T)
  BY OrderKept
<1>3. \A s : Ascending(s)' = Ascending(s)
  BY <1>1 DEF Ascending
<1>4. \A h \in Coros :
         /\ Ascending(packets[h])'
         /\ AllBefore(Elements(packets[h]), Elements(pendingFragment))'
         /\ \A v \in Elements(downlink)' : AllBefore(Elements(packets[h]), Elements(v.packets))'
         /\ \A g \in Coros \ {h} : Apart(Elements(packets[g]), Elements(packets[h]))'
  BY <1>1, <1>2 DEF Ascending, AllBefore, Apart, Elements, Before, Own
<1> QED
  BY <1>4 DEF InOrder, Ascending, AllBefore, Elements, Before, Own

\* A handler takes its next packet, or gives all of them up.
Fewer(h) ==
    \/ packets'[h] \in {packets[h], <<>>}
    \/ packets[h] # <<>> /\ packets'[h] = Tail(packets[h])

\* Packets that are handled, or given up, leave the others in their order.
LEMMA HandledLine ==
  ASSUME TypeOK, InOrder, FragmentsTogether, \A h \in Coros : Fewer(h),
         UNCHANGED <<setup, downlink, pendingFragment, broken>>
  PROVE  InOrder' /\ FragmentsTogether'
<1>3. ASSUME NEW h \in Coros
      PROVE  Elements(packets'[h]) \subseteq Elements(packets[h]) /\ Ascending(packets'[h])
  <2>1. packets[h] \in Seq(Packets) /\ Ascending(packets[h])
    BY DEF TypeOK, InOrder
  <2>2. packets[h] # <<>> => Ascending(Tail(packets[h]))
    BY <2>1, AscendingTail
  <2>3. Ascending(<<>>)
    BY DEF Ascending
  <2> QED
    BY <2>1, <2>2, <2>3, ElementsOf, ElementsOfFew DEF Fewer
<1>4. \A h \in Coros :
         /\ AllBefore(Elements(packets'[h]), Elements(pendingFragment))
         /\ \A v \in Elements(downlink) : AllBefore(Elements(packets'[h]), Elements(v.packets))
         /\ \A g \in Coros \ {h} : Apart(Elements(packets'[g]), Elements(packets'[h]))
  BY <1>3, SmallerSets DEF InOrder
<1>5. InOrder'
  BY <1>3, <1>4, InOrderNext DEF InOrder
<1>6. FragmentsTogether'
  BY DEF FragmentsTogether
<1> QED
  BY <1>5, <1>6

\* The parts of what is on its way, before and after a step.
LEMMA ArrivingParts ==
  /\ \A h \in Coros : Elements(packets[h]) \subseteq Arriving
  /\ \A v \in Elements(downlink) : Elements(v.packets) \subseteq Arriving
  /\ Elements(pendingFragment) \subseteq Arriving
BY ArrivingMember

\* What is on its way is in one of the parts.
LEMMA ArrivingFrom ==
  ASSUME NEW S,
         \A h \in Coros : Elements(packets'[h]) \subseteq S,
         \A v \in Elements(downlink') : Elements(v.packets) \subseteq S,
         Elements(pendingFragment') \subseteq S
  PROVE  Arriving' \subseteq S
BY ArrivingMemberNext

\* Nothing comes between the pieces of a packet, so none is put together wrongly,
\* and a handler that is fed has the packets that were next.
LEMMA FedLine ==
  ASSUME TypeOK, InOrder, FragmentsTogether, NEW h \in Handlers, Feed(h)
  PROVE  /\ InOrder' /\ FragmentsTogether' /\ Arriving' = Arriving
         /\ \A g \in Coros \ {h} : packets'[g] = packets[g]
<1> DEFINE v == Head(downlink)
<1>1. /\ h \in Coros /\ packets \in [Coros -> Seq(Packets)] /\ packets[h] = <<>>
      /\ setup' = setup /\ broken' = broken /\ downlink # <<>> /\ downlink' = Tail(downlink)
  BY DEF Feed, Idle, TypeOK, Coros
<1>2. /\ v = downlink[1] /\ v \in Elements(downlink) /\ Len(downlink) \in Nat \ {0}
      /\ Len(downlink') = Len(downlink) - 1 /\ downlink' \in Seq(Values)
      /\ \A i \in 1..Len(downlink') : downlink'[i] = downlink[i + 1]
      /\ Elements(downlink') \subseteq Elements(downlink)
  <2>1. downlink \in Seq(Values)
    BY DEF TypeOK
  <2>2. downlink \in Seq(Values) /\ downlink # <<>> => Elements(Tail(downlink)) \subseteq Elements(downlink)
    BY ElementsOf
  <2> QED
    BY <1>1, <2>1, <2>2, HeadTailProperties, EmptySeq DEF Elements
<1>3. /\ v.packets \in Seq(Packets) /\ v.packets # <<>> /\ v \in Values
      /\ Elements(v.packets) \subseteq Packets
  BY <1>2, LineTypes
<1> HIDE DEF v
<1>4. ASSUME NEW w \in Elements(downlink'), ~v.more
      PROVE  AllBefore(Elements(v.packets), Elements(w.packets))
  <2>1. PICK i \in 1..Len(downlink') : w = downlink[i + 1]
    BY <1>2 DEF Elements
  <2>2. 1 \in 1..Len(downlink) /\ i + 1 \in 1..Len(downlink) /\ 1 < i + 1
    BY <1>2, <2>1
  <2> QED
    BY <1>2, <1>4, <2>1, <2>2 DEF InOrder
<1>5. /\ \A i, j \in 1..Len(downlink') :
            i < j /\ ~(downlink'[i].more /\ j = i + 1) =>
               AllBefore(Elements(downlink'[i].packets), Elements(downlink'[j].packets))
      /\ \A w \in Elements(downlink') : Ascending(w.packets)
  BY <1>2 DEF InOrder
<1>6. \A g \in Coros : \A w \in Elements(downlink') :
        AllBefore(Elements(packets[g]), Elements(w.packets))
  BY <1>2 DEF InOrder
<1>9. \A i \in 1..Len(downlink') :
        downlink'[i].more =>
          LET q == downlink'[i].packets[1] IN
          /\ downlink'[i] = Piece(q)
          /\ IF i = Len(downlink') THEN broken' ELSE downlink'[i + 1] = Whole(q)
  <2> SUFFICES ASSUME NEW i \in 1..Len(downlink'), downlink'[i].more
               PROVE  LET q == downlink'[i].packets[1] IN
                      /\ downlink'[i] = Piece(q)
                      /\ IF i = Len(downlink') THEN broken' ELSE downlink'[i + 1] = Whole(q)
    OBVIOUS
  <2>1. i + 1 \in 1..Len(downlink) /\ downlink'[i] = downlink[i + 1]
        /\ (i = Len(downlink') <=> i + 1 = Len(downlink))
        /\ (i # Len(downlink') => downlink'[i + 1] = downlink[(i + 1) + 1])
    BY <1>2
  <2> QED
    BY <1>1, <2>1 DEF FragmentsTogether
<1>10. \A w \in Elements(downlink) : w = v \/ w \in Elements(downlink')
  <2> SUFFICES ASSUME NEW i \in 1..Len(downlink)
               PROVE  downlink[i] = v \/ downlink[i] \in Elements(downlink')
    BY DEF Elements
  <2>1. CASE i = 1
    BY <1>2, <2>1
  <2>2. CASE i # 1
    <3>1. i - 1 \in 1..Len(downlink') /\ downlink[i] = downlink'[i - 1]
      BY <1>2, <2>2
    <3> QED
      BY <3>1 DEF Elements
  <2> QED
    BY <2>1, <2>2
<1>7. CASE v.more
  <2> DEFINE p == v.packets[1]
  <2>1. /\ 1 \in 1..Len(downlink) /\ v = Piece(p)
        /\ IF 1 = Len(downlink) THEN broken ELSE downlink[2] = Whole(p)
    BY <1>2, <1>7 DEF FragmentsTogether
  <2> HIDE DEF p
  <2>2. v.packets = <<p>> /\ p \in Packets
    BY <1>3, <2>1 DEF Piece
  <2>3. pendingFragment = <<>>
    <3>1. \A q : ~Whole(q).more
      BY DEF Whole
    <3> QED
      BY <1>1, <1>2, <1>7, <3>1 DEF FragmentsTogether
  <2>4. pendingFragment' = <<p>> /\ UNCHANGED packets
    <3>1. pendingFragment' = pendingFragment \o v.packets /\ UNCHANGED packets
      BY <1>7 DEF Feed, v
    <3>2. \A t \in Seq(Packets) : <<>> \o t = t
      OBVIOUS
    <3> QED
      BY <1>3, <2>2, <2>3, <3>1, <3>2
  <2>5. Elements(pendingFragment') = {p} /\ Elements(v.packets) = {p} /\ Elements(pendingFragment) = {}
    BY <2>2, <2>3, <2>4, ElementsOfFew
  <2>6. \A j \in 2..Len(downlink') : AllBefore(Elements(pendingFragment'), Elements(downlink'[j].packets))
    <3> SUFFICES ASSUME NEW j \in 2..Len(downlink')
                 PROVE  AllBefore(Elements(v.packets), Elements(downlink[j + 1].packets))
      <4>1. \A j \in 2..Len(downlink') : downlink'[j] = downlink[j + 1]
        BY <1>2
      <4>2. Elements(pendingFragment') = Elements(v.packets)
        BY <2>5
      <4> QED
        BY <4>1, <4>2
    <3>1. 1 \in 1..Len(downlink) /\ j + 1 \in 1..Len(downlink) /\ 1 < j + 1 /\ j + 1 # 1 + 1
      BY <1>2
    <3> QED
      BY <1>2, <3>1 DEF InOrder
  <2>7. \A g \in Coros : AllBefore(Elements(packets[g]), Elements(pendingFragment'))
    BY <1>2, <2>5 DEF InOrder
  <2>8. InOrder'
    BY <1>1, <1>5, <1>6, <2>4, <2>6, <2>7, InOrderNext DEF InOrder
  <2>9. FragmentsTogether'
    <3>1. Len(pendingFragment') = 1 /\ pendingFragment'[1] = p
      <4>1. Len(<<p>>) = 1 /\ <<p>>[1] = p
        OBVIOUS
      <4> QED
        BY <2>4, <4>1
    <3>2. IF downlink' = <<>> THEN broken' ELSE downlink'[1] = Whole(p)
      <4>1. downlink' = <<>> <=> Len(downlink) = 1
        BY <1>2, EmptySeq
      <4>2. Len(downlink) # 1 => downlink'[1] = downlink[2]
        BY <1>2
      <4> QED
        BY <1>1, <2>1, <4>1, <4>2
    <3> QED
      BY <1>9, <3>1, <3>2 DEF FragmentsTogether
  <2>10. Arriving' = Arriving
    <3>1. \A q : q \in Arriving' => q \in Arriving
      <4>1. \A q : q \in Elements(pendingFragment') => q \in Elements(v.packets)
        BY <2>5
      <4>2. Elements(v.packets) \subseteq Arriving
        BY <1>2, ArrivingParts
      <4>3. \A w \in Elements(downlink') : Elements(w.packets) \subseteq Arriving
        BY <1>2, ArrivingParts
      <4> QED
        BY <2>4, <4>1, <4>2, <4>3, ArrivingParts, ArrivingFrom
    <3>2. \A w \in Elements(downlink) : w = v \/ w \in Elements(downlink')
      BY <1>10
    <3>3. \A q : q \in Arriving => q \in Arriving'
      BY <2>4, <2>5, <3>2, ArrivingMember, ArrivingMemberNext
    <3> QED
      BY <3>1, <3>3
  <2> QED
    BY <2>4, <2>8, <2>9, <2>10
<1>8. CASE ~v.more
  <2>1. PICK s \in {v.packets} :
           /\ packets' = [packets EXCEPT ![h] = s] /\ pendingFragment' = <<>>
           /\ Elements(pendingFragment) \subseteq Elements(s)
    <3>1. CASE pendingFragment = <<>>
      <4>1. packets' = [packets EXCEPT ![h] = v.packets] /\ pendingFragment' = <<>>
        BY <1>8, <3>1 DEF Feed, v
      <4> QED
        BY <3>1, <4>1, ElementsOfFew
    <3>2. CASE pendingFragment # <<>>
      <4> DEFINE p == pendingFragment[1]
      <4>1. Len(pendingFragment) = 1 /\ v = Whole(p)
        BY <1>1, <1>2, <3>2 DEF FragmentsTogether
      <4>2. pendingFragment \in Seq(Packets)
        BY DEF TypeOK
      <4>3. pendingFragment = <<p>>
        BY <4>1, <4>2
      <4> HIDE DEF p
      <4>4. v.packets = <<p>> /\ Head(v.packets) = p
        BY <4>1 DEF Whole
      <4>5. Joined(pendingFragment, Head(v.packets)) = p
        BY <4>3, <4>4 DEF Joined
      <4>6. packets' = [packets EXCEPT ![h] = <<p>>] /\ pendingFragment' = <<>>
        BY <1>8, <3>2, <4>5 DEF Feed, v
      <4> QED
        BY <4>3, <4>4, <4>6
    <3> QED
      BY <3>1, <3>2
  <2>2. packets'[h] = v.packets /\ \A g \in Coros \ {h} : packets'[g] = packets[g]
    BY <1>1, <2>1
  <2>3. Elements(pendingFragment') = {}
    BY <2>1, ElementsOfFew
  <2>4. Ascending(v.packets)
    BY <1>2 DEF InOrder
  <2>5. \A g \in Coros : Apart(Elements(packets[g]), Elements(v.packets))
                         /\ Apart(Elements(v.packets), Elements(packets[g]))
    BY <1>2, <1>3, LineTypes, BeforeApart DEF InOrder
  <2>6. \A g \in Coros :
          /\ Ascending(packets'[g])
          /\ AllBefore(Elements(packets'[g]), Elements(pendingFragment'))
          /\ \A w \in Elements(downlink') : AllBefore(Elements(packets'[g]), Elements(w.packets))
          /\ \A f \in Coros \ {g} : Apart(Elements(packets'[f]), Elements(packets'[g]))
    BY <1>4, <1>6, <1>8, <2>2, <2>3, <2>4, <2>5 DEF InOrder, AllBefore
  <2>7. \A j \in 2..Len(downlink') :
          AllBefore(Elements(pendingFragment'), Elements(downlink'[j].packets))
    BY <2>3 DEF AllBefore
  <2>8. InOrder'
    BY <1>1, <1>5, <2>6, <2>7, InOrderNext
  <2>9. FragmentsTogether'
    BY <1>9, <2>1 DEF FragmentsTogether
  <2>10. Arriving' = Arriving
    <3>1. \A q : q \in Arriving' => q \in Arriving
      <4>1. \A q : \A g \in Coros : q \in Elements(packets'[g]) =>
                     q \in Elements(packets[g]) \/ q \in Elements(v.packets)
        BY <2>2
      <4>2. \A q : q \notin Elements(pendingFragment')
        BY <2>3
      <4>3. Elements(v.packets) \subseteq Arriving
        BY <1>2, ArrivingParts
      <4>4. \A w \in Elements(downlink') : Elements(w.packets) \subseteq Arriving
        BY <1>2, ArrivingParts
      <4> QED
        BY <4>1, <4>2, <4>3, <4>4, ArrivingParts, ArrivingFrom
    <3>2. \A w \in Elements(downlink) : w = v \/ w \in Elements(downlink')
      BY <1>10
    <3>3. Elements(packets[h]) = {}
      BY <1>1, ElementsOfFew
    <3>4. \A q : q \in Arriving => q \in Arriving'
      BY <1>1, <2>1, <2>2, <3>2, <3>3, ArrivingMember, ArrivingMemberNext
    <3> QED
      BY <3>1, <3>4
  <2> QED
    BY <2>2, <2>8, <2>9, <2>10
<1> QED
  BY <1>7, <1>8

\* Values put on the link while it lasts: whole ones, or the pieces of a packet.
Sent(vs) ==
    /\ ~broken /\ broken' = broken
    /\ downlink' = downlink \o vs
    /\ \/ \E v \in Values : vs = <<v>> /\ ~v.more
       \/ \E p \in Packets : vs = <<Piece(p), Whole(p)>>

\* What is sent after everything that is on its way is in order.
LEMMA SentLine ==
  ASSUME TypeOK, InOrder, FragmentsTogether, NEW vs \in Seq(Values), Sent(vs),
         UNCHANGED <<setup, packets, pendingFragment>>,
         \A v \in Elements(vs) : Ascending(v.packets) /\ AllBefore(Arriving, Elements(v.packets))
  PROVE  InOrder' /\ FragmentsTogether'
<1> DEFINE n == Len(downlink)
<1>1. /\ downlink \in Seq(Values) /\ n \in Nat /\ Len(vs) \in {1, 2}
      /\ Len(downlink') = n + Len(vs)
      /\ \A i \in 1..n : downlink'[i] = downlink[i]
      /\ \A i \in 1..Len(vs) : downlink'[n + i] = vs[i]
      /\ Elements(downlink') = Elements(downlink) \cup Elements(vs)
  <2>1. downlink \in Seq(Values)
    BY DEF TypeOK
  <2>2. Len(vs) \in {1, 2}
    BY DEF Sent
  <2>3. Elements(downlink') = Elements(downlink) \cup Elements(vs)
    BY <2>1, ElementsAdded DEF Sent
  <2>4. downlink' = downlink \o vs
    BY DEF Sent
  <2> QED
    BY <2>1, <2>2, <2>3, <2>4, ConcatProperties, LenProperties
<1> HIDE DEF n
<1>2. \A i \in 1..n : downlink[i] \in Elements(downlink) /\ ~(i = n /\ downlink[i].more)
  <2>1. ~broken
    BY DEF Sent
  <2> QED
    BY <2>1 DEF FragmentsTogether, Elements, n
<1>3. \A i \in 1..Len(downlink') :
        \/ i \in 1..n /\ downlink'[i] = downlink[i]
        \/ i - n \in 1..Len(vs) /\ downlink'[i] = vs[i - n] /\ vs[i - n] \in Elements(vs)
  <2> SUFFICES ASSUME NEW i \in 1..Len(downlink'), i \notin 1..n
               PROVE  /\ i - n \in 1..Len(vs) /\ downlink'[i] = vs[i - n]
                      /\ vs[i - n] \in Elements(vs)
    BY <1>1
  <2>1. i - n \in 1..Len(vs) /\ n + (i - n) = i
    BY <1>1
  <2> QED
    BY <1>1, <2>1 DEF Elements
<1>4. /\ \A v \in Elements(downlink) : \A w \in Elements(vs) :
            AllBefore(Elements(v.packets), Elements(w.packets))
      /\ \A h \in Coros : \A w \in Elements(vs) :
            AllBefore(Elements(packets[h]), Elements(w.packets))
      /\ \A w \in Elements(vs) : AllBefore(Elements(pendingFragment), Elements(w.packets))
  BY ArrivingParts, SmallerSets
<1>5. ASSUME NEW i \in 1..Len(downlink'), NEW j \in 1..Len(downlink'),
             i < j, ~(downlink'[i].more /\ j = i + 1)
      PROVE  AllBefore(Elements(downlink'[i].packets), Elements(downlink'[j].packets))
  <2>1. CASE j \in 1..n
    <3>1. i \in 1..n /\ downlink'[i] = downlink[i] /\ downlink'[j] = downlink[j]
      BY <1>1, <1>5, <2>1
    <3> QED
      BY <1>5, <2>1, <3>1 DEF InOrder, n
  <2>2. CASE j \notin 1..n /\ i \in 1..n
    <3>1. downlink'[i] \in Elements(downlink) /\ downlink'[j] \in Elements(vs)
      BY <1>1, <1>2, <1>3, <2>2
    <3> QED
      BY <1>4, <3>1
  <2>3. CASE j \notin 1..n /\ i \notin 1..n
    <3>1. i = n + 1 /\ j = n + 2 /\ Len(vs) = 2
      <4>1. i \in Nat /\ j \in Nat /\ i > n /\ j > i /\ j <= n + Len(vs)
        BY <1>1, <1>5, <2>3
      <4>2. Len(vs) = 1 \/ Len(vs) = 2
        BY <1>1
      <4> QED
        BY <1>1, <4>1, <4>2
    <3>2. PICK p \in Packets : vs = <<Piece(p), Whole(p)>>
      <4>1. \A v : Len(<<v>>) # 2
        OBVIOUS
      <4> QED
        BY <3>1, <4>1 DEF Sent
    <3>3. downlink'[i].more
      <4>1. 1 \in 1..Len(vs) /\ vs[1] = Piece(p)
        BY <3>1, <3>2
      <4>2. downlink'[n + 1] = vs[1]
        BY <1>1, <4>1
      <4> QED
        BY <3>1, <4>1, <4>2 DEF Piece
    <3> QED
      BY <1>1, <1>5, <3>1, <3>3
  <2> QED
    BY <2>1, <2>2, <2>3
<1>6. \A j \in 2..Len(downlink') :
        AllBefore(Elements(pendingFragment), Elements(downlink'[j].packets))
  <2> SUFFICES ASSUME NEW j \in 2..Len(downlink')
               PROVE  AllBefore(Elements(pendingFragment), Elements(downlink'[j].packets))
    OBVIOUS
  <2>1. j \in 1..Len(downlink') /\ (j \in 1..n => j \in 2..Len(downlink))
    BY <1>1 DEF n
  <2> QED
    BY <1>3, <1>4, <2>1 DEF InOrder
<1>7. InOrder'
  <2>1. \A h \in Coros : \A v \in Elements(downlink') : AllBefore(Elements(packets[h]), Elements(v.packets))
    BY <1>1, <1>4 DEF InOrder
  <2>2. \A v \in Elements(downlink') : Ascending(v.packets)
    BY <1>1 DEF InOrder
  <2> QED
    BY <1>5, <1>6, <2>1, <2>2, InOrderNext DEF InOrder
<1>8. FragmentsTogether'
  <2>1. pendingFragment # <<>> => downlink # <<>>
    BY DEF FragmentsTogether, Sent
  <2>2. downlink # <<>> => n > 0 /\ downlink' # <<>> /\ downlink'[1] = downlink[1]
    BY <1>1, EmptySeq DEF n
  <2>3. ASSUME NEW i \in 1..Len(downlink'), downlink'[i].more
        PROVE  LET p == downlink'[i].packets[1] IN
               /\ downlink'[i] = Piece(p)
               /\ IF i = Len(downlink') THEN broken' ELSE downlink'[i + 1] = Whole(p)
    <3>1. CASE i \in 1..n
      <4>1. i + 1 \in 1..n /\ i # Len(downlink')
        BY <1>1, <1>2, <1>3, <2>3, <3>1
      <4>2. downlink'[i] = downlink[i] /\ downlink'[i + 1] = downlink[i + 1]
        BY <1>1, <3>1, <4>1
      <4> QED
        BY <2>3, <3>1, <4>1, <4>2 DEF FragmentsTogether, n
    <3>2. CASE i \notin 1..n
      <4>1. i - n \in 1..Len(vs) /\ downlink'[i] = vs[i - n]
        BY <1>3, <3>2
      <4>2. PICK p \in Packets : vs = <<Piece(p), Whole(p)>>
        BY <2>3, <4>1 DEF Sent
      <4>3. i - n = 1
        <5>1. vs[2] = Whole(p) /\ Len(vs) = 2
          BY <4>2
        <5>2. i - n \in Nat /\ 1 <= i - n /\ i - n <= 2
          BY <1>1, <4>1, <5>1
        <5>3. ~Whole(p).more
          BY DEF Whole
        <5>4. i - n # 2
          BY <2>3, <4>1, <5>1, <5>3
        <5> QED
          BY <5>2, <5>4
      <4>4. downlink'[i] = Piece(p) /\ i + 1 = n + 2 /\ downlink'[i + 1] = Whole(p)
            /\ i # Len(downlink')
        <5>1. vs[1] = Piece(p) /\ vs[2] = Whole(p) /\ Len(vs) = 2
              /\ 1 \in 1..Len(vs) /\ 2 \in 1..Len(vs)
          BY <4>2
        <5>2. downlink'[n + 1] = vs[1] /\ downlink'[n + 2] = vs[2]
          BY <1>1, <5>1
        <5>3. i = n + 1
          BY <1>1, <4>3
        <5> QED
          BY <1>1, <5>1, <5>2, <5>3
      <4> QED
        BY <4>4, Pieces
    <3> QED
      BY <3>1, <3>2
  <2> QED
    BY <2>1, <2>2, <2>3 DEF FragmentsTogether, Sent
<1> QED
  BY <1>7, <1>8

\* A lost link takes the last values: what remains is in order and comes before
\* what is lost.
LEMMA LostLine ==
  ASSUME TypeOK, InOrder, FragmentsTogether, ConnectionLost
  PROVE  /\ InOrder' /\ FragmentsTogether' /\ Arriving' \subseteq Arriving
         /\ AllBefore(Arriving', Arriving \ Arriving')
<1> USE DEF sessionVars, coroVars
<1>1. PICK n \in 0..Len(downlink) : downlink' = SubSeq(downlink, 1, n)
  BY DEF ConnectionLost
<1>2. /\ UNCHANGED <<setup, packets, pendingFragment>> /\ broken' = TRUE
      /\ downlink \in Seq(Values) /\ downlink' \in Seq(Values)
      /\ Len(downlink) \in Nat /\ Len(downlink') = n
      /\ \A i \in 1..n : downlink'[i] = downlink[i]
      /\ Elements(downlink') \subseteq Elements(downlink)
  <2>1. downlink \in Seq(Values) /\ Len(downlink) \in Nat
    BY DEF TypeOK
  <2>2. /\ UNCHANGED <<setup, packets, pendingFragment>> /\ broken' = TRUE
    BY DEF ConnectionLost
  <2>3. Elements(downlink') \subseteq Elements(downlink)
    BY <1>1, <2>1, ElementsOf
  <2>4. /\ downlink' \in Seq(Values) /\ Len(downlink') = n
        /\ \A i \in 1..n : downlink'[i] = downlink[i]
    BY <1>1, <2>1
  <2> QED
    BY <2>1, <2>2, <2>3, <2>4
<1>3. InOrder'
  <2>1. \A i, j \in 1..Len(downlink') :
          i < j /\ ~(downlink'[i].more /\ j = i + 1) =>
             AllBefore(Elements(downlink'[i].packets), Elements(downlink'[j].packets))
    BY <1>2 DEF InOrder
  <2>2. \A j \in 2..Len(downlink') :
          AllBefore(Elements(pendingFragment), Elements(downlink'[j].packets))
    BY <1>2 DEF InOrder
  <2> QED
    BY <1>2, <2>1, <2>2, InOrderNext DEF InOrder
<1>4. FragmentsTogether'
  <2>1. pendingFragment # <<>> /\ downlink' # <<>> => downlink # <<>> /\ downlink'[1] = downlink[1]
    BY <1>2, EmptySeq
  <2>2. \A i \in 1..n : i # n => i + 1 \in 1..n /\ i # Len(downlink)
    BY <1>2
  <2>3. \A i \in 1..n : i \in 1..Len(downlink)
    BY <1>2
  <2> QED
    BY <1>2, <2>1, <2>2, <2>3 DEF FragmentsTogether
<1>5. Arriving' \subseteq Arriving
  BY <1>2, ArrivingParts, ArrivingFrom
<1>6. ASSUME NEW p \in Arriving', NEW q \in Arriving \ Arriving'
      PROVE  Before(p, q)
  <2>1. \A j \in 1..n : q \notin Elements(downlink[j].packets)
    <3>1. \A j \in 1..n : downlink'[j] \in Elements(downlink')
      BY <1>2 DEF Elements
    <3> QED
      BY <1>2, <1>6, <3>1, ArrivingMemberNext
  <2>2. PICK j \in 1..Len(downlink) : q \in Elements(downlink[j].packets) /\ j > n
    <3>1. \E v \in Elements(downlink) : q \in Elements(v.packets)
      BY <1>2, <1>6, ArrivingMember, ArrivingMemberNext
    <3>2. \E j \in 1..Len(downlink) : q \in Elements(downlink[j].packets)
      BY <3>1 DEF Elements
    <3> QED
      BY <1>2, <2>1, <3>2
  <2>3. CASE \E h \in Coros : p \in Elements(packets[h])
    BY <2>2, <2>3, LineTypes DEF InOrder, AllBefore
  <2>4. CASE p \in Elements(pendingFragment)
    <3>1. pendingFragment # <<>>
      BY <2>4, ElementsOfFew
    <3>2. j # 1
      <4>1. CASE j = 1
        <5>1. pendingFragment \in Seq(Packets) /\ Len(pendingFragment) = 1
              /\ downlink[1] = Whole(pendingFragment[1])
          BY <2>2, <3>1, <4>1, LineTypes, EmptySeq DEF FragmentsTogether
        <5>2. pendingFragment = <<pendingFragment[1]>>
          BY <5>1
        <5>3. q \in Elements(pendingFragment)
          BY <2>2, <4>1, <5>1, <5>2 DEF Whole
        <5> QED
          BY <1>2, <1>6, <5>3, ArrivingMemberNext
      <4> QED
        BY <4>1
    <3>3. j \in 2..Len(downlink)
      BY <1>2, <2>2, <3>2
    <3> QED
      BY <2>2, <2>4, <3>3 DEF InOrder, AllBefore
  <2>5. CASE \E v \in Elements(downlink') : p \in Elements(v.packets)
    <3>1. PICK i \in 1..n : p \in Elements(downlink[i].packets)
      BY <1>2, <2>5 DEF Elements
    <3>2. i \in 1..Len(downlink) /\ i < j
      BY <1>2, <2>2, <3>1
    <3>3. ~(downlink[i].more /\ j = i + 1)
      <4>1. CASE downlink[i].more /\ j = i + 1
        <5> DEFINE r == downlink[i].packets[1]
        <5>1. downlink[i] = Piece(r) /\ downlink[j] = Whole(r)
          BY <2>2, <3>2, <4>1 DEF FragmentsTogether
        <5> HIDE DEF r
        <5>2. downlink[i].packets = downlink[j].packets
          BY <5>1 DEF Piece, Whole
        <5> QED
          BY <2>1, <2>2, <3>1, <5>2
      <4> QED
        BY <4>1
    <3> QED
      BY <2>2, <3>1, <3>2, <3>3 DEF InOrder, AllBefore
  <2> QED
    BY <1>2, <1>6, <2>3, <2>4, <2>5, ArrivingMemberNext
<1> QED
  BY <1>3, <1>4, <1>5, <1>6 DEF AllBefore

-----------------------------------------------------------------------------
(* Bundles *)

\* One packet is no bundle, nor is what is left of a bundle anything else.
LEMMA FewBundles ==
  /\ Bundle(<<>>) /\ \A p : Bundle(<<p>>)
  /\ \A s \in Seq(Packets) : s # <<>> /\ Bundle(s) => Bundle(Tail(s))
<1>1. Bundle(<<>>) /\ \A p : Bundle(<<p>>)
  BY DEF Bundle
<1>2. ASSUME NEW s \in Seq(Packets), s # <<>>, Bundle(s) PROVE Bundle(Tail(s))
  <2>1. Len(s) \in Nat /\ Len(Tail(s)) = Len(s) - 1 /\ \A i \in 1..Len(Tail(s)) : Tail(s)[i] = s[i + 1]
    BY <1>2, HeadTailProperties
  <2> QED
    BY <1>2, <2>1 DEF Bundle
<1> QED
  BY <1>1, <1>2

\* The steps that move packets keep the bundles.
LEMMA HandledBundles ==
  ASSUME TypeOK, BundlesOfEvents, \A h \in Coros : Fewer(h), UNCHANGED downlink
  PROVE  BundlesOfEvents'
<1>1. ASSUME NEW h \in Coros PROVE Bundle(packets'[h])
  <2>1. packets[h] \in Seq(Packets) /\ Bundle(packets[h])
    BY DEF TypeOK, BundlesOfEvents
  <2> QED
    BY <2>1, FewBundles DEF Fewer
<1> QED
  BY <1>1 DEF BundlesOfEvents, Elements, Bundle

\* What is handled, or given up, does not come back.
LEMMA HandledFewer ==
  ASSUME TypeOK, Lines, \A h \in Coros : Fewer(h),
         UNCHANGED <<setup, downlink, pendingFragment, broken>>
  PROVE  Lines' /\ Arriving' \subseteq Arriving
<1>1. ASSUME NEW h \in Coros PROVE Elements(packets'[h]) \subseteq Elements(packets[h])
  <2>1. packets[h] \in Seq(Packets)
    BY DEF TypeOK
  <2> QED
    BY <2>1, ElementsOf, ElementsOfFew DEF Fewer
<1> QED
  BY <1>1, ArrivingMember, ArrivingMemberNext, HandledLine, HandledBundles DEF Lines

\* Feeding splits no bundle.
LEMMA FedBundles ==
  ASSUME TypeOK, BundlesOfEvents, NEW h \in Handlers, Feed(h)
  PROVE  BundlesOfEvents'
<1>1. /\ h \in Coros /\ packets \in [Coros -> Seq(Packets)] /\ downlink \in Seq(Values)
      /\ downlink # <<>> /\ downlink' = Tail(downlink)
  BY DEF Feed, TypeOK, Coros
<1>2. Head(downlink) \in Elements(downlink) /\ Elements(downlink') \subseteq Elements(downlink)
  BY <1>1, ElementsOf
<1>3. \/ UNCHANGED packets
      \/ packets' = [packets EXCEPT ![h] = Head(downlink).packets]
      \/ packets' = [packets EXCEPT ![h] = <<Joined(pendingFragment, Head(Head(downlink).packets))>>]
  BY DEF Feed
<1>4. \A g \in Coros : Bundle(packets'[g])
  <2>1. \A g \in Coros : packets'[g] = packets[g] \/ Bundle(packets'[g])
    BY <1>1, <1>2, <1>3, FewBundles DEF BundlesOfEvents
  <2> QED
    BY <2>1 DEF BundlesOfEvents
<1>5. \A v \in Elements(downlink') : Bundle(v.packets)
  BY <1>2 DEF BundlesOfEvents
<1> QED
  BY <1>4, <1>5 DEF BundlesOfEvents, Elements, Bundle

\* A value that is no wrong bundle may be notified.
LEMMA SentBundles ==
  ASSUME TypeOK, BundlesOfEvents, UNCHANGED packets,
         NEW vs \in Seq(Values), downlink' = downlink \o vs, \A v \in Elements(vs) : Bundle(v.packets)
  PROVE  BundlesOfEvents'
<1>1. Elements(downlink') = Elements(downlink) \cup Elements(vs)
  BY ElementsAdded DEF TypeOK
<1>2. \A v \in Elements(downlink') : Bundle(v.packets)
  BY <1>1 DEF BundlesOfEvents
<1> QED
  BY <1>2 DEF BundlesOfEvents, Elements, Bundle

\* A lost link loses whole values.
LEMMA LostBundles ==
  ASSUME TypeOK, BundlesOfEvents, UNCHANGED packets, Elements(downlink') \subseteq Elements(downlink)
  PROVE  BundlesOfEvents'
BY DEF BundlesOfEvents, Elements, Bundle

-----------------------------------------------------------------------------
(* The packet that is handled *)

\* All others are still on their way, unless the handler gives up.
LEMMA ArrivingRest ==
  ASSUME TypeOK, current \in Handlers, UNCHANGED <<downlink, pendingFragment>>,
         packets' = [packets EXCEPT ![current] = Tail(@)]
  PROVE  \A q \in Arriving : q \in Arriving' \/ q = Head(packets[current])
<1> DEFINE s == packets[current]
<1>1. /\ s \in Seq(Packets) /\ s # <<>> /\ current \in Coros /\ packets \in [Coros -> Seq(Packets)]
  BY HeadTypes, TypeParts DEF CoroTypes
<1>2. /\ packets'[current] = Tail(s) /\ \A h \in Coros \ {current} : packets'[h] = packets[h]
  BY <1>1
<1> HIDE DEF s
<1>3. \A q \in Elements(s) : q = Head(s) \/ q \in Elements(Tail(s))
  <2>1. /\ Len(s) \in Nat /\ Len(Tail(s)) = Len(s) - 1 /\ Head(s) = s[1]
        /\ \A i \in 1..Len(Tail(s)) : Tail(s)[i] = s[i + 1]
    BY <1>1, HeadTailProperties
  <2> SUFFICES ASSUME NEW i \in 1..Len(s), i # 1 PROVE s[i] \in Elements(Tail(s))
    BY <2>1 DEF Elements
  <2>2. i - 1 \in 1..Len(Tail(s)) /\ Tail(s)[i - 1] = s[i]
    BY <2>1
  <2> QED
    BY <2>2 DEF Elements
<1> SUFFICES ASSUME NEW q \in Arriving PROVE q \in Arriving' \/ q = Head(s)
  BY DEF s
<1>4. CASE \E h \in Coros : q \in Elements(packets[h])
  BY <1>2, <1>3, <1>4, ArrivingMemberNext DEF s
<1>5. CASE \E v \in Elements(downlink) : q \in Elements(v.packets)
  BY <1>5, ArrivingMemberNext
<1>6. CASE q \in Elements(pendingFragment)
  BY <1>6, ArrivingMemberNext
<1> QED
  BY <1>4, <1>5, <1>6, ArrivingMember

\* The place of a packet is its own: once handled, no other one has it.
LEMMA HandledOnce ==
  ASSUME TypeOK, InOrder, current \in Handlers, UNCHANGED <<downlink, pendingFragment>>,
         packets' = [packets EXCEPT ![current] = Tail(@)], NEW q \in Arriving',
         Own(Head(packets[current])), Own(q)
  PROVE  Rank(q) # Rank(Head(packets[current]))
<1> DEFINE s == packets[current]
           p == Head(s)
<1>1. /\ s \in Seq(Packets) /\ s # <<>> /\ current \in Coros /\ packets \in [Coros -> Seq(Packets)]
      /\ p \in Packets
  BY HeadTypes, TypeParts DEF CoroTypes
<1>2. /\ packets'[current] = Tail(s) /\ \A h \in Coros \ {current} : packets'[h] = packets[h]
  BY <1>1
<1>3. p \in Elements(s) /\ AllBefore({p}, Elements(Tail(s)))
  BY <1>1, ElementsOf, AscendingTail DEF InOrder
<1>4. Rank(p) \in Nat
  BY <1>1, RankTypes
<1> HIDE DEF s, p
<1>5. CASE \E h \in Coros : q \in Elements(packets'[h])
  <2>1. CASE q \in Elements(packets'[current])
    BY <1>2, <1>3, <1>4, <2>1 DEF AllBefore, Before, s, p
  <2>2. CASE \E h \in Coros \ {current} : q \in Elements(packets[h])
    BY <1>1, <1>3, <2>2 DEF InOrder, Apart, s, p
  <2> QED
    BY <1>2, <1>5, <2>1, <2>2
<1>6. CASE \E v \in Elements(downlink) : q \in Elements(v.packets)
  BY <1>1, <1>3, <1>4, <1>6 DEF InOrder, AllBefore, Before, s, p
<1>7. CASE q \in Elements(pendingFragment)
  BY <1>1, <1>3, <1>4, <1>7 DEF InOrder, AllBefore, Before, s, p
<1> QED
  BY <1>5, <1>6, <1>7, ArrivingMemberNext

\* When no other handler has packets, the one that is handled is the first.
LEMMA HandledFirst ==
  ASSUME TypeOK, InOrder, current \in Handlers,
         \A h \in Coros : h # current => packets[h] = <<>>,
         NEW q \in Arriving, Own(Head(packets[current])), Own(q)
  PROVE  Rank(Head(packets[current])) <= Rank(q)
<1> DEFINE s == packets[current]
           p == Head(s)
<1>1. /\ s \in Seq(Packets) /\ s # <<>> /\ current \in Coros /\ p \in Packets
  BY HeadTypes, TypeParts DEF CoroTypes
<1>2. p \in Elements(s) /\ Ascending(s) /\ p = s[1]
  BY <1>1, ElementsOf, HeadTailProperties DEF InOrder
<1>3. Rank(p) \in Nat /\ Rank(q) \in Nat
  BY <1>1, RankTypes, ArrivingPackets
<1> HIDE DEF s, p
<1>4. CASE \E h \in Coros : q \in Elements(packets[h])
  <2>1. q \in Elements(s)
    BY <1>4, ElementsOfFew DEF s
  <2>2. PICK i \in 1..Len(s) : q = s[i]
    BY <2>1 DEF Elements
  <2>3. 1 \in 1..Len(s) /\ (i = 1 \/ 1 < i)
    BY <1>1, <2>2
  <2>4. CASE i = 1
    BY <1>2, <1>3, <2>2, <2>4 DEF s, p
  <2>5. CASE 1 < i
    <3>1. Before(p, q)
      BY <1>2, <2>2, <2>3, <2>5 DEF Ascending
    <3> QED
      BY <1>3, <3>1 DEF Before, s, p
  <2> QED
    BY <2>3, <2>4, <2>5
<1>5. CASE \E v \in Elements(downlink) : q \in Elements(v.packets)
  BY <1>1, <1>2, <1>3, <1>5 DEF InOrder, AllBefore, Before, s, p
<1>6. CASE q \in Elements(pendingFragment)
  BY <1>1, <1>2, <1>3, <1>6 DEF InOrder, AllBefore, Before, s, p
<1> QED
  BY <1>4, <1>5, <1>6, ArrivingMember

-----------------------------------------------------------------------------
(* What is sent *)

\* Values put on the link are on their way.
LEMMA ArrivingSent ==
  ASSUME TypeOK, NEW vs \in Seq(Values), downlink' = downlink \o vs,
         UNCHANGED <<packets, pendingFragment>>
  PROVE  \A q : q \in Arriving' <=> q \in Arriving \/ \E v \in Elements(vs) : q \in Elements(v.packets)
<1>1. Elements(downlink') = Elements(downlink) \cup Elements(vs)
  BY ElementsAdded DEF TypeOK
<1> QED
  BY <1>1, ArrivingMember, ArrivingMemberNext

\* One value, with a packet or a bundle.
LEMMA ValueSent ==
  ASSUME TypeOK, Lines, NEW v \in Values, ~v.more, ~broken, downlink' = Append(downlink, v),
         Ascending(v.packets), Bundle(v.packets), AllBefore(Arriving, Elements(v.packets)),
         UNCHANGED <<setup, packets, pendingFragment, broken>>
  PROVE  Lines' /\ Arriving' = Arriving \cup Elements(v.packets)
<1>1. <<v>> \in Seq(Values) /\ downlink' = downlink \o <<v>> /\ Elements(<<v>>) = {v}
  <2>1. downlink \in Seq(Values)
    BY DEF TypeOK
  <2>2. downlink' = downlink \o <<v>>
    BY <2>1
  <2> QED
    BY <2>2, ElementsOfFew
<1>2. Sent(<<v>>)
  BY <1>1 DEF Sent
<1>3. InOrder' /\ FragmentsTogether'
  BY <1>1, <1>2, SentLine DEF Lines
<1>4. BundlesOfEvents'
  BY <1>1, SentBundles DEF Lines
<1>5. \A q : q \in Arriving' <=> q \in Arriving \/ q \in Elements(v.packets)
  BY <1>1, ArrivingSent
<1> QED
  BY <1>3, <1>4, <1>5 DEF Lines

\* One packet, in as many values as it takes.
LEMMA PacketSent ==
  ASSUME TypeOK, Lines, NEW p \in Packets, ~broken, Notify(p), AllBefore(Arriving, {p}),
         UNCHANGED <<setup, packets, pendingFragment, broken>>
  PROVE  Lines' /\ Arriving' = Arriving \cup {p}
<1> DEFINE vs == Fragments(p)
<1>1. vs \in Seq(Values) /\ downlink' = downlink \o vs
  BY FragmentTypes DEF Notify
<1>2. /\ Whole(p) \in Values /\ ~Whole(p).more /\ Whole(p).packets = <<p>> /\ Piece(p).packets = <<p>>
  BY Pieces
<1>3. vs = <<Whole(p)>> \/ vs = <<Piece(p), Whole(p)>>
  BY FragmentsOf
<1> HIDE DEF vs
<1>4. Sent(vs)
  BY <1>1, <1>2, <1>3 DEF Sent
<1>5. /\ \A v \in Elements(vs) : v.packets = <<p>>
      /\ \E v \in Elements(vs) : v.packets = <<p>>
  <2>1. \A v, w : Elements(<<v, w>>) = {v, w} /\ Elements(<<v>>) = {v}
    BY DEF Elements
  <2> QED
    BY <1>2, <1>3, <2>1
<1>6. Ascending(<<p>>) /\ Bundle(<<p>>) /\ Elements(<<p>>) = {p}
  <2>1. Ascending(<<p>>)
    BY DEF Ascending
  <2> QED
    BY <2>1, FewBundles, ElementsOfFew
<1>7. InOrder' /\ FragmentsTogether'
  BY <1>1, <1>4, <1>5, <1>6, SentLine DEF Lines
<1>8. BundlesOfEvents'
  BY <1>1, <1>5, <1>6, SentBundles DEF Lines
<1>9. \A q : q \in Arriving' <=> q \in Arriving \/ q = p
  BY <1>1, <1>5, <1>6, ArrivingSent
<1> QED
  BY <1>7, <1>8, <1>9 DEF Lines

-----------------------------------------------------------------------------
(* What the handler of packet p may do *)

Raised ==
    /\ packets' = [packets EXCEPT ![current] = <<>>] /\ current' = NoCoro
    /\ UNCHANGED <<out, writing, uplink>>
Returned ==
    /\ packets' = [packets EXCEPT ![current] = Tail(@)]
    /\ current' = (IF Tail(packets[current]) = <<>> THEN NoCoro ELSE current)
    /\ UNCHANGED <<out, writing, uplink>>
Replied ==
    /\ packets' = [packets EXCEPT ![current] = Tail(@)]
    /\ current' = NoCoro /\ writing' = writing \cup {current}

\* It raises.
Failing ==
    /\ state' = "FAILED" /\ ready' = TRUE /\ failure' \in Errors
    /\ Raised /\ UNCHANGED <<eventCount, delivered>>
    /\ ~started => rxCounter' = rxCounter

\* The packet is not the session's.
Passing(p) ==
    /\ UNCHANGED <<state, ready, failure, rxCounter, eventCount, delivered>>
    /\ Returned
    /\ ~(Mine(p) /\ state = "ESTABLISHED")

\* The button offers its identity.
Offering(p) ==
    /\ state = "WAIT_FULL_VERIFY_1" /\ state' = "WAIT_FULL_VERIFY_2"
    /\ UNCHANGED <<ready, failure, rxCounter, eventCount, delivered>>
    /\ Replied /\ Offer(p)

\* The button's first signature establishes the session.
Establishing(p) ==
    /\ state \in {"WAIT_FULL_VERIFY_2", "WAIT_QUICK_VERIFY"} /\ state' = "ESTABLISHED"
    /\ UNCHANGED <<ready, failure, eventCount, delivered>>
    /\ Replied /\ Mine(p) /\ p.op \in {"FULL_VERIFY_RESPONSE_2", "QUICK_VERIFY_RESPONSE"}
    /\ p.sig[2] = 0 /\ rxCounter = 0 /\ rxCounter' = 1

\* The next packet of the established session.
Accepting(p) ==
    /\ state = "ESTABLISHED" /\ UNCHANGED <<state, failure>>
    /\ Mine(p) /\ p.sig[2] = rxCounter /\ rxCounter' = rxCounter + 1
    /\ \/ /\ p.op = "INIT_RESPONSE" /\ Returned
          /\ ready' = TRUE /\ eventCount' = p.count /\ UNCHANGED delivered
       \/ /\ p.op = "BUTTON_EVENT" /\ (Returned \/ Replied)
          /\ eventCount' = p.count /\ delivered' = Append(delivered, p.count) /\ UNCHANGED ready
       \/ /\ p.op \notin {"INIT_RESPONSE", "BUTTON_EVENT"} /\ (Returned \/ Replied)
          /\ UNCHANGED <<ready, eventCount, delivered>>

\* Every handler does one of these.
LEMMA HandlerKinds ==
  ASSUME TypeOK, IInv, PacketsNumbered, CountersTrue, current \in Handlers,
         NEW p \in Arriving, HandlePacket(current, p)
  PROVE  Failing \/ Passing(p) \/ Offering(p) \/ Establishing(p) \/ Accepting(p)
<1> DEFINE h == current
<1> USE DEF stateVars, authVars, eventVars
<1>0. /\ p \in Packets /\ PacketTrue(p) /\ Numbered(p) /\ StateTrue
      /\ ~started => state \in {"IDLE", "FAILED"}
      /\ {"PairingError", "AuthenticationError", "PairingModeError", "NoPairingSlotsError",
          "PairingRejectedError", "FlicProtocolError", "StructError"} \subseteq Errors
  BY ArrivingPackets DEF IInv, PacketsTrue, PacketsNumbered, StateTrue, Errors
<1>1. ASSUME NEW err \in Errors, Raise(h, err), UNCHANGED <<eventCount, delivered>>,
             ~started => rxCounter' = rxCounter
      PROVE  Failing
  BY <1>1 DEF Raise, Fail, Failing, Raised
<1>2. ASSUME Return(h) PROVE Returned
  BY <1>2 DEF Return, Returned
<1>3. ASSUME NEW u, Reply(h, u) PROVE Replied
  BY <1>3 DEF Reply, Send, Replied
<1>4. ASSUME NEW u, NEW key, ReplySigned(h, u, key) PROVE Replied
  BY <1>3, <1>4 DEF ReplySigned
<1>5. CASE Ignored(h, p)
  <2>1. ~(Mine(p) /\ state = "ESTABLISHED")
    BY <1>0, <1>5 DEF Ignored, Numbered, Mine, StateTrue
  <2> QED
    BY <1>2, <1>5, <2>1 DEF Ignored, Passing
<1>6. CASE NoSlots(h, p)
  BY <1>0, <1>1, <1>6 DEF NoSlots
<1>7. CASE HandleFullVerify1(h, p)
  <2>1. CASE \E err \in Errors : Raise(h, err) /\ UNCHANGED authVars
    BY <1>1, <1>7, <2>1 DEF HandleFullVerify1
  <2>2. CASE Return(h) /\ UNCHANGED <<stateVars, authVars>>
    BY <1>2, <1>7, <2>2 DEF HandleFullVerify1, Passing
  <2>3. CASE /\ p.new /\ p.tmp = "own" /\ p.fault = "none"
             /\ state' = "WAIT_FULL_VERIFY_2"
             /\ Reply(h, [Plain EXCEPT !.op = "FULL_VERIFY_REQUEST_2", !.conn = p.conn])
             /\ UNCHANGED <<rxCounter, ready, pairingComplete, failure>>
    BY <1>3, <1>7, <2>3 DEF HandleFullVerify1, Offering, Offer
  <2> QED
    BY <1>0, <1>7, <2>1, <2>2, <2>3 DEF HandleFullVerify1
<1>8. CASE PairingRejected(h, p)
  BY <1>0, <1>1, <1>8 DEF PairingRejected
<1>9. CASE HandleFullVerify2(h, p)
  <2>0. /\ state = "WAIT_FULL_VERIFY_2" /\ p.op = "FULL_VERIFY_RESPONSE_2" /\ started
        /\ rxCounter = 0 /\ connId = OwnConn /\ sessionKey = "own" /\ UNCHANGED eventVars
    BY <1>0, <1>9 DEF HandleFullVerify2, StateTrue, CountersTrue
  <2>1. CASE \E err \in Errors : Raise(h, err)
    BY <1>1, <2>0, <2>1
  <2>2. CASE Return(h) /\ UNCHANGED <<stateVars, rxCounter>>
    BY <1>2, <2>0, <2>2 DEF Passing
  <2>3. CASE /\ p.conn = connId /\ Genuine(p) /\ rxCounter' = rxCounter + 1
             /\ Establish /\ SendInit(h, connId, sessionKey)
    <3>1. Mine(p) /\ p.sig[2] = 0 /\ rxCounter' = 1
      BY <2>0, <2>3 DEF Genuine, Mine, OwnSigned, NoSig
    <3> QED
      BY <1>4, <2>0, <2>3, <3>1 DEF Establishing, Establish, SendInit
  <2> QED
    BY <1>0, <1>9, <2>1, <2>2, <2>3 DEF HandleFullVerify2
<1>10. CASE QuickVerifyNegative(h, p)
  BY <1>0, <1>1, <1>10 DEF QuickVerifyNegative
<1>11. CASE HandleQuickVerify(h, p)
  <2>0. /\ state = "WAIT_QUICK_VERIFY" /\ p.op = "QUICK_VERIFY_RESPONSE" /\ started
        /\ rxCounter = 0 /\ UNCHANGED eventVars
    BY <1>0, <1>11 DEF HandleQuickVerify, StateTrue, CountersTrue
  <2>1. CASE Raise(h, "AuthenticationError")
    BY <1>0, <1>1, <2>0, <2>1
  <2>2. CASE Return(h) /\ UNCHANGED <<stateVars, authVars>>
    BY <1>2, <2>0, <2>2 DEF Passing
  <2>3. CASE /\ p.tmp = "own" /\ p.sig = <<DerivedKey(p), rxCounter>> /\ rxCounter' = rxCounter + 1
             /\ Establish /\ SendInit(h, p.conn, DerivedKey(p))
             /\ UNCHANGED pairingComplete
    <3>1. OwnSigned(p) /\ ~Malformed(p) /\ p.sig[2] = 0 /\ rxCounter' = 1
      BY <2>0, <2>3 DEF DerivedKey, OwnSigned, NoSig, Malformed
    <3>2. Mine(p)
      BY <1>0, <3>1 DEF PacketTrue, Mine
    <3> QED
      BY <1>4, <2>0, <2>3, <3>1, <3>2 DEF Establishing, Establish, SendInit
  <2> QED
    BY <1>11, <2>1, <2>2, <2>3 DEF HandleQuickVerify
<1>12. CASE VerifyFails(h, p)
  <2>1. started
    BY <1>0, <1>12 DEF VerifyFails, ForSession
  <2> QED
    BY <1>0, <1>1, <1>12, <2>1 DEF VerifyFails
\* A packet that verifies is the button's next one.
<1>13. ASSUME NEW ops, Verified(p, ops)
       PROVE  /\ state = "ESTABLISHED" /\ started /\ Mine(p) /\ p.fault = "none"
              /\ p.sig[2] = rxCounter /\ rxCounter' = rxCounter + 1
  <2>1. /\ state = "ESTABLISHED" /\ p.conn = connId /\ p.sig = <<sessionKey, rxCounter>>
        /\ rxCounter' = rxCounter + 1 /\ connId = OwnConn /\ sessionKey = "own" /\ started
    BY <1>0, <1>13 DEF Verified, ForSession, Genuine, StateTrue
  <2>2. Mine(p) /\ p.sig[2] = rxCounter
    BY <2>1 DEF Mine, OwnSigned, NoSig
  <2> QED
    BY <1>0, <2>1, <2>2 DEF Numbered
<1>14. CASE InitResponse(h, p)
  BY <1>2, <1>13, <1>14 DEF InitResponse, Verified, Accepting
<1>15. CASE ButtonEvents(h, p)
  <2>0. /\ state = "ESTABLISHED" /\ Mine(p) /\ p.fault = "none" /\ p.op = "BUTTON_EVENT"
        /\ p.sig[2] = rxCounter /\ rxCounter' = rxCounter + 1
    BY <1>13, <1>15 DEF ButtonEvents, Verified
  <2>1. eventCount' = p.count /\ delivered' = Append(delivered, p.count) /\ UNCHANGED stateVars
    BY <1>15, <2>0 DEF ButtonEvents, Deliver
  <2>2. Returned \/ Replied
    BY <1>2, <1>4, <1>15, <2>0 DEF ButtonEvents
  <2> QED
    BY <2>0, <2>1, <2>2 DEF Accepting
<1>16. CASE Ping(h, p)
  BY <1>4, <1>13, <1>16 DEF Ping, Verified, Accepting
<1>17. CASE OtherPacket(h, p)
  BY <1>2, <1>13, <1>17 DEF OtherPacket, Verified, Accepting
<1>18. CASE DisconnectLink(h, p)
  BY <1>0, <1>1, <1>13, <1>18 DEF DisconnectLink
<1> QED
  BY <1>5, <1>6, <1>7, <1>8, <1>9, <1>10, <1>11, <1>12, <1>14, <1>15, <1>16, <1>17, <1>18
     DEF HandlePacket

-----------------------------------------------------------------------------
(* The numbers of the packets *)

\* A signature is numbered.
LEMMA MineTypes == TypeOK => \A p \in Arriving : Mine(p) => p.sig[2] \in Nat
BY ArrivingPackets DEF Mine, OwnSigned, Packets

\* A packet that the button signed says where the button is.
LEMMA MineTrue ==
  ASSUME TypeOK, IInv, PacketsNumbered, NEW p \in Arriving, Mine(p)
  PROVE  /\ p.sig[2] \in Nat /\ p.sig[2] < bTx /\ bTx \in Nat /\ ButtonVerified
         /\ p.op \notin {"FULL_VERIFY_RESPONSE_2", "QUICK_VERIFY_RESPONSE"} => ButtonOpen
         /\ p.op = "BUTTON_EVENT" => p.count <= bCount /\ GenuineEvent(p)
         /\ p \in Packets /\ p.count \in Nat
<1>1. /\ PacketTrue(p) /\ OwnSigned(p) /\ ~Malformed(p)
  BY DEF IInv, PacketsTrue, PacketsNumbered, Numbered, Mine, Malformed
<1>2. p \in Packets
  BY ArrivingPackets
<1>3. bTx \in Nat /\ p.count \in Nat
  BY <1>2 DEF TypeOK, Packets
<1> QED
  BY <1>1, <1>2, <1>3, MineTypes DEF PacketTrue, GenuineEvent

\* The numbers are not affected by what moves the packets.
LEMMA NumbersKept ==
  ASSUME Numbers, Arriving' = Arriving,
         UNCHANGED <<started, state, ready, failure, rxCounter, eventCount, bState, bTx, bCount, broken>>
  PROVE  Numbers'
<1>1. PacketsNumbered'
  BY DEF Numbers, PacketsNumbered, Numbered
<1>2. CountersTrue'
  BY DEF Numbers, CountersTrue, ButtonOpen
<1>3. NoneBehind' /\ NoneMissing'
  BY DEF Numbers, NoneBehind, NoneMissing
<1>4. CountsFollow'
  BY DEF Numbers, CountsFollow, ButtonOpen
<1> QED
  BY <1>1, <1>2, <1>3, <1>4 DEF Numbers

\* Nothing follows a failure.
LEMMA NumbersFailed ==
  ASSUME Numbers, Arriving' \subseteq Arriving, state' = "FAILED", failure' # NoFailure,
         UNCHANGED <<started, bState, bTx>>, ~started => rxCounter' = rxCounter
  PROVE  Numbers'
<1>1. PacketsNumbered'
  BY DEF Numbers, PacketsNumbered, Numbered
<1>2. CountersTrue'
  BY DEF Numbers, CountersTrue, ButtonOpen
<1>3. NoneBehind' /\ NoneMissing' /\ CountsFollow'
  BY DEF NoneBehind, NoneMissing, CountsFollow
<1> QED
  BY <1>1, <1>2, <1>3 DEF Numbers

\* In the handshake, only the numbers of the packets matter.
LEMMA NumbersInHandshake ==
  ASSUME TypeOK, IInv, Numbers, Arriving' \subseteq Arriving,
         state' \notin {"ESTABLISHED", "FAILED"}, ready' = ready, failure' = failure,
         rxCounter' = rxCounter, ~started \/ state \notin {"ESTABLISHED", "FAILED"},
         UNCHANGED <<bState, bTx>>
  PROVE  Numbers'
<1>1. PacketsNumbered'
  BY DEF Numbers, PacketsNumbered, Numbered
<1>2. rxCounter = 0 /\ rxCounter \in Nat
  BY DEF Numbers, CountersTrue, TypeOK
<1>3. CountersTrue'
  BY <1>2 DEF Numbers, CountersTrue, ButtonOpen
<1>4. NoneBehind'
  BY <1>2, MineTypes DEF NoneBehind
<1>5. NoneMissing' /\ CountsFollow'
  BY DEF NoneMissing, CountsFollow
<1> QED
  BY <1>1, <1>3, <1>4, <1>5 DEF Numbers

\* What the button has signed last has the last number.
LEMMA NumbersLost ==
  ASSUME TypeOK, IInv, Numbers, Arriving' \subseteq Arriving, AllBefore(Arriving', Arriving \ Arriving'),
         broken', UNCHANGED <<started, state, ready, failure, rxCounter, eventCount, bState, bTx, bCount>>
  PROVE  Numbers'
<1>1. PacketsNumbered'
  BY DEF Numbers, PacketsNumbered, Numbered
<1>2. CountersTrue' /\ NoneBehind'
  BY DEF Numbers, CountersTrue, ButtonOpen, NoneBehind
<1>3. ASSUME NEW p \in Arriving', NEW q \in Arriving, Mine(p), Mine(q), q.sig[2] <= p.sig[2]
      PROVE  q \in Arriving'
  <2> SUFFICES ASSUME q \notin Arriving' PROVE FALSE
    OBVIOUS
  <2>1. Rank(p) < Rank(q)
    BY <1>3 DEF AllBefore, Before, Own
  <2>2. p.sig[2] \in Nat /\ q.sig[2] \in Nat
    BY <1>3, MineTypes
  <2> QED
    BY <1>3, <2>1, <2>2 DEF Rank
<1>4. NoneMissing'
  <2> SUFFICES ASSUME state = "ESTABLISHED", NEW p \in Arriving', Mine(p),
                      NEW n \in rxCounter .. p.sig[2]
               PROVE  \E q \in Arriving' : Mine(q) /\ q.sig[2] = n
    BY DEF NoneMissing
  <2>1. PICK q \in Arriving : Mine(q) /\ q.sig[2] = n
    BY DEF Numbers, NoneMissing
  <2>2. q.sig[2] <= p.sig[2]
    BY <2>1, MineTypes DEF TypeOK
  <2> QED
    BY <1>3, <2>1, <2>2
<1>5. CountsFollow'
  <2> SUFFICES ASSUME state = "ESTABLISHED", NEW p \in Arriving', Mine(p), p.op = "BUTTON_EVENT",
                      ~(rxCounter > 1 /\ p.count = eventCount + 1)
               PROVE  \E q \in Arriving' : Counted(q) /\ q.sig[2] < p.sig[2] /\ p.count = q.count + 1
    BY DEF CountsFollow
  <2>1. PICK q \in Arriving : Counted(q) /\ q.sig[2] < p.sig[2] /\ p.count = q.count + 1
    BY DEF Numbers, CountsFollow
  <2>2. Mine(q) /\ q.sig[2] <= p.sig[2]
    BY <2>1, MineTypes DEF Counted
  <2> QED
    BY <1>3, <2>1, <2>2
<1> QED
  BY <1>1, <1>2, <1>4, <1>5 DEF Numbers

\* The button sends packets with the next numbers.
LEMMA NumbersSent ==
  ASSUME TypeOK, TypeOK', IInv, Numbers, NEW S \in SUBSET Packets, Arriving' = Arriving \cup S,
         ~broken, UNCHANGED <<state, rxCounter, broken>>, CountersTrue', CountsFollow',
         bState = "closed" => bState' = "closed",
         bTx <= bTx', \A p \in S : Numbered(p)',
         \A p \in S : Mine(p) => bTx <= p.sig[2] /\ p.sig[2] < bTx',
         \A n \in bTx .. bTx' - 1 : \E p \in S : Mine(p) /\ p.sig[2] = n
  PROVE  Numbers'
<1>1. PacketsNumbered'
  BY DEF Numbers, PacketsNumbered, Numbered
<1>2. bTx \in Nat /\ bTx' \in Nat /\ rxCounter \in Nat
  BY DEF TypeOK
<1>3. state # "FAILED" => rxCounter <= bTx
  BY <1>2 DEF Numbers, CountersTrue
<1>4. \A p \in S : Mine(p) => p.sig[2] \in Nat
  BY DEF Mine, OwnSigned, Packets
<1>5. NoneBehind'
  BY <1>2, <1>3, <1>4 DEF Numbers, NoneBehind
<1>6. NoneMissing'
  <2> SUFFICES ASSUME state = "ESTABLISHED"
               PROVE  /\ \A p \in Arriving' : Mine(p) =>
                           \A n \in rxCounter .. p.sig[2] : \E q \in Arriving' : Mine(q) /\ q.sig[2] = n
                      /\ ~broken =>
                           \A n \in rxCounter .. bTx' - 1 : \E q \in Arriving' : Mine(q) /\ q.sig[2] = n
    BY DEF NoneMissing
  <2>1. ASSUME ~broken, NEW n \in rxCounter .. bTx' - 1
        PROVE  \E q \in Arriving' : Mine(q) /\ q.sig[2] = n
    <3>1. n \in rxCounter .. bTx - 1 \/ n \in bTx .. bTx' - 1
      <4>1. \A a, b, c \in Nat : \A m \in a .. c - 1 : m \in a .. b - 1 \/ m \in b .. c - 1
        OBVIOUS
      <4> QED
        BY <1>2, <4>1
    <3> QED
      BY <2>1, <3>1 DEF Numbers, NoneMissing
  <2>2. ASSUME NEW p \in Arriving', Mine(p), NEW n \in rxCounter .. p.sig[2]
        PROVE  \E q \in Arriving' : Mine(q) /\ q.sig[2] = n
    <3>1. CASE p \in Arriving
      BY <2>2, <3>1 DEF Numbers, NoneMissing
    <3>2. CASE p \in S
      <4>1. \A a, b, c \in Nat : b < c => \A m \in a .. b : m \in a .. c - 1
        OBVIOUS
      <4>2. p.sig[2] \in Nat /\ p.sig[2] < bTx' /\ bTx' \in Nat /\ rxCounter \in Nat
        BY <1>2, <1>4, <2>2, <3>2
      <4>3. n \in rxCounter .. bTx' - 1
        BY <2>2, <4>1, <4>2
      <4> QED
        BY <2>1, <4>3
    <3> QED
      BY <2>2, <3>1, <3>2
  <2> QED
    BY <2>1, <2>2
<1> QED
  BY <1>1, <1>5, <1>6 DEF Numbers

\* One packet was taken from those on their way, and its number with it.
Taken(p) ==
    /\ p \in Arriving /\ Arriving' \subseteq Arriving
    /\ \A q \in Arriving : q \in Arriving' \/ q = p
    /\ \A q \in Arriving' : Mine(p) /\ Mine(q) => q.sig[2] # p.sig[2]

\* A packet that is not the session's has no number.
LEMMA NumbersPassed ==
  ASSUME TypeOK, IInv, Numbers, NEW p, Taken(p), Passing(p),
         UNCHANGED <<started, broken, bState, bTx, bCount>>
  PROVE  Numbers'
<1>0. UNCHANGED <<state, ready, failure, rxCounter, eventCount>> /\ ~(Mine(p) /\ state = "ESTABLISHED")
  BY DEF Passing
<1>1. PacketsNumbered'
  BY DEF Numbers, PacketsNumbered, Numbered, Taken
<1>2. CountersTrue' /\ NoneBehind'
  BY <1>0 DEF Numbers, CountersTrue, ButtonOpen, NoneBehind, Taken
<1>3. state = "ESTABLISHED" => \A q \in Arriving : Mine(q) => q \in Arriving'
  BY <1>0 DEF Taken
<1>4. NoneMissing'
  BY <1>0, <1>3 DEF Numbers, NoneMissing, Taken
<1>5. CountsFollow'
  BY <1>0, <1>3 DEF Numbers, CountsFollow, Taken, Counted, ButtonOpen
<1> QED
  BY <1>1, <1>2, <1>4, <1>5 DEF Numbers

\* When the session is established, the button's first packet was its only one.
LEMMA NumbersEstablished ==
  ASSUME TypeOK, IInv, Numbers, NEW p, Taken(p), Establishing(p),
         UNCHANGED <<started, broken, bState, bTx, bCount>>
  PROVE  Numbers'
<1>1. PacketsNumbered'
  BY DEF Numbers, PacketsNumbered, Numbered, Taken
<1>2. bState = "verified" /\ ~(ready /\ failure = NoFailure) /\ bTx = 1 /\ started
  <2>1. ButtonVerified
    BY MineTrue DEF Establishing, Numbers, Taken
  <2> QED
    BY <2>1 DEF Establishing, IInv, StateTrue, ButtonVerified, Numbers, CountersTrue
<1>3. \A q \in Arriving' : ~Mine(q)
  <2> SUFFICES ASSUME NEW q \in Arriving', Mine(q) PROVE FALSE
    OBVIOUS
  <2>1. q.sig[2] \in Nat /\ q.sig[2] < 1
    BY <1>2, MineTrue DEF Taken, Numbers
  <2>2. q.sig[2] # 0
    BY DEF Taken, Establishing
  <2> QED
    BY <2>1, <2>2
<1>4. CountersTrue'
  BY <1>2 DEF CountersTrue, Establishing, ButtonOpen
<1>5. NoneBehind' /\ NoneMissing' /\ CountsFollow'
  BY <1>2, <1>3 DEF NoneBehind, NoneMissing, CountsFollow, Establishing, ButtonOpen
<1> QED
  BY <1>1, <1>4, <1>5 DEF Numbers

\* The packet that is accepted is the next event, if it is an event.
LEMMA NextEvent ==
  ASSUME TypeOK, IInv, Numbers, NEW p \in Arriving, Accepting(p), p.op = "BUTTON_EVENT"
  PROVE  p.count = eventCount + 1 /\ rxCounter > 1 /\ ready
<1>1. state = "ESTABLISHED" /\ Mine(p) /\ p.sig[2] = rxCounter
  BY DEF Accepting
<1>2. rxCounter > 1 /\ ready
  BY <1>1 DEF Numbers, PacketsNumbered, Numbered, CountersTrue
<1>3. \A q \in Arriving : Counted(q) => ~(q.sig[2] < p.sig[2])
  <2>1. rxCounter \in Nat
    BY DEF TypeOK
  <2> QED
    BY <1>1, <2>1, MineTypes DEF Numbers, NoneBehind, Counted
<1> QED
  BY <1>1, <1>2, <1>3 DEF Numbers, CountsFollow

\* The next packet is accepted.
LEMMA NumbersAccepted ==
  ASSUME TypeOK, IInv, Numbers, NEW p, Taken(p), Accepting(p),
         UNCHANGED <<started, broken, bState, bTx, bCount>>
  PROVE  Numbers'
<1>0. /\ state = "ESTABLISHED" /\ UNCHANGED <<state, failure>>
      /\ Mine(p) /\ p.sig[2] = rxCounter /\ rxCounter' = rxCounter + 1
      /\ p \in Arriving /\ Arriving' \subseteq Arriving /\ Numbered(p)
      /\ \A q \in Arriving : q \in Arriving' \/ q = p
      /\ \A q \in Arriving' : Mine(q) => q.sig[2] # p.sig[2]
      /\ started /\ state # "FAILED"
  BY DEF Accepting, Taken, Numbers, PacketsNumbered, IInv, StateTrue
<1>1. PacketsNumbered'
  BY <1>0 DEF Numbers, PacketsNumbered, Numbered
<1>2. rxCounter \in Nat /\ 1 <= rxCounter /\ rxCounter < bTx /\ bTx \in Nat
  BY <1>0, MineTrue DEF Numbers, CountersTrue, TypeOK
<1>3. ready' /\ (p.op = "INIT_RESPONSE" <=> rxCounter = 1)
  <2>1. p.op = "INIT_RESPONSE" <=> rxCounter = 1
    BY <1>0, <1>2 DEF Numbered
  <2> QED
    BY <1>0, <1>2, <2>1 DEF Accepting, Numbers, CountersTrue
<1>4. CountersTrue'
  BY <1>0, <1>2, <1>3 DEF Numbers, CountersTrue, ButtonOpen
<1>5. NoneBehind'
  <2> SUFFICES ASSUME NEW q \in Arriving', Mine(q) PROVE q.sig[2] >= rxCounter + 1
    BY <1>0 DEF NoneBehind
  <2>1. q.sig[2] \in Nat /\ q.sig[2] >= rxCounter /\ q.sig[2] # rxCounter
    BY <1>0, MineTypes DEF Numbers, NoneBehind
  <2> QED
    BY <1>2, <2>1
<1>6. NoneMissing'
  <2>1. ASSUME NEW n \in Int, n >= rxCounter', NEW q \in Arriving, Mine(q), q.sig[2] = n
        PROVE  q \in Arriving'
    <3>1. q # p
      BY <1>0, <1>2, <2>1
    <3> QED
      BY <1>0, <3>1
  <2>2. ASSUME NEW m \in Int, NEW n \in rxCounter' .. m
        PROVE  n \in rxCounter .. m /\ n >= rxCounter' /\ n \in Int
    BY <1>0, <1>2, <2>2
  <2>3. ASSUME NEW q \in Arriving', Mine(q), NEW n \in rxCounter' .. q.sig[2]
        PROVE  \E r \in Arriving' : Mine(r) /\ r.sig[2] = n
    <3>1. q \in Arriving /\ q.sig[2] \in Int
      BY <1>0, <2>3, MineTypes
    <3>2. n \in rxCounter .. q.sig[2] /\ n >= rxCounter' /\ n \in Int
      BY <2>2, <2>3, <3>1
    <3>3. \E r \in Arriving : Mine(r) /\ r.sig[2] = n
      BY <1>0, <2>3, <3>1, <3>2 DEF Numbers, NoneMissing
    <3> QED
      BY <2>1, <3>2, <3>3
  <2>4. ASSUME ~broken, NEW n \in rxCounter' .. bTx - 1
        PROVE  \E r \in Arriving' : Mine(r) /\ r.sig[2] = n
    <3>1. n \in rxCounter .. bTx - 1 /\ n >= rxCounter' /\ n \in Int
      BY <1>2, <2>2, <2>4
    <3>2. \E r \in Arriving : Mine(r) /\ r.sig[2] = n
      BY <1>0, <2>4, <3>1 DEF Numbers, NoneMissing
    <3> QED
      BY <2>1, <3>1, <3>2
  <2> QED
    BY <2>3, <2>4 DEF NoneMissing
\* The counts that follow the packet's, and those that follow the stored one.
<1>7. Counted(p) => eventCount' = p.count
  BY DEF Accepting, Counted
<1>8. ASSUME ~Counted(p) PROVE eventCount' = eventCount /\ rxCounter > 1
  <2>1. p.op \notin {"INIT_RESPONSE", "BUTTON_EVENT"}
    BY <1>0, <1>8 DEF Counted
  <2>2. rxCounter > 1
    BY <1>2, <1>3, <2>1
  <2> QED
    BY <2>1, <2>2 DEF Accepting
<1>9. Counted(p) /\ rxCounter > 1 => p.op = "BUTTON_EVENT" /\ p.count = eventCount + 1
  BY <1>0, <1>3, NextEvent DEF Counted
<1>10. rxCounter' > 1
  BY <1>0, <1>2
<1>11. CountsFollow'
  <2>1. ASSUME NEW q \in Arriving', Mine(q), q.op = "BUTTON_EVENT"
        PROVE  \/ rxCounter' > 1 /\ q.count = eventCount' + 1
               \/ \E r \in Arriving' : Counted(r) /\ r.sig[2] < q.sig[2] /\ q.count = r.count + 1
    <3>1. q \in Arriving /\ q.sig[2] \in Nat /\ p.sig[2] < q.sig[2]
      BY <1>0, <1>2, <2>1, MineTypes DEF Numbers, NoneBehind
    <3>2. CASE rxCounter > 1 /\ q.count = eventCount + 1
      <4>1. CASE Counted(p)
        <5>1. p.count < q.count
          BY <1>0, <1>9, <2>1, <3>1, <3>2, <4>1, MineTrue DEF Numbers, IInv, EventsAscend
        <5>2. p.count = q.count /\ q.count \in Nat
          BY <1>9, <2>1, <3>1, <3>2, <4>1, MineTrue DEF Numbers
        <5> QED
          BY <5>1, <5>2
      <4>2. CASE ~Counted(p)
        BY <1>8, <1>10, <3>2, <4>2
      <4> QED
        BY <4>1, <4>2
    <3>3. CASE \E r \in Arriving : Counted(r) /\ r.sig[2] < q.sig[2] /\ q.count = r.count + 1
      BY <1>0, <1>7, <1>10, <3>3
    <3> QED
      BY <1>0, <2>1, <3>1, <3>2, <3>3 DEF Numbers, CountsFollow
  <2>2. ASSUME ~broken, ButtonOpen
        PROVE  \/ rxCounter' > 1 /\ bCount = eventCount'
               \/ \E q \in Arriving' : Counted(q) /\ q.count = bCount
    <3>1. CASE rxCounter > 1 /\ bCount = eventCount
      <4>1. CASE Counted(p)
        <5>1. p.count = bCount + 1 /\ p.count <= bCount /\ bCount \in Nat
          BY <1>0, <1>9, <3>1, <4>1, MineTrue DEF Numbers, TypeOK
        <5> QED
          BY <5>1
      <4>2. CASE ~Counted(p)
        BY <1>8, <1>10, <3>1, <4>2
      <4> QED
        BY <4>1, <4>2
    <3>2. CASE \E q \in Arriving : Counted(q) /\ q.count = bCount
      BY <1>0, <1>7, <1>10, <3>2
    <3> QED
      BY <1>0, <2>2, <3>1, <3>2 DEF Numbers, CountsFollow
  <2> QED
    BY <1>0, <2>1, <2>2 DEF CountsFollow, ButtonOpen
<1> QED
  BY <1>1, <1>4, <1>5, <1>6, <1>11 DEF Numbers

-----------------------------------------------------------------------------
(* A packet is handled *)

\* The packet that is handled, and those that are left.
LEMMA HandledTaken ==
  ASSUME TypeOK, InOrder, current \in Handlers, UNCHANGED <<downlink, pendingFragment>>,
         packets' = [packets EXCEPT ![current] = Tail(@)]
  PROVE  Taken(Head(packets[current]))
<1> DEFINE p == Head(packets[current])
<1>1. Arriving' \subseteq Arriving /\ p \in Arriving
  BY ArrivingHandled
<1>2. \A q \in Arriving : q \in Arriving' \/ q = p
  BY ArrivingRest
<1>3. ASSUME NEW q \in Arriving', Mine(p), Mine(q) PROVE q.sig[2] # p.sig[2]
  <2>1. Rank(q) # Rank(p)
    BY <1>3, HandledOnce DEF Own
  <2> QED
    BY <1>3, <2>1 DEF Rank
<1> QED
  BY <1>1, <1>2, <1>3 DEF Taken

\* Whatever a handler does with its packet, the others keep order and numbers.
LEMMA HandleOrder ==
  ASSUME TypeOK, IInv, Lines, Numbers, current \in Handlers,
         HandlePacket(current, Head(packets[current]))
  PROVE  Lines' /\ Numbers'
<1>1. /\ UNCHANGED <<setup, started, pendingFragment, downlink, broken, bState, bTx, bCount>>
      /\ \/ packets' = [packets EXCEPT ![current] = Tail(@)]
         \/ packets' = [packets EXCEPT ![current] = <<>>]
  BY HandlerKeeps
<1>2. Lines'
  <2>1. packets[current] # <<>> /\ packets \in [Coros -> Seq(Packets)]
    BY HeadTypes, TypeParts DEF CoroTypes
  <2> QED
    BY <1>1, <2>1, HandledFewer DEF Fewer
<1>3. PICK p \in Arriving : p = Head(packets[current])
  BY <1>1, ArrivingHandled
<1>4. HandlePacket(current, p) /\ Arriving' \subseteq Arriving
  BY <1>1, <1>3, ArrivingHandled
<1>5. packets' = [packets EXCEPT ![current] = Tail(@)] => Taken(p)
  BY <1>1, <1>3, HandledTaken DEF Lines
<1>6. CASE Failing
  <2>1. failure' # NoFailure
    BY <1>6 DEF Failing, Errors, NoFailure
  <2> QED
    BY <1>1, <1>2, <1>4, <1>6, <2>1, NumbersFailed DEF Failing
<1>7. CASE Passing(p)
  BY <1>1, <1>2, <1>5, <1>7, NumbersPassed DEF Passing, Returned
<1>8. CASE Offering(p)
  <2>1. state' \notin {"ESTABLISHED", "FAILED"} /\ state \notin {"ESTABLISHED", "FAILED"}
    BY <1>8 DEF Offering
  <2> QED
    BY <1>1, <1>2, <1>4, <1>8, <2>1, NumbersInHandshake DEF Offering
<1>9. CASE Establishing(p)
  BY <1>1, <1>2, <1>5, <1>9, NumbersEstablished DEF Establishing, Replied
<1>10. CASE Accepting(p)
  BY <1>1, <1>2, <1>5, <1>10, NumbersAccepted DEF Accepting, Returned, Replied
<1> QED
  BY <1>4, <1>6, <1>7, <1>8, <1>9, <1>10, HandlerKinds DEF Numbers

-----------------------------------------------------------------------------
(* Honest set-ups *)

\* Nobody but the button signs anything in an honest set-up.
LEMMA HonestSecret == TypeOK /\ setup.honest => KeySecret
<1> SUFFICES ASSUME TypeOK, setup.honest, NEW p \in Strays[setup], OwnSigned(p), p.conn = OwnConn
             PROVE  FALSE
  BY DEF KeySecret
<1>1. Foreign(p) /\ Malformed(p)
  BY StrayAssumption DEF TypeOK
<1> QED
  BY <1>1 DEF Foreign, Malformed

\* What is signed is no unsigned answer.
LEMMA UnsignedRank ==
  ASSUME PacketsNumbered, NEW p \in Arriving, Unsigned(p)
  PROVE  ~Mine(p) /\ Rank(p) = 0
<1>1. ~Mine(p)
  BY DEF PacketsNumbered, Numbered, Unsigned
<1> QED
  BY <1>1 DEF Rank

\* A failure that is recorded is one the button asked for, if the notifications are
\* handled one after the other.
LEMMA HonestFailure ==
  ASSUME TypeOK, IInv, Lines, Numbers, AnswersTrue, OneByOne, FailuresTrue, setup.honest,
         current \in Handlers, NEW p \in Arriving, p = Head(packets[current]),
         HandlePacket(current, p), failure' # failure
  PROVE  /\ started
         /\ setup.lock \/ ~ready =>
              failure' \notin Spurious /\ (failure' = "FlicProtocolError" => bState = "closed")
<1> DEFINE h == current
           Fair(err) == err \notin Spurious /\ (err = "FlicProtocolError" => bState = "closed")
<1> USE DEF stateVars, authVars, eventVars
<1>0. /\ p \in Packets /\ Numbered(p) /\ StateTrue /\ AnswerTrue(p)
      /\ ~Foreign(p) => FromHonest(p) /\ started
      /\ state \in {"IDLE", "FAILED"} \/ started
  BY ArrivingPackets DEF IInv, Numbers, PacketsNumbered, AnswersTrue, StateTrue
<1>1. ASSUME NEW err, Raise(h, err) PROVE failure' = err
  BY <1>1 DEF Raise, Fail
<1>2. /\ Fair("NoPairingSlotsError") /\ Fair("PairingError") /\ Fair("PairingModeError")
      /\ Fair("PairingRejectedError")
  BY DEF Spurious
<1>4. CASE NoSlots(h, p)
  <2>1. FromHonest(p) /\ started /\ p.fault = "none"
    BY <1>0, <1>4 DEF NoSlots, Foreign, FromHonest
  <2>2. failure' = "NoPairingSlotsError"
    BY <1>1, <1>4, <2>1 DEF NoSlots
  <2> QED
    BY <1>2, <2>1, <2>2
<1>5. CASE HandleFullVerify1(h, p)
  <2>1. started /\ p.op = "FULL_VERIFY_RESPONSE_1"
    BY <1>0, <1>5 DEF HandleFullVerify1
  <2>2. p.new /\ p.fault # "short" /\ (p.tmp = "own" => p.fault \in {"none", "mode"})
    BY <1>0, <2>1 DEF Foreign, FromHonest
  <2>3. failure' = "PairingModeError"
    BY <1>1, <1>5, <2>2 DEF HandleFullVerify1
  <2> QED
    BY <1>2, <2>1, <2>3
<1>6. CASE PairingRejected(h, p)
  BY <1>0, <1>1, <1>2, <1>6 DEF PairingRejected
<1>7. CASE HandleFullVerify2(h, p)
  <2>1. /\ state = "WAIT_FULL_VERIFY_2" /\ p.op = "FULL_VERIFY_RESPONSE_2" /\ rxCounter = 0
        /\ connId = OwnConn /\ sessionKey = "own"
    BY <1>0, <1>7 DEF HandleFullVerify2, StateTrue, Numbers, CountersTrue
  <2>2. p.conn = connId => Mine(p) /\ p.sig[2] = 0 /\ p.fault = "none"
    BY <1>0, <2>1 DEF Foreign, FromHonest, Unsigned, Numbered
  <2>3. p.conn = connId => Genuine(p)
    <3>1. Mine(p) => p.sig[1] = "own" /\ p.sig = <<p.sig[1], p.sig[2]>>
      BY <1>0 DEF Mine, OwnSigned, Packets
    <3> QED
      BY <2>1, <2>2, <3>1 DEF Genuine
  <2>4. failure' = failure
    BY <1>7, <2>2, <2>3 DEF HandleFullVerify2, Establish
  <2> QED
    BY <2>4
<1>8. CASE QuickVerifyNegative(h, p)
  BY <1>0, <1>1, <1>2, <1>8 DEF QuickVerifyNegative
<1>9. CASE HandleQuickVerify(h, p)
  <2>1. state = "WAIT_QUICK_VERIFY" /\ p.op = "QUICK_VERIFY_RESPONSE" /\ rxCounter = 0
    BY <1>0, <1>9 DEF HandleQuickVerify, StateTrue, Numbers, CountersTrue
  <2>2. p.new /\ p.fault # "short" /\ (p.tmp = "own" => Mine(p) /\ p.sig[2] = 0)
    BY <1>0, <2>1 DEF Foreign, FromHonest, Unsigned, Numbered
  <2>3. p.tmp = "own" => p.sig = <<DerivedKey(p), rxCounter>>
    <3>1. Mine(p) => p.sig[1] = "own" /\ p.sig = <<p.sig[1], p.sig[2]>>
      BY <1>0 DEF Mine, OwnSigned, Packets
    <3> QED
      BY <2>1, <2>2, <3>1 DEF DerivedKey
  <2>4. failure' = failure
    BY <1>9, <2>2, <2>3 DEF HandleQuickVerify, Establish
  <2> QED
    BY <2>4
<1>10. CASE VerifyFails(h, p)
  <2>1. /\ state = "ESTABLISHED" /\ p.op \notin {"EMPTY", "NO_LOGICAL_CONNECTION_SLOTS"}
        /\ p.conn = OwnConn /\ started /\ sessionKey = "own"
    BY <1>0, <1>10 DEF VerifyFails, ForSession, StateTrue
  <2>2. Mine(p)
    <3>1. ~Foreign(p) /\ ~Unsigned(p)
      BY <1>0, <2>1 DEF Foreign, AnswerTrue
    <3> QED
      BY <1>0, <2>1, <3>1 DEF FromHonest
  <2> SUFFICES ASSUME setup.lock \/ ~ready PROVE FALSE
    BY <2>1
  <2>3. \A g \in Coros : g # current => packets[g] = <<>>
    <3>1. setup.lock => \A g \in Handlers : g # current => packets[g] = <<>>
      <4>1. current \in Handlers /\ ~Idle(current)
        BY HeadTypes, TypeParts DEF Idle
      <4> QED
        BY <4>1 DEF IInv, WritesTrue, Serialized, Idle
    <3>2. packets[Starter] = <<>>
      BY DEF TypeOK
    <3> QED
      BY <3>1, <3>2 DEF OneByOne, Coros
  <2>4. p.sig[2] \in Nat /\ p.sig[2] >= rxCounter /\ rxCounter \in Nat
    BY <2>1, <2>2, MineTypes DEF Numbers, NoneBehind, TypeOK
  <2>5. PICK q \in Arriving : Mine(q) /\ q.sig[2] = rxCounter
    <3>1. rxCounter \in rxCounter .. p.sig[2]
      BY <2>4
    <3> QED
      BY <2>1, <2>2, <3>1 DEF Numbers, NoneMissing
  <2>6. Rank(p) <= Rank(q)
    BY <2>2, <2>3, <2>5, HandledFirst DEF Own, Lines
  <2>7. p.sig[2] = rxCounter
    BY <2>2, <2>4, <2>5, <2>6 DEF Rank
  <2>8. Genuine(p)
    <3>1. p.sig[1] = "own" /\ p.sig = <<p.sig[1], p.sig[2]>>
      BY <1>0, <2>2 DEF Mine, OwnSigned, Packets
    <3> QED
      BY <2>1, <2>7, <3>1 DEF Genuine
  <2> QED
    BY <1>10, <2>8 DEF VerifyFails
\* A packet that verifies is well-formed.
<1>11. ASSUME NEW ops, Verified(p, ops) PROVE p.fault = "none" /\ started
  <2>1. p.conn = connId /\ p.sig = <<sessionKey, rxCounter>> /\ connId = OwnConn /\ sessionKey = "own" /\ started
    BY <1>0, <1>11 DEF Verified, ForSession, Genuine, StateTrue
  <2>2. Mine(p) /\ p.sig[2] = rxCounter
    BY <2>1 DEF Mine, OwnSigned, NoSig
  <2> QED
    BY <1>0, <2>1, <2>2 DEF Numbered
<1>12. CASE InitResponse(h, p)
  BY <1>11, <1>12 DEF InitResponse
<1>13. CASE ButtonEvents(h, p)
  BY <1>11, <1>13 DEF ButtonEvents
<1>14. CASE DisconnectLink(h, p)
  <2>1. /\ p.conn = connId /\ p.sig = <<sessionKey, rxCounter>> /\ connId = OwnConn /\ sessionKey = "own"
        /\ started /\ p.op = "DISCONNECT_VERIFIED_LINK"
    BY <1>0, <1>14 DEF DisconnectLink, Verified, ForSession, Genuine, StateTrue
  <2>2. Mine(p) /\ p.sig[2] = rxCounter
    BY <2>1 DEF Mine, OwnSigned, NoSig
  <2>3. failure' = "FlicProtocolError"
    BY <1>1, <1>14 DEF DisconnectLink
  <2>4. bState = "closed"
    BY <1>0, <2>1, <2>2 DEF Numbered
  <2> QED
    BY <2>1, <2>3, <2>4 DEF Spurious
<1>15. CASE Ignored(h, p) \/ Ping(h, p) \/ OtherPacket(h, p)
  BY <1>15 DEF Ignored, Ping, OtherPacket
<1> QED
  BY <1>4, <1>5, <1>6, <1>7, <1>8, <1>9, <1>10, <1>12, <1>13, <1>14, <1>15 DEF HandlePacket

\* Handling a packet keeps an honest session so.
LEMMA HandleHonest ==
  ASSUME TypeOK, IInv, Lines, Numbers, HonestSession, setup.honest, current \in Handlers,
         HandlePacket(current, Head(packets[current]))
  PROVE  HonestSession'
<1>1. /\ UNCHANGED <<setup, started, pendingFragment, downlink, broken, bState, bPending>>
      /\ \/ packets' = [packets EXCEPT ![current] = Tail(@)]
         \/ packets' = [packets EXCEPT ![current] = <<>>]
  BY HandlerKeeps
<1>2. PICK p \in Arriving : p = Head(packets[current])
  BY <1>1, ArrivingHandled
<1>3. HandlePacket(current, p) /\ Arriving' \subseteq Arriving /\ p \in Packets
  BY <1>1, <1>2, ArrivingHandled, ArrivingPackets
<1>4. AnswersTrue /\ OneByOne /\ FailuresTrue /\ NoSpuriousFailure /\ StateTrue /\ PacketsNumbered /\ CountersTrue
  BY DEF HonestSession, IInv, Numbers
<1>5. Failing \/ Passing(p) \/ Offering(p) \/ Establishing(p) \/ Accepting(p)
  BY <1>3, <1>4, HandlerKinds
<1>6. current \in Coros /\ packets[current] \in Seq(Packets) /\ packets[current] # <<>>
  BY HeadTypes, TypeParts DEF CoroTypes
\* An offer of the button's identity is its only unsigned answer.
<1>7. Offer(p) => Unsigned(p) /\ p.op # "BUTTON_EVENT"
  <2>1. Foreign(p) \/ FromHonest(p)
    BY <1>4 DEF AnswersTrue
  <2> QED
    BY <2>1 DEF Offer, Foreign, FromHonest, Unsigned
<1>8. AnswersTrue'
  <2> SUFFICES ASSUME NEW q \in Arriving' PROVE (Foreign(q) \/ (started' /\ FromHonest(q))) /\ AnswerTrue(q)'
    BY DEF AnswersTrue, Foreign, FromHonest, Mine, Unsigned, OwnSigned
  <2>1. q \in Arriving /\ (Foreign(q) \/ (started' /\ FromHonest(q))) /\ AnswerTrue(q)
    BY <1>1, <1>3, <1>4 DEF AnswersTrue
  <2> SUFFICES ASSUME Unsigned(q) PROVE AnswerTrue(q)'
    BY <2>1 DEF AnswerTrue
  <2>2. Answered /\ bState' \in {"idle", "offered"}
    BY <1>1, <2>1 DEF AnswerTrue
  <2>3. ASSUME UNCHANGED <<out, uplink>> PROVE Answered'
    BY <1>1, <2>2, <2>3 DEF Answered, Quiet
  <2>4. CASE Failing
    BY <2>2, <2>3, <2>4 DEF Failing, Raised, AnswerTrue
  <2>5. CASE Passing(p)
    BY <2>1, <2>2, <2>3, <2>5 DEF Passing, Returned, AnswerTrue
  <2>6. CASE Offering(p)
    <3>1. Own(p) /\ Own(q) /\ Rank(p) = 0 /\ Rank(q) = 0
      BY <1>4, <1>7, <2>1, <2>6, UnsignedRank DEF Offering, Own
    <3>2. packets' = [packets EXCEPT ![current] = Tail(@)]
      BY <2>6 DEF Offering, Replied
    <3> QED
      BY <1>1, <1>2, <3>1, <3>2, HandledOnce DEF Lines
  <2>7. CASE Establishing(p) \/ Accepting(p)
    <3>1. Mine(p)
      BY <2>7 DEF Establishing, Accepting
    <3> QED
      BY <1>1, <1>4, <2>2, <3>1, MineTrue DEF ButtonVerified
  <2> QED
    BY <1>5, <2>4, <2>5, <2>6, <2>7
<1>9. /\ \A g \in Coros \ {current} : packets'[g] = packets[g]
      /\ writing' \subseteq writing \cup {current}
  <2>1. writing' \subseteq writing \cup {current}
    BY <1>5 DEF Failing, Passing, Offering, Establishing, Accepting, Raised, Returned, Replied
  <2>2. packets \in [Coros -> Seq(Packets)]
    BY TypeParts DEF CoroTypes
  <2> QED
    BY <1>1, <2>1, <2>2
<1>10. OneByOne'
  <2>2. ASSUME ~ready', NEW h \in Coros, h # current' PROVE packets'[h] = <<>>
    <3>1. ~ready /\ ~Failing
      BY <1>5, <2>2, TypeParts DEF Failing, Passing, Offering, Establishing, Accepting
    <3>2. CASE h # current
      BY <1>4, <1>9, <2>2, <3>1, <3>2 DEF OneByOne
    <3>3. CASE h = current
      <4>1. Returned \/ Replied
        BY <1>5, <3>1 DEF Passing, Offering, Establishing, Accepting
      <4>2. packets'[h] = Tail(packets[h])
        BY <1>6, <3>3, <4>1, TypeParts DEF Returned, Replied, CoroTypes
      <4>3. CASE Returned
        BY <2>2, <3>3, <4>2, <4>3 DEF Returned
      <4>4. CASE Replied /\ ~Returned
        <5>1. ~(Mine(p) /\ p.op = "BUTTON_EVENT")
          <6>1. Accepting(p) => p.op # "BUTTON_EVENT"
            BY <3>1, NextEvent
          <6> QED
            BY <1>5, <1>7, <3>1, <4>4, <6>1 DEF Passing, Offering, Establishing
        <5>2. Bundle(packets[h])
          BY <1>6, <3>3 DEF Lines, BundlesOfEvents
        <5>3. Len(packets[h]) <= 1
          <6>1. Len(packets[h]) > 1 => 1 \in 1..Len(packets[h]) /\ p = packets[h][1]
            BY <1>2, <1>6, <3>3
          <6> QED
            BY <1>6, <3>3, <5>1, <5>2, <6>1 DEF Bundle
        <5> QED
          BY <1>6, <3>3, <4>2, <5>3
      <4> QED
        BY <4>1, <4>3, <4>4
    <3> QED
      BY <3>2, <3>3
  <2> QED
    BY <2>2 DEF OneByOne
<1>11. failure' # failure => HonestSession /\ started /\
          (setup.lock \/ ~ready =>
             failure' \notin Spurious /\ (failure' = "FlicProtocolError" => bState = "closed"))
  BY <1>2, <1>3, <1>4, HonestFailure
<1>12. FailuresTrue'
  <2>1. CASE Failing
    BY <1>1, <1>4, <1>11, <2>1 DEF Failing, Raised, FailuresTrue, Errors, NoFailure
  <2>2. CASE Passing(p)
    BY <1>1, <1>4, <2>2 DEF Passing, Returned, FailuresTrue
  <2>3. CASE Offering(p)
    BY <1>1, <1>4, <2>3 DEF Offering, FailuresTrue, StateTrue
  <2>4. CASE Establishing(p)
    BY <1>1, <1>4, <2>4 DEF Establishing, FailuresTrue, StateTrue
  <2>5. CASE Accepting(p)
    BY <1>1, <1>4, <2>5 DEF Accepting, FailuresTrue, StateTrue
  <2> QED
    BY <1>5, <2>1, <2>2, <2>3, <2>4, <2>5
<1>13. NoSpuriousFailure'
  BY <1>1, <1>4, <1>11 DEF NoSpuriousFailure
<1> QED
  BY <1>8, <1>10, <1>12, <1>13 DEF HonestSession

-----------------------------------------------------------------------------
(* The other steps *)

\* What does not touch the packets keeps their order.
LEMMA LinesKept ==
  ASSUME Lines, UNCHANGED <<setup, packets, downlink, pendingFragment, broken>>
  PROVE  Lines' /\ Arriving' = Arriving
<1>1. Arriving' = Arriving
  BY ArrivingMember, ArrivingMemberNext
<1>2. FragmentsTogether' /\ BundlesOfEvents'
  BY DEF Lines, FragmentsTogether, BundlesOfEvents, Bundle, Elements
<1>3. InOrder'
  BY InOrderNext DEF Lines, InOrder
<1> QED
  BY <1>1, <1>2, <1>3 DEF Lines

\* A coroutine that waits for no notification keeps them one by one.
LEMMA OneByOneKept ==
  ASSUME OneByOne, UNCHANGED <<packets, ready, current>>
  PROVE  OneByOne'
BY DEF OneByOne

\* An honest session stays so while what reaches it is honest.
LEMMA HonestKept ==
  ASSUME setup.honest => HonestSession /\ OneByOne',
         UNCHANGED <<setup, started, state, ready, failure>>, writing' \subseteq writing,
         bState = "closed" => bState' = "closed",
         setup.honest => \A q \in Arriving' :
            \/ q \in Arriving /\ (Unsigned(q) => bState' = bState /\ (Answered => Answered'))
            \/ (Foreign(q) \/ (started /\ FromHonest(q))) /\ AnswerTrue(q)'
  PROVE  HonestInv'
<1> SUFFICES ASSUME setup.honest PROVE HonestSession'
  BY DEF HonestInv
<1>1. AnswersTrue /\ FailuresTrue /\ NoSpuriousFailure
  BY DEF HonestSession
<1>2. AnswersTrue'
  <2> SUFFICES ASSUME NEW q \in Arriving' PROVE (Foreign(q) \/ (started' /\ FromHonest(q))) /\ AnswerTrue(q)'
    BY DEF AnswersTrue, Foreign, FromHonest, Mine, Unsigned, OwnSigned
  <2>1. CASE q \in Arriving /\ (Unsigned(q) => bState' = bState /\ (Answered => Answered'))
    BY <1>1, <2>1 DEF AnswersTrue, AnswerTrue
  <2>2. CASE (Foreign(q) \/ (started /\ FromHonest(q))) /\ AnswerTrue(q)'
    BY <2>2
  <2> QED
    BY <2>1, <2>2
<1>3. FailuresTrue' /\ NoSpuriousFailure'
  BY <1>1 DEF FailuresTrue, NoSpuriousFailure
<1> QED
  BY <1>2, <1>3 DEF HonestSession

\* In the beginning nothing is on its way.
LEMMA OrderInit == Init => Lines /\ Numbers /\ HonestInv
<1> SUFFICES ASSUME Init PROVE Lines /\ Numbers /\ HonestInv
  OBVIOUS
<1>1. /\ \A h \in Coros : packets[h] = <<>> /\ out[h] = <<>>
      /\ downlink = <<>> /\ pendingFragment = <<>> /\ Elements(<<>>) = {} /\ Len(<<>>) = 0
      /\ 1..0 = {} /\ 2..0 = {}
  BY ElementsOfFew DEF Init
<1>2. Arriving = {}
  BY <1>1, ArrivingMember
<1>3. FragmentsTogether /\ BundlesOfEvents
  BY <1>1, FewBundles DEF FragmentsTogether, BundlesOfEvents
<1>4. InOrder
  BY <1>1 DEF InOrder, Ascending, AllBefore, Apart
<1>5. Numbers
  BY <1>2 DEF Init, Numbers, PacketsNumbered, CountersTrue, ButtonOpen, NoneBehind, NoneMissing,
              CountsFollow, NoFailure
<1>6. AnswersTrue /\ OneByOne
  BY <1>1, <1>2 DEF Init, AnswersTrue, OneByOne
<1>7. FailuresTrue /\ NoSpuriousFailure
  BY DEF Init, FailuresTrue, NoSpuriousFailure, NoFailure, Spurious
<1> QED
  BY <1>3, <1>4, <1>5, <1>6, <1>7 DEF Lines, HonestInv, HonestSession

\* The first request is sent.
LEMMA StartOrder ==
  ASSUME TypeOK, IInv, Lines, Numbers, HonestInv, Start
  PROVE  Lines' /\ Numbers' /\ HonestInv'
<1>1. /\ UNCHANGED <<setup, ready, failure, rxCounter, pendingFragment, packets, current,
                     downlink, broken, bState, bTx>>
      /\ ~started /\ started' = TRUE /\ state' \in {"WAIT_FULL_VERIFY_1", "WAIT_QUICK_VERIFY"}
      /\ writing' = writing \cup {Starter}
  BY DEF Start, Send, authVars, buttonVars
<1>2. Lines' /\ Arriving' = Arriving
  BY <1>1, LinesKept
<1>3. Numbers'
  BY <1>1, <1>2, NumbersInHandshake
<1>4. HonestInv'
  <2> SUFFICES ASSUME setup.honest PROVE HonestSession'
    BY <1>1 DEF HonestInv
  <2>1. AnswersTrue /\ OneByOne /\ FailuresTrue /\ NoSpuriousFailure
    BY DEF HonestInv, HonestSession
  <2>2. AnswersTrue'
    <3>1. \A q \in Arriving : Foreign(q) /\ ~Unsigned(q)
      BY <1>1, <2>1 DEF AnswersTrue, Foreign, Unsigned
    <3> QED
      BY <1>2, <3>1 DEF AnswersTrue, AnswerTrue
  <2>3. OneByOne'
    BY <1>1, <2>1, OneByOneKept
  <2>4. FailuresTrue' /\ NoSpuriousFailure'
    BY <1>1, <2>1 DEF FailuresTrue, NoSpuriousFailure
  <2> QED
    BY <2>2, <2>3, <2>4 DEF HonestSession
<1> QED
  BY <1>2, <1>3, <1>4

\* A write of the session goes on or ends.
LEMMA WriteReturnsOrder ==
  ASSUME TypeOK, IInv, Lines, Numbers, HonestInv, NEW h \in Coros, WriteReturns(h)
  PROVE  Lines' /\ Numbers' /\ HonestInv'
<1> USE DEF stateVars, authVars, eventVars, buttonVars
<1>1. /\ UNCHANGED <<setup, started, state, ready, failure, rxCounter, eventCount, pendingFragment,
                     packets, downlink, broken, bState, bTx, bCount, bPending>>
      /\ h \in writing /\ current = NoCoro /\ writing' \subseteq writing
  BY DEF WriteReturns
<1>2. Lines' /\ Arriving' = Arriving
  BY <1>1, LinesKept
<1>3. Numbers'
  BY <1>1, <1>2, NumbersKept
<1>4. ~broken /\ Quiet => Quiet'
  BY <1>1 DEF WriteReturns, Quiet
<1>5. OneByOne => OneByOne'
  <2> SUFFICES ASSUME OneByOne PROVE OneByOne'
    OBVIOUS
  <2>1. ~ready => \A g \in Coros : packets[g] = <<>>
    BY <1>1, CoroAssumption DEF OneByOne, Coros
  <2> QED
    BY <1>1, <2>1 DEF OneByOne
<1>6. HonestInv'
  BY <1>1, <1>2, <1>4, <1>5, HonestKept DEF Answered, HonestInv, HonestSession
<1> QED
  BY <1>2, <1>3, <1>6

\* A write raises: the handler leaves what it has still to handle.
LEMMA WriteRaisesOrder ==
  ASSUME TypeOK, IInv, Lines, Numbers, HonestInv, NEW h \in Coros, WriteRaises(h)
  PROVE  Lines' /\ Numbers' /\ HonestInv'
<1> USE DEF stateVars, authVars, eventVars, buttonVars, linkVars
<1>1. /\ UNCHANGED <<setup, started, rxCounter, eventCount, pendingFragment,
                     downlink, broken, bState, bTx, bCount>>
      /\ h \in writing /\ current = NoCoro /\ writing' \subseteq writing
  BY DEF WriteRaises
<1>6. Answered => Answered'
  <2>1. out \in [Coros -> Seq(Values)] /\ out' = [out EXCEPT ![h] = <<>>]
        /\ UNCHANGED <<uplink, broken, bPending>>
    BY DEF WriteRaises, TypeOK
  <2> QED
    BY <2>1 DEF Answered, Quiet
<1>2. \A g \in Coros : packets'[g] \in {packets[g], <<>>}
  <2>1. packets \in [Coros -> Seq(Packets)]
    BY DEF TypeOK
  <2> QED
    BY <2>1 DEF WriteRaises, Fail
<1>3. Lines' /\ Arriving' \subseteq Arriving
  BY <1>1, <1>2, HandledFewer DEF Fewer
<1>4. CASE UNCHANGED <<state, ready, failure, packets, current>>
  <2>1. Arriving' = Arriving
    BY <1>1, <1>4, LinesKept
  <2>2. Numbers'
    BY <1>1, <1>4, <2>1, NumbersKept
  <2>3. HonestInv'
    <3>1. OneByOne => OneByOne'
      BY <1>1, <1>4, OneByOneKept
    <3> QED
      BY <1>1, <1>4, <1>6, <2>1, <3>1, HonestKept DEF HonestInv, HonestSession
  <2> QED
    BY <1>3, <2>2, <2>3
<1>5. CASE Fail(h, "BleakError")
  <2>1. state' = "FAILED" /\ ready' = TRUE /\ failure' = "BleakError" /\ failure' # NoFailure
    BY <1>5 DEF Fail, NoFailure
  <2>2. Numbers'
    BY <1>1, <1>3, <2>1, NumbersFailed
  <2>3. HonestInv'
    <3> SUFFICES ASSUME setup.honest PROVE HonestSession'
      BY <1>1 DEF HonestInv
    <3>1. AnswersTrue /\ OneByOne /\ FailuresTrue
      BY DEF HonestInv, HonestSession
    <3>2. AnswersTrue'
      <4> SUFFICES ASSUME NEW q \in Arriving' PROVE (Foreign(q) \/ (started' /\ FromHonest(q))) /\ AnswerTrue(q)'
        BY DEF AnswersTrue, Foreign, FromHonest, Mine, Unsigned, OwnSigned
      <4>1. (Foreign(q) \/ (started /\ FromHonest(q))) /\ AnswerTrue(q)
        BY <1>3, <3>1 DEF AnswersTrue
      <4> QED
        BY <1>1, <1>6, <2>1, <4>1 DEF AnswerTrue
    <3>3. OneByOne'
      BY <2>1 DEF OneByOne
    <3>4. FailuresTrue'
      BY <1>1, <2>1, <3>1 DEF FailuresTrue
    <3>5. NoSpuriousFailure'
      BY <2>1 DEF NoSpuriousFailure, Spurious
    <3> QED
      BY <3>2, <3>3, <3>4, <3>5 DEF HonestSession
  <2> QED
    BY <1>3, <2>2, <2>3
<1> QED
  BY <1>4, <1>5 DEF WriteRaises

\* A packet is handled.
LEMMA HandlePacketOrder ==
  ASSUME TypeOK, IInv, Lines, Numbers, HonestInv, NEW h \in Handlers, current = h,
         HandlePacket(h, Head(packets[h]))
  PROVE  Lines' /\ Numbers' /\ HonestInv'
<1>1. Lines' /\ Numbers' /\ setup' = setup
  BY HandleOrder, HandlerKeeps
<1>2. HonestInv'
  BY <1>1, HandleHonest DEF HonestInv
<1> QED
  BY <1>1, <1>2

\* A notification is fed.
LEMMA FeedOrder ==
  ASSUME TypeOK, IInv, Lines, Numbers, HonestInv, NEW h \in Handlers, Feed(h)
  PROVE  Lines' /\ Numbers' /\ HonestInv'
<1> USE DEF stateVars, authVars, eventVars, buttonVars
<1>1. /\ UNCHANGED <<setup, started, state, ready, failure, rxCounter, eventCount, out, writing, uplink,
                     broken, bState, bTx, bCount, bPending>>
      /\ current = NoCoro
  BY DEF Feed
<1>2. Lines' /\ Arriving' = Arriving /\ \A g \in Coros \ {h} : packets'[g] = packets[g]
  BY FedLine, FedBundles DEF Lines
<1>3. Numbers'
  BY <1>1, <1>2, NumbersKept
<1>4. OneByOne => OneByOne'
  <2> SUFFICES ASSUME OneByOne PROVE OneByOne'
    OBVIOUS
  <2>1. ~ready => \A g \in Coros : packets[g] = <<>>
    BY <1>1, CoroAssumption DEF OneByOne, Coros
  <2>2. current' = h \/ UNCHANGED packets
    BY DEF Feed
  <2> QED
    BY <1>1, <1>2, <2>1, <2>2 DEF OneByOne
<1>5. HonestInv'
  <2>1. Answered => Answered'
    BY <1>1 DEF Answered, Quiet
  <2> QED
    BY <1>1, <1>2, <1>4, <2>1, HonestKept DEF HonestInv, HonestSession
<1> QED
  BY <1>2, <1>3, <1>5

\* The button holds a fragment.
LEMMA ButtonHoldsOrder ==
  ASSUME TypeOK, IInv, Lines, Numbers, HonestInv, ButtonHolds
  PROVE  Lines' /\ Numbers' /\ HonestInv'
<1>1. /\ UNCHANGED <<setup, started, state, ready, failure, rxCounter, eventCount, pendingFragment,
                     packets, writing, current, downlink, broken, bState, bTx, bCount>>
      /\ ~broken /\ uplink # <<>>
  BY DEF ButtonHolds, sessionVars, coroVars, stateVars, authVars, eventVars
<1>2. Lines' /\ Arriving' = Arriving
  BY <1>1, LinesKept
<1>3. Numbers'
  BY <1>1, <1>2, NumbersKept
<1>4. HonestInv'
  <2>1. OneByOne => OneByOne'
    BY <1>1, OneByOneKept
  <2>2. ~Answered
    BY <1>1 DEF Answered, Quiet
  <2> QED
    BY <1>1, <1>2, <2>1, <2>2, HonestKept DEF HonestInv, HonestSession
<1> QED
  BY <1>2, <1>3, <1>4

\* The link is lost.
LEMMA LostOrder ==
  ASSUME TypeOK, IInv, Lines, Numbers, HonestInv, ConnectionLost
  PROVE  Lines' /\ Numbers' /\ HonestInv'
<1>1. /\ UNCHANGED <<setup, started, state, ready, failure, rxCounter, eventCount, pendingFragment,
                     packets, writing, current, bState, bTx, bCount>>
      /\ broken' = TRUE
  BY DEF ConnectionLost, sessionVars, coroVars, stateVars, authVars, eventVars, buttonVars
<1>2. Elements(downlink') \subseteq Elements(downlink)
  <2>1. downlink \in Seq(Values)
    BY DEF TypeOK
  <2> QED
    BY <2>1, ElementsOf DEF ConnectionLost
<1>3. Lines' /\ Arriving' \subseteq Arriving /\ AllBefore(Arriving', Arriving \ Arriving')
  BY <1>1, <1>2, LostLine, LostBundles DEF Lines
<1>4. Numbers'
  BY <1>1, <1>3, NumbersLost
<1>5. HonestInv'
  <2>1. OneByOne => OneByOne'
    BY <1>1, OneByOneKept
  <2> QED
    BY <1>1, <1>3, <2>1, HonestKept DEF HonestInv, HonestSession, Answered
<1> QED
  BY <1>3, <1>4, <1>5

\* A third party's packet is out of the order, and not numbered.
LEMMA StrayOrder ==
  ASSUME TypeOK, TypeOK', IInv, Lines, Numbers, HonestInv, KeySecret, StrayNotification
  PROVE  Lines' /\ Numbers' /\ HonestInv'
<1>1. /\ UNCHANGED <<setup, started, state, ready, failure, rxCounter, eventCount, pendingFragment,
                     packets, out, writing, current, uplink, broken, bState, bTx, bCount, bPending>>
      /\ ~broken
  BY DEF StrayNotification, sessionVars, coroVars, stateVars, authVars, eventVars, buttonVars
<1>2. PICK p \in Strays[setup] : downlink' = Append(downlink, Whole(p))
  BY DEF StrayNotification
<1>3. p \in Packets /\ ~Mine(p) /\ (setup.honest => Foreign(p) /\ ~Unsigned(p))
  BY StrayAssumption DEF TypeOK, KeySecret, Mine, Foreign, Unsigned
<1>4. Lines' /\ Arriving' = Arriving \cup {p}
  <2>1. Whole(p) \in Values /\ Whole(p).packets = <<p>> /\ ~Whole(p).more
    BY <1>3, Pieces
  <2>2. ~Own(p)
    BY <1>3 DEF Own
  <2>3. Ascending(<<p>>) /\ Bundle(<<p>>) /\ Elements(<<p>>) = {p}
    BY FewBundles, ElementsOfFew DEF Ascending
  <2>4. AllBefore(Arriving, {p})
    BY <2>2 DEF AllBefore, Before
  <2> QED
    BY <1>1, <1>2, <2>1, <2>3, <2>4, ValueSent
<1>5. Numbers'
  <2>1. CountersTrue'
    BY <1>1 DEF Numbers, CountersTrue, ButtonOpen
  <2>2. CountsFollow'
    <3>1. \A q \in Arriving' : Mine(q) => q \in Arriving
      BY <1>3, <1>4
    <3>2. Arriving \subseteq Arriving'
      BY <1>4
    <3> QED
      BY <1>1, <3>1, <3>2 DEF Numbers, CountsFollow, ButtonOpen
  <2>3. Numbered(p)'
    <3>1. \A q : ~Mine(q) => Numbered(q)'
      BY DEF Numbered, Mine
    <3> QED
      BY <1>3, <3>1
  <2>4. bTx' = bTx /\ bTx <= bTx' /\ \A n \in bTx .. bTx' - 1 : FALSE
    <3>1. bTx \in Nat /\ bTx' = bTx
      BY <1>1 DEF TypeOK
    <3>2. \A b \in Nat : b <= b /\ \A n \in b .. b - 1 : FALSE
      OBVIOUS
    <3> QED
      BY <3>1, <3>2
  <2>5. {p} \in SUBSET Packets
    BY <1>3
  <2> QED
    BY <1>1, <1>3, <1>4, <2>1, <2>2, <2>3, <2>4, <2>5, NumbersSent
<1>6. HonestInv'
  <2>1. OneByOne => OneByOne'
    BY <1>1, OneByOneKept
  <2>2. Answered => Answered'
    BY <1>1 DEF Answered, Quiet
  <2>3. ~Unsigned(p) => AnswerTrue(p)'
    BY DEF AnswerTrue, Unsigned
  <2> QED
    BY <1>1, <1>3, <1>4, <2>1, <2>2, <2>3, HonestKept DEF HonestInv, HonestSession
<1> QED
  BY <1>4, <1>5, <1>6

\* What the button answers to request u of the handshake.
Answer(u, p) ==
    /\ Notify(p) /\ FromHonest(p)
    /\ \/ /\ p.sig = NoSig /\ bTx' = bTx /\ bState' \in {bState, "offered"}
          /\ p.op \in {"FULL_VERIFY_RESPONSE_1", "FULL_VERIFY_FAIL_RESPONSE",
                       "QUICK_VERIFY_NEGATIVE_RESPONSE", "NO_LOGICAL_CONNECTION_SLOTS"}
          /\ p.op = "FULL_VERIFY_RESPONSE_1" => u.op = "FULL_VERIFY_REQUEST_1" /\ bState = "idle"
          /\ p.op = "FULL_VERIFY_FAIL_RESPONSE" => bState = "offered"
          /\ p.op = "QUICK_VERIFY_NEGATIVE_RESPONSE" => u.op = "QUICK_VERIFY_REQUEST" /\ bState = "idle"
       \/ /\ p.sig = <<"own", bTx>> /\ bTx' = bTx + 1 /\ bState' = "verified" /\ p.fault = "none"
          /\ p.op \in {"FULL_VERIFY_RESPONSE_2", "QUICK_VERIFY_RESPONSE"}

\* The answers of the button in the handshake.
LEMMA HandshakeAnswer ==
  ASSUME TypeOK, IInv, NEW u, ButtonAnswers(u)
  PROVE  \E p \in Packets : Answer(u, p)
<1>0. /\ bTx \in Nat /\ (bState = "offered" => bKey = "own") /\ "own" \in Keys
  BY DEF TypeOK, IInv, UplinkTrue, Keys
<1>1. \A op \in Opcodes :
        /\ FromButton(op) \in Packets /\ FromButton(op).op = op /\ FromButton(op).conn = OwnConn
        /\ FromButton(op).sig = NoSig /\ FromButton(op).fault = "none"
        /\ Assigned(op) \in Packets /\ Assigned(op).op = op /\ Assigned(op).conn = OwnConn
        /\ Assigned(op).sig = NoSig /\ Assigned(op).fault = "none" /\ Assigned(op).new
  BY PlainPacket DEF FromButton, Assigned, Packets, OwnConn, Plain
<1>2. \A q \in Packets : /\ [q EXCEPT !.fault = "mode"] \in Packets
                          /\ [q EXCEPT !.fault = "mode"].op = q.op
                          /\ [q EXCEPT !.fault = "mode"].conn = q.conn
                          /\ [q EXCEPT !.fault = "mode"].new = q.new
                          /\ [q EXCEPT !.fault = "mode"].sig = q.sig
                          /\ [q EXCEPT !.fault = "mode"].fault = "mode"
  <2>1. \A q \in Packets : [q EXCEPT !.fault = "mode"] \in Packets
    BY DEF Packets, Faults
  <2> QED
    BY <2>1 DEF Packets
<1>3. \A q \in Packets, key \in Keys, n \in Nat :
                          /\ [q EXCEPT !.sig = <<key, n>>] \in Packets
                          /\ [q EXCEPT !.sig = <<key, n>>].op = q.op
                          /\ [q EXCEPT !.sig = <<key, n>>].conn = q.conn
                          /\ [q EXCEPT !.sig = <<key, n>>].new = q.new
                          /\ [q EXCEPT !.sig = <<key, n>>].fault = q.fault
                          /\ [q EXCEPT !.sig = <<key, n>>].sig = <<key, n>>
  <2>1. \A s : \A q \in Packets : /\ [q EXCEPT !.sig = s].op = q.op /\ [q EXCEPT !.sig = s].conn = q.conn
                                  /\ [q EXCEPT !.sig = s].new = q.new /\ [q EXCEPT !.sig = s].fault = q.fault
                                  /\ [q EXCEPT !.sig = s].sig = s
    BY DEF Packets
  <2>2. \A q \in Packets, key \in Keys, n \in Nat : [q EXCEPT !.sig = <<key, n>>] \in Packets
    BY FieldTypes
  <2>3. \A q \in Packets, key \in Keys, n \in Nat :
                          /\ [q EXCEPT !.sig = <<key, n>>].op = q.op
                          /\ [q EXCEPT !.sig = <<key, n>>].conn = q.conn
                          /\ [q EXCEPT !.sig = <<key, n>>].new = q.new
                          /\ [q EXCEPT !.sig = <<key, n>>].fault = q.fault
                          /\ [q EXCEPT !.sig = <<key, n>>].sig = <<key, n>>
    BY <2>1
  <2> QED
    BY <2>2, <2>3, Zenon
<1>4. {"FULL_VERIFY_RESPONSE_1", "NO_LOGICAL_CONNECTION_SLOTS", "FULL_VERIFY_RESPONSE_2",
       "FULL_VERIFY_FAIL_RESPONSE", "QUICK_VERIFY_RESPONSE", "QUICK_VERIFY_NEGATIVE_RESPONSE"}
         \subseteq Opcodes
  BY DEF Opcodes
\* Unsigned, and signed.
<1>5. ASSUME NEW p \in Packets, Notify(p), p.conn = OwnConn, p.sig = NoSig, bTx' = bTx,
             bState' \in {bState, "offered"},
             \/ /\ p.op = "FULL_VERIFY_RESPONSE_1" /\ p.new /\ p.fault \in {"none", "mode"}
                /\ u.op = "FULL_VERIFY_REQUEST_1" /\ bState = "idle"
             \/ p.op = "NO_LOGICAL_CONNECTION_SLOTS" /\ p.fault = "none"
             \/ p.op = "FULL_VERIFY_FAIL_RESPONSE" /\ p.fault = "none" /\ bState = "offered"
             \/ /\ p.op = "QUICK_VERIFY_NEGATIVE_RESPONSE" /\ p.fault = "none"
                /\ u.op = "QUICK_VERIFY_REQUEST" /\ bState = "idle"
      PROVE  \E q \in Packets : Answer(u, q)
  <2>1. Answer(u, p)
    BY <1>5 DEF Answer, FromHonest, Unsigned
  <2> QED
    BY <2>1
<1>6. ASSUME NEW p \in Packets, Notify(p), p.conn = OwnConn, p.sig = <<"own", bTx>>, bTx' = bTx + 1,
             bState' = "verified", p.fault = "none",
             p.op = "FULL_VERIFY_RESPONSE_2" \/ (p.op = "QUICK_VERIFY_RESPONSE" /\ p.new)
      PROVE  \E q \in Packets : Answer(u, q)
  <2>1. Mine(p) /\ p.sig[2] = bTx
    BY <1>6 DEF Mine, OwnSigned, NoSig
  <2>2. FromHonest(p)
    BY <1>6, <2>1 DEF FromHonest
  <2>3. Answer(u, p)
    BY <1>6, <2>2 DEF Answer
  <2> QED
    BY <2>3
<1>7. CASE /\ bState = "idle" /\ u.op = "FULL_VERIFY_REQUEST_1" /\ UNCHANGED bTx
           /\ Notify(Assigned("FULL_VERIFY_RESPONSE_1")) /\ bState' = "offered"
  BY <1>1, <1>4, <1>5, <1>7
<1>8. CASE /\ bState = "idle" /\ u.op = "FULL_VERIFY_REQUEST_1" /\ UNCHANGED <<bState, bTx>>
           /\ Notify([Assigned("FULL_VERIFY_RESPONSE_1") EXCEPT !.fault = "mode"])
  <2> DEFINE p == [Assigned("FULL_VERIFY_RESPONSE_1") EXCEPT !.fault = "mode"]
  <2>1. /\ p \in Packets /\ p.op = "FULL_VERIFY_RESPONSE_1" /\ p.conn = OwnConn /\ p.new
        /\ p.sig = NoSig /\ p.fault = "mode"
    BY <1>1, <1>2, <1>4
  <2>2. Notify(p)
    BY <1>8
  <2> HIDE DEF p
  <2> QED
    BY <1>5, <1>8, <2>1, <2>2
<1>9. CASE UNCHANGED <<bState, bTx>> /\ Notify(FromButton("NO_LOGICAL_CONNECTION_SLOTS"))
  BY <1>1, <1>4, <1>5, <1>9
<1>10. CASE /\ bState = "offered" /\ bState' = "verified" /\ bTx' = bTx + 1
            /\ Notify([FromButton("FULL_VERIFY_RESPONSE_2") EXCEPT !.sig = <<bKey, bTx>>])
  <2>1. FromButton("FULL_VERIFY_RESPONSE_2") \in Packets /\ bKey = "own"
    BY <1>0, <1>1, <1>4, <1>10
  <2> DEFINE p == [FromButton("FULL_VERIFY_RESPONSE_2") EXCEPT !.sig = <<bKey, bTx>>]
  <2>2. /\ p \in Packets /\ p.op = "FULL_VERIFY_RESPONSE_2" /\ p.conn = OwnConn
        /\ p.sig = <<bKey, bTx>> /\ p.fault = "none"
    BY <1>0, <1>1, <1>3, <1>4, <2>1
  <2>3. Notify(p)
    BY <1>10
  <2> HIDE DEF p
  <2> QED
    BY <1>6, <1>10, <2>1, <2>2, <2>3
<1>11. CASE bState = "offered" /\ UNCHANGED <<bState, bTx>> /\ Notify(FromButton("FULL_VERIFY_FAIL_RESPONSE"))
  BY <1>1, <1>4, <1>5, <1>11
<1>12. CASE /\ bState = "idle" /\ bState' = "verified" /\ bTx' = bTx + 1
            /\ Notify([Assigned("QUICK_VERIFY_RESPONSE") EXCEPT !.sig = <<"own", bTx>>])
  <2> DEFINE p == [Assigned("QUICK_VERIFY_RESPONSE") EXCEPT !.sig = <<"own", bTx>>]
  <2>1. /\ p \in Packets /\ p.op = "QUICK_VERIFY_RESPONSE" /\ p.conn = OwnConn /\ p.new
        /\ p.sig = <<"own", bTx>> /\ p.fault = "none"
    BY <1>0, <1>1, <1>3, <1>4
  <2>2. Notify(p)
    BY <1>12
  <2> HIDE DEF p
  <2> QED
    BY <1>6, <1>12, <2>1, <2>2
<1>13. CASE /\ bState = "idle" /\ u.op = "QUICK_VERIFY_REQUEST" /\ UNCHANGED <<bState, bTx>>
            /\ Notify(FromButton("QUICK_VERIFY_NEGATIVE_RESPONSE"))
  BY <1>1, <1>4, <1>5, <1>13
<1> QED
  BY <1>7, <1>8, <1>9, <1>10, <1>11, <1>12, <1>13 DEF ButtonAnswers

\* What taking a packet does not change, the coroutines included.
LEMMA TakesLeaves ==
  ASSUME NEW u, Takes(u)
  PROVE  /\ UNCHANGED <<setup, started, state, ready, failure, rxCounter, eventCount, pendingFragment,
                        packets, writing, current, broken>>
         /\ ~broken /\ ~Quiet /\ ~Answered
BY DEF Takes, sessionVars, coroVars, stateVars, authVars, eventVars, Quiet, Answered

\* The answer to a request of the handshake is alone on its way.
LEMMA ButtonAnswersOrder ==
  ASSUME TypeOK, TypeOK', IInv, Lines, Numbers, HonestInv, NEW u, ButtonAnswers(u)
  PROVE  Lines' /\ Numbers' /\ HonestInv'
<1>1. /\ UNCHANGED <<setup, started, state, ready, failure, rxCounter, eventCount, pendingFragment,
                     packets, writing, current, broken, bCount>>
      /\ ~broken /\ ~Answered /\ Takes(u) /\ bState \in {"idle", "offered"} /\ ~Quiet
  BY TakesLeaves DEF ButtonAnswers
<1>2. UplinkTrue /\ StateTrue /\ ~ButtonOpen /\ ~ButtonVerified /\ PacketsNumbered /\ CountersTrue
  BY <1>1 DEF IInv, Numbers, ButtonOpen, ButtonVerified
<1>3. /\ u \in Packets /\ Answered'
      /\ bState = "idle" => (u.op = "QUICK_VERIFY_REQUEST" <=> ~setup.full)
  BY <1>1, <1>2, TakesRequest DEF Answered
<1>4. PICK p \in Packets : Answer(u, p)
  BY HandshakeAnswer
<1>5. bTx = 0 /\ bTx' \in {0, 1} /\ state # "ESTABLISHED" /\ started
      /\ bState' \in {"idle", "offered", "verified"} /\ (bState' = "verified" <=> bTx' = 1)
  BY <1>1, <1>2, <1>4 DEF CountersTrue, StateTrue, Answer
<1>6. \A q \in Arriving : ~Own(q)
  BY <1>1, <1>2, MineTrue DEF Own, HonestInv, HonestSession, AnswersTrue, AnswerTrue
<1>7. Lines' /\ Arriving' = Arriving \cup {p}
  <2>1. AllBefore(Arriving, {p})
    BY <1>6 DEF AllBefore, Before
  <2> QED
    BY <1>1, <1>4, <2>1, PacketSent DEF Answer
<1>8. Mine(p) <=> bTx' = 1
  BY <1>4, <1>5 DEF Answer, Mine, OwnSigned, NoSig, FromHonest
<1>9. Mine(p) => p.sig[2] = 0
  BY <1>4, <1>5, <1>8 DEF Answer
<1>10. Numbers'
  <2>1. CountersTrue'
    BY <1>1, <1>2, <1>5 DEF CountersTrue, ButtonOpen
  <2>2. CountsFollow'
    BY <1>1, <1>5 DEF CountsFollow
  <2>3. Numbered(p)'
    <3>1. Mine(p) => p.fault = "none" /\ p.op \in {"FULL_VERIFY_RESPONSE_2", "QUICK_VERIFY_RESPONSE"}
      BY <1>4, <1>5, <1>8 DEF Answer
    <3>2. \A q : Mine(q) /\ q.fault = "none" /\ q.sig[2] = 0
                 /\ q.op \in {"FULL_VERIFY_RESPONSE_2", "QUICK_VERIFY_RESPONSE"} => Numbered(q)'
      BY DEF Numbered
    <3>3. \A q : ~Mine(q) => Numbered(q)'
      BY DEF Numbered, Mine
    <3> QED
      BY <1>9, <3>1, <3>2, <3>3
  <2>4. bTx <= bTx' /\ (Mine(p) => bTx <= p.sig[2] /\ p.sig[2] < bTx')
    BY <1>5, <1>8, <1>9
  <2>5. ASSUME NEW n \in bTx .. bTx' - 1 PROVE Mine(p) /\ p.sig[2] = n
    <3>1. n \in 0 .. 0 - 1 \/ (n \in 0 .. 1 - 1 /\ bTx' = 1)
      BY <1>5, <2>5
    <3>2. n = 0 /\ bTx' = 1
      BY <3>1
    <3> QED
      BY <1>8, <1>9, <3>2
  <2>6. {p} \in SUBSET Packets
    OBVIOUS
  <2> QED
    BY <1>1, <1>7, <2>1, <2>2, <2>3, <2>4, <2>5, <2>6, NumbersSent
<1>11. HonestInv'
  <2>1. ASSUME setup.honest PROVE HonestSession /\ OneByOne'
    BY <1>1, <2>1, OneByOneKept DEF HonestInv, HonestSession
  <2>2. ASSUME setup.honest PROVE FromHonest(p) /\ AnswerTrue(p)'
    <3> SUFFICES ASSUME Unsigned(p) PROVE AnswerTrue(p)'
      BY <1>4 DEF Answer, AnswerTrue, Unsigned
    <3>1. state \in States /\ state # "IDLE" /\ setup.full \in BOOLEAN
      BY <1>5, <2>1, <2>2, SetupAssumption DEF TypeOK, HonestSession, FailuresTrue
    <3>2. bState' \in {"idle", "offered"}
      BY <1>4 DEF Answer, Unsigned
    <3>3. p.op = "FULL_VERIFY_RESPONSE_1" => state \in {"FAILED", "WAIT_FULL_VERIFY_1"}
      BY <1>1, <1>2, <1>3, <1>4, <1>5, <3>1 DEF Answer, StateTrue, States
    <3>4. p.op = "FULL_VERIFY_FAIL_RESPONSE" => state \in {"FAILED", "WAIT_FULL_VERIFY_2"}
      BY <1>1, <1>2, <1>4, <1>5, <3>1 DEF Answer, StateTrue, States
    <3>5. p.op = "QUICK_VERIFY_NEGATIVE_RESPONSE" => state \in {"FAILED", "WAIT_QUICK_VERIFY"}
      BY <1>1, <1>2, <1>3, <1>4, <1>5, <3>1 DEF Answer, StateTrue, States
    <3> QED
      BY <1>1, <1>3, <3>2, <3>3, <3>4, <3>5 DEF AnswerTrue, Unsigned
  <2>3. \A q \in Arriving : setup.honest => ~Unsigned(q)
    BY <1>6 DEF Own
  <2> QED
    BY <1>1, <1>5, <1>7, <2>1, <2>2, <2>3, HonestKept
<1> QED
  BY <1>7, <1>10, <1>11

\* Once the button has signed, what it signs next comes after all that is on its way.
LEMMA AfterAll ==
  ASSUME TypeOK, IInv, Numbers, HonestInv, ButtonVerified
  PROVE  /\ setup.honest => \A q \in Arriving : ~Unsigned(q)
         /\ \A p \in Packets : (Mine(p) => bTx <= p.sig[2]) /\ ~Unsigned(p) => AllBefore(Arriving, {p})
<1>1. setup.honest => \A q \in Arriving : ~Unsigned(q)
  BY DEF HonestInv, HonestSession, AnswersTrue, AnswerTrue, ButtonVerified
<1>2. ASSUME NEW p \in Packets, Mine(p) => bTx <= p.sig[2], ~Unsigned(p), NEW q \in Arriving, Own(p), Own(q)
      PROVE  Rank(q) < Rank(p)
  <2>1. Mine(p) /\ Mine(q)
    BY <1>1, <1>2 DEF Own
  <2>2. p.sig[2] \in Nat
    BY <2>1 DEF Mine, OwnSigned, Packets
  <2>3. q.sig[2] \in Nat /\ q.sig[2] < bTx /\ bTx \in Nat
    BY <2>1, MineTrue DEF Numbers
  <2> QED
    BY <1>2, <2>1, <2>2, <2>3 DEF Rank
<1>3. \A p \in Packets : (Mine(p) => bTx <= p.sig[2]) /\ ~Unsigned(p) => AllBefore(Arriving, {p})
  BY <1>2 DEF AllBefore, Before
<1> QED
  BY <1>1, <1>3

\* The response to the init packet.
LEMMA InitAnswer ==
  ASSUME TypeOK, NEW n \in Nat, bKey = "own",
         Notify([FromButton("INIT_RESPONSE") EXCEPT !.sig = <<bKey, bTx>>, !.count = n])
  PROVE  \E p \in Packets : /\ p.op = "INIT_RESPONSE" /\ p.conn = OwnConn /\ p.fault = "none"
                            /\ p.sig = <<"own", bTx>> /\ p.count = n /\ Notify(p)
<1> DEFINE p == [FromButton("INIT_RESPONSE") EXCEPT !.sig = <<bKey, bTx>>, !.count = n]
<1>1. /\ FromButton("INIT_RESPONSE") \in Packets /\ FromButton("INIT_RESPONSE").op = "INIT_RESPONSE"
      /\ FromButton("INIT_RESPONSE").conn = OwnConn /\ FromButton("INIT_RESPONSE").fault = "none"
  BY PlainPacket DEF FromButton, Packets, OwnConn, Opcodes, Plain
<1>2. bTx \in Nat /\ "own" \in Keys
  BY DEF TypeOK, Keys
<1>3. p \in Packets
  BY <1>1, <1>2, FieldTypes
<1>4. \A s, c : \A q \in Packets : /\ [q EXCEPT !.sig = s, !.count = c].op = q.op
                                   /\ [q EXCEPT !.sig = s, !.count = c].conn = q.conn
                                   /\ [q EXCEPT !.sig = s, !.count = c].fault = q.fault
                                   /\ [q EXCEPT !.sig = s, !.count = c].sig = s
                                   /\ [q EXCEPT !.sig = s, !.count = c].count = c
  BY DEF Packets
<1>5. p.op = "INIT_RESPONSE" /\ p.conn = OwnConn /\ p.fault = "none" /\ p.sig = <<bKey, bTx>> /\ p.count = n
  BY <1>1, <1>4
<1>6. Notify(p)
  OBVIOUS
<1> HIDE DEF p
<1> QED
  BY <1>3, <1>5, <1>6

\* The button takes a packet of the session.
LEMMA ButtonAcceptsOrder ==
  ASSUME TypeOK, TypeOK', IInv, Lines, Numbers, HonestInv, NEW u, ButtonAccepts(u)
  PROVE  Lines' /\ Numbers' /\ HonestInv'
<1>1. /\ UNCHANGED <<setup, started, state, ready, failure, rxCounter, eventCount, pendingFragment,
                     packets, writing, current, broken>>
      /\ ~broken /\ Takes(u) /\ ButtonVerified
  BY TakesLeaves DEF ButtonAccepts, ButtonVerified
<1>2. UplinkTrue /\ StateTrue /\ PacketsNumbered /\ CountersTrue
  BY DEF IInv, Numbers
<1>3. setup.honest => \A q \in Arriving : ~Unsigned(q)
  BY <1>1, AfterAll
<1>4. ASSUME setup.honest PROVE HonestSession /\ OneByOne'
  BY <1>1, <1>4, OneByOneKept DEF HonestInv, HonestSession
<1>5. CASE bState = "verified"
  <2>1. /\ u \in Packets /\ bKey = "own" /\ ~ButtonOpen /\ bTx = 1 /\ started
    BY <1>1, <1>2, <1>5, TakesRequest DEF ButtonOpen, UplinkTrue, CountersTrue, StateTrue
  <2>2. PICK n \in Nat :
          /\ Notify([FromButton("INIT_RESPONSE") EXCEPT !.sig = <<bKey, bTx>>, !.count = n])
          /\ bCount' = n /\ bState' = "active" /\ bTx' = bTx + 1
    <3>1. u.count .. u.count + 1 \subseteq Nat
      BY <2>1 DEF Packets
    <3> QED
      BY <1>5, <3>1 DEF ButtonAccepts
  <2>3. PICK p \in Packets : /\ p.op = "INIT_RESPONSE" /\ p.conn = OwnConn /\ p.fault = "none"
                             /\ p.sig = <<"own", bTx>> /\ p.count = n /\ Notify(p)
    BY <2>1, <2>2, InitAnswer
  <2>4. Mine(p) /\ p.sig[2] = 1 /\ ~Unsigned(p) /\ bTx' = 2
    BY <2>1, <2>2, <2>3 DEF Mine, OwnSigned, NoSig, Unsigned
  <2>5. Lines' /\ Arriving' = Arriving \cup {p}
    <3>1. AllBefore(Arriving, {p})
      BY <1>1, <2>1, <2>4, AfterAll
    <3> QED
      BY <1>1, <2>3, <3>1, PacketSent
  <2>6. Numbers'
    <3>1. CountersTrue'
      <4>1. rxCounter <= 1 => rxCounter <= 2
        <5>1. rxCounter \in Nat
          BY DEF TypeOK
        <5> QED
          BY <5>1
      <4>2. bState' = "active" /\ bTx' = 2 /\ bTx = 1 /\ UNCHANGED <<started, state, ready, failure, rxCounter>>
        BY <1>1, <2>1, <2>2, <2>4
      <4> QED
        BY <1>2, <4>1, <4>2 DEF CountersTrue, ButtonOpen
    <3>2. CountsFollow'
      <4>1. \A q \in Arriving' : ~(Mine(q) /\ q.op = "BUTTON_EVENT")
        BY <1>2, <2>1, <2>3, <2>5, MineTrue
      <4>2. Counted(p) /\ p.count = bCount' /\ p \in Arriving'
        BY <2>2, <2>3, <2>4, <2>5 DEF Counted
      <4> QED
        BY <4>1, <4>2 DEF CountsFollow
    <3>3. Numbered(p)'
      <4>1. \A q : q.fault = "none" /\ q.sig[2] = 1 /\ q.op = "INIT_RESPONSE" => Numbered(q)'
        BY DEF Numbered
      <4> QED
        BY <2>3, <2>4, <4>1
    <3>4. bTx <= bTx' /\ bTx <= p.sig[2] /\ p.sig[2] < bTx' /\ \A m \in bTx .. bTx' - 1 : p.sig[2] = m
      BY <2>1, <2>4
    <3>5. {p} \in SUBSET Packets
      OBVIOUS
    <3> QED
      BY <1>1, <1>5, <2>4, <2>5, <3>1, <3>2, <3>3, <3>4, <3>5, NumbersSent
  <2>7. HonestInv'
    <3>1. FromHonest(p) /\ AnswerTrue(p)'
      <4>1. FromHonest(p)
        BY <2>3, <2>4 DEF FromHonest
      <4>2. \A q : ~Unsigned(q) => AnswerTrue(q)'
        BY DEF AnswerTrue, Unsigned
      <4> QED
        BY <2>4, <4>1, <4>2
    <3> QED
      BY <1>1, <1>3, <1>4, <1>5, <2>1, <2>5, <3>1, HonestKept
  <2> QED
    BY <2>5, <2>6, <2>7
<1>6. CASE ButtonOpen
  <2>1. UNCHANGED <<downlink, bState, bTx, bCount>>
    BY <1>6 DEF ButtonAccepts, ButtonOpen
  <2>2. Lines' /\ Arriving' = Arriving
    BY <1>1, <2>1, LinesKept
  <2>3. Numbers'
    BY <1>1, <2>1, <2>2, NumbersKept
  <2>4. HonestInv'
    BY <1>1, <1>3, <1>4, <2>1, <2>2, HonestKept
  <2> QED
    BY <2>2, <2>3, <2>4
<1> QED
  BY <1>5, <1>6 DEF ButtonAccepts, ButtonOpen

\* What the button says on its own: the next packet, or two events in one value.
Speaking(p) ==
    /\ Notify(p) /\ p.conn = OwnConn /\ p.fault = "none" /\ p.sig = <<"own", bTx>> /\ bTx' = bTx + 1
    /\ \/ p.op = "BUTTON_EVENT" /\ p.count = bCount + 1 /\ bCount' = bCount + 1 /\ bState' = bState
       \/ /\ p.op \in {"PING_REQUEST", "GET_BATTERY_LEVEL_RESPONSE"}
          /\ bCount' = bCount /\ bState' = bState
       \/ p.op = "DISCONNECT_VERIFIED_LINK" /\ bCount' = bCount /\ bState' = "closed"
SpeakingTwice(p, q) ==
    /\ downlink' = Append(downlink, [more |-> FALSE, packets |-> <<p, q>>])
    /\ p.op = "BUTTON_EVENT" /\ p.conn = OwnConn /\ p.fault = "none"
    /\ p.sig = <<"own", bTx>> /\ p.count = bCount + 1
    /\ q.op = "BUTTON_EVENT" /\ q.conn = OwnConn /\ q.fault = "none"
    /\ q.sig = <<"own", bTx + 1>> /\ q.count = bCount + 2
    /\ bTx' = bTx + 2 /\ bCount' = bCount + 2 /\ bState' = bState

\* What the button says on its own is one packet, or two events.
LEMMA ButtonSpeaking ==
  ASSUME TypeOK, bKey = "own", ButtonSpeaks
  PROVE  (\E p \in Packets : Speaking(p)) \/ (\E p, q \in Packets : SpeakingTwice(p, q))
<1>0. bTx \in Nat /\ bCount \in Nat
  BY DEF TypeOK
<1>1. CASE /\ \E ack \in BOOLEAN : Notify(ButtonEvent(0, ack))
           /\ bTx' = bTx + 1 /\ bCount' = bCount + 1 /\ UNCHANGED bState
  <2>1. PICK ack \in BOOLEAN : Notify(ButtonEvent(0, ack))
    BY <1>1
  <2>2. ButtonEvent(0, ack) \in Packets /\ Speaking(ButtonEvent(0, ack))
    BY <1>1, <2>1, SpokenFirst DEF Speaking
  <2> QED
    BY <2>2
<1>2. CASE /\ \E ack \in BOOLEAN :
                downlink' = Append(downlink,
                    [more |-> FALSE, packets |-> <<ButtonEvent(0, ack), ButtonEvent(1, FALSE)>>])
           /\ bTx' = bTx + 2 /\ bCount' = bCount + 2 /\ UNCHANGED bState
  <2>1. PICK ack \in BOOLEAN :
          downlink' = Append(downlink,
              [more |-> FALSE, packets |-> <<ButtonEvent(0, ack), ButtonEvent(1, FALSE)>>])
    BY <1>2
  <2>2. /\ ButtonEvent(1, FALSE) \in Packets /\ ButtonEvent(1, FALSE).op = "BUTTON_EVENT"
        /\ ButtonEvent(1, FALSE).conn = OwnConn /\ ButtonEvent(1, FALSE).sig = <<"own", bTx + 1>>
        /\ ButtonEvent(1, FALSE).count = bCount + 2 /\ ButtonEvent(1, FALSE).fault = "none"
    <3>1. /\ ButtonEvent(1, FALSE) \in Packets /\ ButtonEvent(1, FALSE).op = "BUTTON_EVENT"
          /\ ButtonEvent(1, FALSE).conn = OwnConn /\ ButtonEvent(1, FALSE).sig = <<"own", bTx + 1>>
          /\ ButtonEvent(1, FALSE).count = bCount + 1 + 1 /\ ButtonEvent(1, FALSE).fault = "none"
      BY SpokenEvent
    <3>2. bCount + 1 + 1 = bCount + 2
      BY <1>0
    <3> QED
      BY <3>1, <3>2
  <2>3. /\ ButtonEvent(0, ack) \in Packets /\ ButtonEvent(0, ack).op = "BUTTON_EVENT"
        /\ ButtonEvent(0, ack).conn = OwnConn /\ ButtonEvent(0, ack).sig = <<"own", bTx>>
        /\ ButtonEvent(0, ack).count = bCount + 1 /\ ButtonEvent(0, ack).fault = "none"
    BY SpokenFirst
  <2>4. SpeakingTwice(ButtonEvent(0, ack), ButtonEvent(1, FALSE))
    BY <1>2, <2>1, <2>2, <2>3 DEF SpeakingTwice
  <2> QED
    BY <2>2, <2>3, <2>4
<1>3. CASE /\ \E op \in {"PING_REQUEST", "GET_BATTERY_LEVEL_RESPONSE"} : Notify(ButtonPacket(op, bTx))
           /\ bTx' = bTx + 1 /\ UNCHANGED <<bState, bCount>>
  <2>1. PICK op \in {"PING_REQUEST", "GET_BATTERY_LEVEL_RESPONSE"} : Notify(ButtonPacket(op, bTx))
    BY <1>3
  <2>2. ButtonPacket(op, bTx) \in Packets /\ Speaking(ButtonPacket(op, bTx))
    BY <1>0, <1>3, <2>1, SpokenPacket DEF Speaking
  <2> QED
    BY <2>2
<1>4. CASE /\ Notify(ButtonPacket("DISCONNECT_VERIFIED_LINK", bTx))
           /\ bTx' = bTx + 1 /\ bState' = "closed" /\ UNCHANGED bCount
  <2>1. /\ ButtonPacket("DISCONNECT_VERIFIED_LINK", bTx) \in Packets
        /\ Speaking(ButtonPacket("DISCONNECT_VERIFIED_LINK", bTx))
    BY <1>0, <1>4, SpokenPacket DEF Speaking
  <2> QED
    BY <2>1
<1> QED
  BY <1>1, <1>2, <1>3, <1>4 DEF ButtonSpeaks

\* What the button says on its own continues the numbers and the counts.
LEMMA ButtonSpeaksOrder ==
  ASSUME TypeOK, TypeOK', IInv, Lines, Numbers, HonestInv, ButtonSpeaks
  PROVE  Lines' /\ Numbers' /\ HonestInv'
<1>1. /\ UNCHANGED <<setup, started, state, ready, failure, rxCounter, eventCount, pendingFragment,
                     packets, writing, current, broken>>
      /\ ~broken /\ bState = "active"
  BY DEF ButtonSpeaks, sessionVars, coroVars, stateVars, authVars, eventVars
<1>2. /\ StateTrue /\ PacketsNumbered /\ CountersTrue /\ bKey = "own" /\ started
      /\ bTx \in Nat /\ bCount \in Nat /\ rxCounter \in Nat /\ bTx > 1 /\ ButtonVerified /\ ButtonOpen
  BY <1>1 DEF IInv, Numbers, UplinkTrue, StateTrue, CountersTrue, ButtonOpen, ButtonVerified, TypeOK
<1>3. setup.honest => \A q \in Arriving : ~Unsigned(q)
  BY <1>2, AfterAll
<1>4. \A q \in Arriving : Mine(q) => q.sig[2] \in Nat /\ q.sig[2] < bTx
  BY <1>2, MineTrue
\* What was said before is followed as before, and the last of it by what comes next.
<1>5. state = "ESTABLISHED" =>
         /\ \A q \in Arriving : Mine(q) /\ q.op = "BUTTON_EVENT" =>
              \/ rxCounter > 1 /\ q.count = eventCount + 1
              \/ \E r \in Arriving : Counted(r) /\ r.sig[2] < q.sig[2] /\ q.count = r.count + 1
         /\ \/ rxCounter > 1 /\ bCount = eventCount
            \/ \E q \in Arriving : Counted(q) /\ q.sig[2] < bTx /\ q.count = bCount
  BY <1>1, <1>2, <1>4 DEF Numbers, CountsFollow, Counted
<1>6. ASSUME bState' \in {"active", "closed"}, bTx' \in Nat, bTx' > bTx PROVE CountersTrue'
  BY <1>1, <1>2, <1>6 DEF CountersTrue, ButtonOpen
<1>7. \A q : Mine(q) /\ q.fault = "none" /\ q.sig[2] > 1
             /\ (\/ q.op \in {"BUTTON_EVENT", "PING_REQUEST", "GET_BATTERY_LEVEL_RESPONSE"}
                 \/ q.op = "DISCONNECT_VERIFIED_LINK" /\ bState' = "closed")
             => Numbered(q)'
  BY DEF Numbered
<1>8. ASSUME NEW S \in SUBSET Packets, Arriving' = Arriving \cup S, bState' # "idle",
             \A q \in S : Mine(q) /\ q.fault = "none" /\ ~Unsigned(q)
                          /\ q.op \notin {"FULL_VERIFY_RESPONSE_1", "QUICK_VERIFY_RESPONSE"}
      PROVE  HonestInv'
  <2>1. ASSUME setup.honest PROVE HonestSession /\ OneByOne'
    BY <1>1, <2>1, OneByOneKept DEF HonestInv, HonestSession
  <2>2. \A q : ~Unsigned(q) => AnswerTrue(q)'
    BY DEF AnswerTrue, Unsigned
  <2>3. \A q \in S : FromHonest(q) /\ AnswerTrue(q)'
    BY <1>8, <2>2 DEF FromHonest, Mine
  <2> QED
    BY <1>1, <1>2, <1>3, <1>8, <2>1, <2>3, HonestKept
<1>9. ASSUME NEW p \in Packets, Speaking(p)
      PROVE  Lines' /\ Numbers' /\ HonestInv'
  <2>1. /\ Mine(p) /\ p.sig[2] = bTx /\ ~Unsigned(p) /\ bTx' = bTx + 1 /\ Notify(p) /\ p.fault = "none"
        /\ bState' \in {"active", "closed"}
        /\ p.op \in {"BUTTON_EVENT", "PING_REQUEST", "GET_BATTERY_LEVEL_RESPONSE", "DISCONNECT_VERIFIED_LINK"}
        /\ p.op = "DISCONNECT_VERIFIED_LINK" => bState' = "closed"
    BY <1>1, <1>2, <1>9 DEF Speaking, Mine, OwnSigned, NoSig, Unsigned
  <2>2. Lines' /\ Arriving' = Arriving \cup {p}
    <3>1. AllBefore(Arriving, {p})
      BY <1>2, <2>1, AfterAll
    <3> QED
      BY <1>1, <2>1, <3>1, PacketSent
  <2>3. CountsFollow'
    <3> SUFFICES ASSUME state = "ESTABLISHED"
                 PROVE  /\ \A q \in Arriving' : Mine(q) /\ q.op = "BUTTON_EVENT" =>
                             \/ rxCounter > 1 /\ q.count = eventCount + 1
                             \/ \E r \in Arriving' : Counted(r) /\ r.sig[2] < q.sig[2] /\ q.count = r.count + 1
                        /\ \/ rxCounter > 1 /\ bCount' = eventCount
                           \/ \E q \in Arriving' : Counted(q) /\ q.count = bCount'
      BY <1>1 DEF CountsFollow
    <3>1. CASE p.op = "BUTTON_EVENT"
      <4>1. p.count = bCount + 1 /\ bCount' = bCount + 1 /\ Counted(p)
        BY <1>9, <2>1, <3>1 DEF Speaking, Counted
      <4> QED
        BY <1>5, <2>1, <2>2, <4>1
    <3>2. CASE p.op # "BUTTON_EVENT"
      <4>1. bCount' = bCount
        BY <1>9, <3>2 DEF Speaking
      <4> QED
        BY <1>5, <2>2, <3>2, <4>1
    <3> QED
      BY <3>1, <3>2
  <2>4. Numbers'
    <3>1. CountersTrue' /\ Numbered(p)'
      BY <1>2, <1>6, <1>7, <2>1
    <3>2. bTx <= bTx' /\ p.sig[2] < bTx' /\ bTx <= p.sig[2]
      BY <1>2, <2>1
    <3>3. \A n \in bTx .. bTx' - 1 : p.sig[2] = n
      <4>1. \A a \in Nat : \A n \in a .. (a + 1) - 1 : a = n
        OBVIOUS
      <4> QED
        BY <1>2, <2>1, <4>1
    <3>4. {p} \in SUBSET Packets
      OBVIOUS
    <3> QED
      BY <1>1, <2>1, <2>2, <2>3, <3>1, <3>2, <3>3, <3>4, NumbersSent
  <2>5. HonestInv'
    <3>1. {p} \in SUBSET Packets /\ bState' # "idle"
      BY <2>1
    <3> QED
      BY <1>8, <2>1, <2>2, <3>1
  <2> QED
    BY <2>2, <2>4, <2>5
<1>10. ASSUME NEW p \in Packets, NEW q \in Packets, SpeakingTwice(p, q)
       PROVE  Lines' /\ Numbers' /\ HonestInv'
  <2>1. /\ Mine(p) /\ p.sig[2] = bTx /\ ~Unsigned(p) /\ p.op = "BUTTON_EVENT" /\ p.fault = "none"
        /\ p.count = bCount + 1
    BY <1>10 DEF SpeakingTwice, Mine, OwnSigned, NoSig, Unsigned
  <2>2. /\ Mine(q) /\ q.sig[2] = bTx + 1 /\ ~Unsigned(q) /\ q.op = "BUTTON_EVENT" /\ q.fault = "none"
        /\ q.count = bCount + 2
    BY <1>10 DEF SpeakingTwice, Mine, OwnSigned, NoSig, Unsigned
  <2>3. bTx' = bTx + 2 /\ bCount' = bCount + 2 /\ bState' = "active"
    BY <1>1, <1>10 DEF SpeakingTwice
  <2>4. Lines' /\ Arriving' = Arriving \cup {p, q}
    <3> DEFINE v == [more |-> FALSE, packets |-> <<p, q>>]
    <3>1. v \in Values /\ v.packets = <<p, q>> /\ ~v.more
      <4>1. <<p, q>> \in Seq(Packets) \ {<<>>}
        OBVIOUS
      <4> QED
        BY <4>1 DEF Values
    <3>2. downlink' = Append(downlink, v)
      BY <1>10 DEF SpeakingTwice
    <3> HIDE DEF v
    <3>3. \A a, b : Len(<<a, b>>) = 2 /\ <<a, b>>[1] = a /\ <<a, b>>[2] = b /\ Elements(<<a, b>>) = {a, b}
      BY DEF Elements
    <3>4. Ascending(<<p, q>>)
      <4>1. Before(p, q)
        BY <1>2, <2>1, <2>2 DEF Before, Rank
      <4>2. \A i, j \in 1..2 : i < j => i = 1 /\ j = 2
        OBVIOUS
      <4> QED
        BY <3>3, <4>1, <4>2 DEF Ascending
    <3>5. Bundle(<<p, q>>)
      <4>1. \A i \in 1..2 : i = 1 \/ i = 2
        OBVIOUS
      <4> QED
        BY <2>1, <2>2, <3>3, <4>1 DEF Bundle
    <3>6. AllBefore(Arriving, {p, q})
      <4>1. AllBefore(Arriving, {p}) /\ AllBefore(Arriving, {q})
        BY <1>2, <2>1, <2>2, AfterAll
      <4> QED
        BY <4>1 DEF AllBefore
    <3> QED
      BY <1>1, <3>1, <3>2, <3>3, <3>4, <3>5, <3>6, ValueSent
  <2>5. CountsFollow'
    <3> SUFFICES ASSUME state = "ESTABLISHED"
                 PROVE  /\ \A r \in Arriving' : Mine(r) /\ r.op = "BUTTON_EVENT" =>
                             \/ rxCounter > 1 /\ r.count = eventCount + 1
                             \/ \E s \in Arriving' : Counted(s) /\ s.sig[2] < r.sig[2] /\ r.count = s.count + 1
                        /\ \E r \in Arriving' : Counted(r) /\ r.count = bCount'
      BY <1>1 DEF CountsFollow
    <3>1. Counted(p) /\ Counted(q) /\ q.count = p.count + 1 /\ p.sig[2] < q.sig[2] /\ q.count = bCount'
      BY <1>2, <2>1, <2>2, <2>3 DEF Counted
    <3> QED
      BY <1>5, <2>1, <2>4, <3>1
  <2>6. Numbers'
    <3>1. CountersTrue' /\ Numbered(p)' /\ Numbered(q)'
      BY <1>2, <1>6, <1>7, <2>1, <2>2, <2>3
    <3>2. /\ bTx <= bTx' /\ p.sig[2] < bTx' /\ bTx <= p.sig[2]
          /\ q.sig[2] < bTx' /\ bTx <= q.sig[2]
      BY <1>2, <2>1, <2>2, <2>3
    <3>3. \A n \in bTx .. bTx' - 1 : p.sig[2] = n \/ q.sig[2] = n
      <4>1. \A a \in Nat : \A n \in a .. (a + 2) - 1 : a = n \/ a + 1 = n
        OBVIOUS
      <4> QED
        BY <1>2, <2>1, <2>2, <2>3, <4>1
    <3>4. {p, q} \in SUBSET Packets
      OBVIOUS
    <3> QED
      BY <1>1, <2>1, <2>2, <2>4, <2>5, <3>1, <3>2, <3>3, <3>4, NumbersSent
  <2>7. HonestInv'
    <3>1. {p, q} \in SUBSET Packets /\ bState' # "idle"
      BY <2>3
    <3> QED
      BY <1>8, <2>1, <2>2, <2>4, <3>1
  <2> QED
    BY <2>4, <2>6, <2>7
<1> QED
  BY <1>2, <1>9, <1>10, ButtonSpeaking

\* What the button refuses changes nothing on the way to the session.
LEMMA ButtonRefusesOrder ==
  ASSUME TypeOK, IInv, Lines, Numbers, HonestInv, NEW u, ButtonRefuses(u)
  PROVE  Lines' /\ Numbers' /\ HonestInv'
<1>1. /\ UNCHANGED <<setup, started, state, ready, failure, rxCounter, eventCount, pendingFragment,
                     packets, writing, current, downlink, broken, bState, bTx, bCount>>
      /\ ~Answered
  BY TakesLeaves DEF ButtonRefuses
<1>2. Lines' /\ Arriving' = Arriving
  BY <1>1, LinesKept
<1>3. Numbers'
  BY <1>1, <1>2, NumbersKept
<1>4. HonestInv'
  <2>1. OneByOne => OneByOne'
    BY <1>1, OneByOneKept
  <2> QED
    BY <1>1, <1>2, <2>1, HonestKept DEF HonestInv, HonestSession
<1> QED
  BY <1>2, <1>3, <1>4

-----------------------------------------------------------------------------
(* Every step *)

\* Whom the session is set up for never changes.
LEMMA SetupKept == TypeOK /\ IInv /\ [Next]_vars => setup' = setup
<1> USE DEF stateVars, authVars, eventVars, coroVars, linkVars, buttonVars, sessionVars
<1> SUFFICES ASSUME TypeOK, IInv, [Next]_vars PROVE setup' = setup
  OBVIOUS
<1>1. CASE UNCHANGED vars
  BY <1>1 DEF vars
<1>2. CASE CoroStep
  BY <1>2, HandlerKeeps DEF CoroStep, Start, WriteReturns, WriteRaises, Feed
<1>3. CASE ButtonStep
  BY <1>3 DEF ButtonStep, ButtonHolds, ButtonAnswers, ButtonAccepts, ButtonRefuses, Takes
<1>4. CASE ButtonSpeaks \/ StrayNotification \/ ConnectionLost
  BY <1>4 DEF ButtonSpeaks, StrayNotification, ConnectionLost
<1> QED
  BY <1>1, <1>2, <1>3, <1>4 DEF Next

\* Every step keeps the order and the numbers, if nobody else has the key.
LEMMA SecretStep ==
  ASSUME TypeOK, TypeOK', IInv, Lines, Numbers, HonestInv, KeySecret, [Next]_vars
  PROVE  Lines' /\ Numbers' /\ HonestInv'
<1>1. CASE UNCHANGED vars
  <2>1. /\ UNCHANGED <<setup, started, state, ready, failure, rxCounter, eventCount, pendingFragment,
                       packets, downlink, uplink, out, writing, current, broken, bState, bTx,
                       bCount, bPending>>
    BY <1>1 DEF vars, stateVars, authVars, eventVars, coroVars, linkVars, buttonVars
  <2>2. Lines' /\ Arriving' = Arriving
    BY <2>1, LinesKept
  <2>3. Numbers'
    BY <2>1, <2>2, NumbersKept
  <2>4. Answered => Answered'
    BY <2>1 DEF Answered, Quiet
  <2>5. OneByOne => OneByOne'
    BY <2>1, OneByOneKept
  <2> QED
    BY <2>1, <2>2, <2>3, <2>4, <2>5, HonestKept DEF HonestInv, HonestSession
<1>2. CASE CoroStep
  BY <1>2, StartOrder, WriteReturnsOrder, WriteRaisesOrder, FeedOrder, HandlePacketOrder DEF CoroStep
<1>3. CASE ButtonStep
  BY <1>3, ButtonHoldsOrder, ButtonAnswersOrder, ButtonAcceptsOrder, ButtonRefusesOrder
     DEF ButtonStep
<1>4. CASE ButtonSpeaks \/ StrayNotification \/ ConnectionLost
  BY <1>4, ButtonSpeaksOrder, StrayOrder, LostOrder
<1> QED
  BY <1>1, <1>2, <1>3, <1>4 DEF Next

\* Every step keeps both invariants.
LEMMA OrderStep == TypeOK /\ IInv /\ OrderInv /\ HonestInv /\ [Next]_vars => OrderInv' /\ HonestInv'
<1> SUFFICES ASSUME TypeOK, IInv, OrderInv, HonestInv, [Next]_vars PROVE OrderInv' /\ HonestInv'
  OBVIOUS
<1>1. setup' = setup
  BY SetupKept
<1>2. CASE KeySecret
  <2>1. TypeOK'
    BY TypeStep
  <2> QED
    BY <1>2, <2>1, SecretStep DEF OrderInv
<1>3. CASE ~KeySecret
  <2>1. ~KeySecret' /\ ~setup.honest
    BY <1>1, <1>3, HonestSecret DEF KeySecret
  <2> QED
    BY <1>1, <2>1 DEF OrderInv, HonestInv
<1> QED
  BY <1>2, <1>3

-----------------------------------------------------------------------------
(* The theorems *)

\* Whatever handlers are suspended and whoever else notifies, the packets of the
\* button are on their way in the order of their numbers and none is missing, if
\* nobody else signs with its key; and what reaches the session of an honest set-up
\* is what the code expects there.
THEOREM OrderHolds == Spec => []SessionInv
<1>1. Init => TypeOK /\ SessionInv
  BY TypeInit, SafeInit, OrderInit DEF SessionInv, OrderInv
<1>2. (TypeOK /\ SessionInv) /\ [Next]_vars => (TypeOK /\ SessionInv)'
  BY TypeStep, SafeStep, OrderStep DEF SessionInv
<1> QED
  BY <1>1, <1>2, PTL DEF Spec

\* Only the handling of a packet delivers events or stores a count.
LEMMA OthersDeliverNothing ==
  ASSUME TypeOK, [Next]_vars,
         ~ \E h \in Handlers : current = h /\ HandlePacket(h, Head(packets[h]))
  PROVE  UNCHANGED eventVars
<1> USE DEF sessionVars
<1>1. CASE UNCHANGED vars
  BY <1>1 DEF vars
<1>2. CASE CoroStep
  BY <1>2 DEF CoroStep, Start, WriteReturns, WriteRaises, Feed
<1>3. CASE ButtonStep
  BY <1>3 DEF ButtonStep, ButtonHolds, ButtonAnswers, ButtonAccepts, ButtonRefuses, Takes
<1>4. CASE ButtonSpeaks \/ StrayNotification \/ ConnectionLost
  BY <1>4 DEF ButtonSpeaks, StrayNotification, ConnectionLost
<1> QED
  BY <1>1, <1>2, <1>3, <1>4 DEF Next

\* The step from one delivery to the next.
EventStep ==
    /\ delivered' # delivered => delivered' = Append(delivered, eventCount + 1)
    /\ ready /\ failure = NoFailure /\ eventCount' # eventCount => delivered' # delivered

\* Every step delivers the next event or none.
LEMMA EventStepHolds ==
  ASSUME TypeOK, IInv, OrderInv, KeySecret, [Next]_vars
  PROVE  EventStep
<1>1. CASE ~ \E h \in Handlers : current = h /\ HandlePacket(h, Head(packets[h]))
  <2>1. UNCHANGED <<eventCount, delivered>>
    BY <1>1, OthersDeliverNothing DEF eventVars
  <2> QED
    BY <2>1 DEF EventStep
<1>2. CASE current \in Handlers /\ HandlePacket(current, Head(packets[current]))
  <2>1. Lines /\ Numbers /\ PacketsNumbered /\ CountersTrue
    BY DEF OrderInv, Numbers
  <2>2. PICK p \in Arriving : p = Head(packets[current])
    BY <1>2, HandlerKeeps, ArrivingHandled
  <2>3. Failing \/ Passing(p) \/ Offering(p) \/ Establishing(p) \/ Accepting(p)
    BY <1>2, <2>1, <2>2, HandlerKinds
  <2>4. CASE Failing \/ Passing(p) \/ Offering(p) \/ Establishing(p)
    BY <2>4 DEF Failing, Passing, Offering, Establishing, EventStep
  <2>5. CASE Accepting(p) /\ p.op = "BUTTON_EVENT"
    <3>1. p.count = eventCount + 1 /\ delivered' = Append(delivered, p.count)
      BY <2>1, <2>5, NextEvent DEF Accepting
    <3>2. delivered' # delivered
      <4>1. delivered \in Seq(Nat) /\ p.count \in Nat
        BY <3>1 DEF TypeOK
      <4>2. Len(delivered') = Len(delivered) + 1 /\ Len(delivered) \in Nat
        BY <3>1, <4>1
      <4> QED
        BY <4>2
    <3> QED
      BY <3>1, <3>2 DEF EventStep
  <2>6. CASE Accepting(p) /\ p.op = "INIT_RESPONSE"
    <3>1. delivered' = delivered /\ rxCounter = 1
      BY <2>1, <2>6 DEF Accepting, PacketsNumbered, Numbered
    <3>2. ~(ready /\ failure = NoFailure)
      BY <2>1, <3>1 DEF CountersTrue
    <3> QED
      BY <3>1, <3>2 DEF EventStep
  <2>7. CASE Accepting(p) /\ p.op \notin {"BUTTON_EVENT", "INIT_RESPONSE"}
    BY <2>7 DEF Accepting, EventStep
  <2> QED
    BY <2>3, <2>4, <2>5, <2>6, <2>7
<1> QED
  BY <1>1, <1>2

\* Each event is delivered exactly once and in the button's order, and in a session
\* that is ready the stored count moves with the delivery only, if nobody else
\* signs with the session's key.
THEOREM EventsOrdered == Spec /\ KeySecret => EventsInOrder
<1>1. TypeOK /\ SessionInv /\ KeySecret /\ [Next]_vars => [EventStep]_vars
  BY EventStepHolds DEF SessionInv
<1>2. TypeOK /\ SessionInv /\ KeySecret /\ [Next]_vars => KeySecret'
  BY SetupKept DEF KeySecret, SessionInv
<1>3. Spec => []TypeOK /\ []SessionInv
  BY TypeCorrect, OrderHolds, PTL
<1>4. Spec /\ KeySecret => []KeySecret
  BY <1>2, <1>3, PTL DEF Spec
<1>5. Spec /\ KeySecret => [][EventStep]_vars
  BY <1>1, <1>3, <1>4, PTL DEF Spec
<1> QED
  BY <1>5, PTL DEF EventsInOrder, EventStep

\* A session of an honest set-up whose notifications are handled one after the
\* other fails only because the button ends it or the link is lost.
THEOREM OnlyHonestFailures == Spec => []NoSpuriousFailure
<1>1. SessionInv => NoSpuriousFailure
  BY DEF SessionInv, HonestInv, HonestSession, NoSpuriousFailure
<1> QED
  BY <1>1, OrderHolds, PTL

\* What makes a session ready.
LEMMA ReadyStep ==
  ASSUME TypeOK, IInv, OrderInv, HonestInv, [Next]_vars, setup.honest, ~ready, ready'
  PROVE  failure' \notin Spurious
<1> USE DEF sessionVars, stateVars
<1>1. Lines /\ Numbers /\ AnswersTrue /\ OneByOne /\ FailuresTrue /\ failure = NoFailure
  BY HonestSecret DEF OrderInv, HonestInv, HonestSession, FailuresTrue
<1>2. NoFailure \notin Spurious /\ "BleakError" \notin Spurious
  BY DEF NoFailure, Spurious
<1>3. CASE current \in Handlers /\ HandlePacket(current, Head(packets[current]))
  <2>1. PICK p \in Arriving : p = Head(packets[current])
    BY <1>3, HandlerKeeps, ArrivingHandled
  <2> QED
    BY <1>1, <1>2, <1>3, <2>1, HonestFailure
<1>4. CASE \E h \in Coros : WriteRaises(h)
  BY <1>2, <1>4 DEF WriteRaises, Fail
<1>5. CASE UNCHANGED vars \/ Start \/ (\E h \in Coros : WriteReturns(h)) \/ (\E h \in Handlers : Feed(h))
  BY <1>5 DEF vars, Start, WriteReturns, Feed
<1>6. CASE ButtonStep
  BY <1>6 DEF ButtonStep, ButtonHolds, ButtonAnswers, ButtonAccepts, ButtonRefuses, Takes
<1>7. CASE ButtonSpeaks \/ StrayNotification \/ ConnectionLost
  BY <1>7 DEF ButtonSpeaks, StrayNotification, ConnectionLost
<1> QED
  BY <1>3, <1>4, <1>5, <1>6, <1>7 DEF Next, CoroStep

\* An honest button is never the reason why a session does not become ready, even
\* when the notifications are not handled one after the other.
THEOREM ReadyIsHonest == Spec => ReadyNotSpurious
<1>1. TypeOK /\ SessionInv /\ [Next]_vars
        => [setup.honest /\ ~ready /\ ready' => failure' \notin Spurious]_vars
  BY ReadyStep DEF SessionInv
<1> QED
  BY <1>1, TypeCorrect, OrderHolds, PTL DEF Spec, ReadyNotSpurious
=============================================================================
