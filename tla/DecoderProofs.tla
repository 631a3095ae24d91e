---------------------------- MODULE DecoderProofs -----------------------------
(***************************************************************************)
(* Proofs about the decoders of button events, for any swipes and gaps and *)
(* however the updates of one or two buttons are split into notifications: *)
(* each action becomes one event, an acknowledgement is asked for exactly  *)
(* at its end, and the counters of a Duo are rebuilt.                      *)
(***************************************************************************)
EXTENDS ProtocolFunctions, DataInduction

-----------------------------------------------------------------------------
(* What a user does with a button *)

\* The updates of a button.
Kinds == {"down", "up", "upSingle", "upSingleHeld", "upDouble", "upDoubleHeld",
          "timeout", "hold", "holdDouble"}

\* The updates that end an action.
Finals == {"upSingle", "upSingleHeld", "upDouble", "upDoubleHeld", "timeout"}

\* The events of an action, other than a swipe.
Clicks == {"single", "double", "hold"}

-----------------------------------------------------------------------------
(* A round Flic *)

\* NeedAck of one item.
Asks(e) == e % 4 = 2 \/ (Classic!Bit(e, 8) /\ Classic!Bit(e, 2))

\* What each code of an item means to the decoder.
LEMMA ClassicCodes ==
  /\ ~Asks(1) /\ ~Asks(0) /\ ~Asks(8) /\ ~Asks(3) /\ ~Asks(7)
  /\ Asks(10) /\ Asks(14) /\ Asks(11) /\ Asks(15) /\ Asks(2)
  /\ Classic!EventType(1) = <<>> /\ Classic!EventType(0) = <<>>
  /\ Classic!EventType(8) = <<>> /\ Classic!EventType(14) = <<>>
  /\ Classic!EventType(7) = <<>> /\ Classic!EventType(10) = <<"single">>
  /\ Classic!EventType(2) = <<"single">> /\ Classic!EventType(3) = <<"hold">>
  /\ Classic!EventType(11) = <<"double">> /\ Classic!EventType(15) = <<"double">>
<1> DEFINE B(e, w) == (e \div w) % 2 = 1
<1>1. /\ ~B(1, 8) /\ ~B(0, 8) /\ B(8, 8) /\ B(14, 8) /\ ~B(7, 8) /\ B(10, 8) /\ ~B(2, 8)
      /\ ~B(3, 8) /\ B(11, 8) /\ B(15, 8)
  OBVIOUS
<1>2. /\ ~B(8, 2) /\ B(14, 2) /\ B(10, 2) /\ B(11, 2) /\ B(15, 2)
      /\ B(11, 1) /\ B(15, 1) /\ ~B(14, 1) /\ ~B(10, 1) /\ B(14, 4) /\ ~B(10, 4)
  OBVIOUS
<1>3. /\ 1 % 4 = 1 /\ 0 % 4 = 0 /\ 2 % 4 = 2 /\ 3 % 4 = 3 /\ 7 % 4 = 3 /\ 8 % 4 = 0
      /\ 10 % 4 = 2 /\ 14 % 4 = 2 /\ 11 % 4 = 3 /\ 15 % 4 = 3
  OBVIOUS
<1>4. \A e, w : Classic!Bit(e, w) <=> B(e, w)
  BY DEF Classic!Bit
<1> HIDE DEF B
<1>5. /\ ~Asks(1) /\ ~Asks(0) /\ ~Asks(8) /\ ~Asks(3) /\ ~Asks(7)
      /\ Asks(10) /\ Asks(14) /\ Asks(11) /\ Asks(15) /\ Asks(2)
  BY <1>1, <1>2, <1>3, <1>4 DEF Asks
<1>6. /\ Classic!BaseType(1) = 1 /\ Classic!BaseType(0) = 0 /\ Classic!BaseType(7) = 3
      /\ Classic!BaseType(2) = 2 /\ Classic!BaseType(3) = 3
  BY <1>1, <1>3, <1>4 DEF Classic!BaseType
<1>7. /\ Classic!EventType(1) = <<>> /\ Classic!EventType(0) = <<>>
      /\ Classic!EventType(7) = <<>> /\ Classic!EventType(2) = <<"single">>
      /\ Classic!EventType(3) = <<"hold">>
  BY <1>1, <1>4, <1>6 DEF Classic!EventType
<1>8. /\ Classic!EventType(8) = <<>> /\ Classic!EventType(14) = <<>>
      /\ Classic!EventType(10) = <<"single">>
      /\ Classic!EventType(11) = <<"double">> /\ Classic!EventType(15) = <<"double">>
  BY <1>1, <1>2, <1>4 DEF Classic!EventType
<1> QED
  BY <1>5, <1>7, <1>8

\* The codes of an update.
LEMMA ClassicEncoded ==
  ASSUME NEW kind \in Kinds, NEW e \in Classic!Encoded[kind]
  PROVE  /\ kind = "down" => e = 1
         /\ kind = "up" => e \in {0, 8}
         /\ kind = "upSingle" => e = 10
         /\ kind = "upSingleHeld" => e = 14
         /\ kind = "upDouble" => e = 11
         /\ kind = "upDoubleHeld" => e = 15
         /\ kind = "timeout" => e = 2
         /\ kind = "hold" => e = 3
         /\ kind = "holdDouble" => e = 7
BY DEF Kinds, Classic!Encoded

\* The codes of an update ask for an acknowledgement if it ends an action.
LEMMA FinalsAsk ==
  ASSUME NEW kind \in Kinds, NEW e \in Classic!Encoded[kind]
  PROVE  Asks(e) <=> kind \in Finals
BY ClassicEncoded, ClassicCodes DEF Kinds, Finals

\* An action has updates, its last one is the one that ends it, and each is decoded
\* to what the user is owed for it.
LEMMA ClassicAction ==
  ASSUME NEW a \in Classic!Actions
  PROVE  /\ Len(a.updates) \in Nat \ {0}
         /\ \A i \in 1..Len(a.updates) :
               /\ a.updates[i] \in Kinds /\ (Classic!Ends(a, i) <=> a.updates[i] \in Finals)
               /\ \A e \in Classic!Encoded[a.updates[i]] :
                     Classic!EventType(e) = Classic!Owed(a, i, "none")
<1>1. Len(a.updates) \in Nat \ {0}
  <2>1. CASE a.updates = <<"down", "up", "timeout">>
    BY <2>1
  <2>2. CASE a.updates = <<"down", "upSingle">>
    BY <2>2
  <2>3. CASE a.updates = <<"down", "hold", "upSingleHeld">>
    BY <2>3
  <2>4. CASE a.updates = <<"down", "up", "down", "upDouble">>
    BY <2>4
  <2>5. CASE a.updates = <<"down", "up", "down", "holdDouble", "upDoubleHeld">>
    BY <2>5
  <2> QED
    BY <2>1, <2>2, <2>3, <2>4, <2>5 DEF Classic!Actions
<1>2. ASSUME NEW i \in 1..Len(a.updates)
      PROVE  a.updates[i] \in Kinds /\ (Classic!Ends(a, i) <=> a.updates[i] \in Finals)
  <2> USE DEF Classic!Ends, Kinds, Finals
  <2>1. CASE a.updates = <<"down", "up", "timeout">>
    BY <2>1
  <2>2. CASE a.updates = <<"down", "upSingle">>
    BY <2>2
  <2>3. CASE a.updates = <<"down", "hold", "upSingleHeld">>
    BY <2>3
  <2>4. CASE a.updates = <<"down", "up", "down", "upDouble">>
    BY <2>4
  <2>5. CASE a.updates = <<"down", "up", "down", "holdDouble", "upDoubleHeld">>
    BY <2>5
  <2> QED
    BY <2>1, <2>2, <2>3, <2>4, <2>5 DEF Classic!Actions
<1>3. ASSUME NEW i \in 1..Len(a.updates), NEW e \in Classic!Encoded[a.updates[i]]
      PROVE  Classic!EventType(e) = Classic!Owed(a, i, "none")
  <2>1. Classic!Owed(a, i, "none") = IF i = a.known THEN <<a.event>> ELSE <<>>
    BY DEF Classic!Owed
  <2>2. a.updates[i] \in Kinds
    BY <1>2
  <2> DEFINE k == a.updates[i]
  <2>3. \/ k \in {"down", "up", "upSingleHeld", "holdDouble"} /\ Classic!EventType(e) = <<>>
        \/ k \in {"timeout", "upSingle"} /\ Classic!EventType(e) = <<"single">>
        \/ k = "hold" /\ Classic!EventType(e) = <<"hold">>
        \/ k \in {"upDouble", "upDoubleHeld"} /\ Classic!EventType(e) = <<"double">>
    BY <2>2, ClassicEncoded, ClassicCodes DEF Kinds
  <2>4. CASE a.updates = <<"down", "up", "timeout">>
    <3>1. a.known = 3 /\ a.event = "single" /\ i \in 1..3
      BY <2>4 DEF Classic!Actions
    <3> QED
      BY <2>1, <2>3, <2>4, <3>1
  <2>5. CASE a.updates = <<"down", "upSingle">>
    <3>1. a.known = 2 /\ a.event = "single" /\ i \in 1..2
      BY <2>5 DEF Classic!Actions
    <3> QED
      BY <2>1, <2>3, <2>5, <3>1
  <2>6. CASE a.updates = <<"down", "hold", "upSingleHeld">>
    <3>1. a.known = 2 /\ a.event = "hold" /\ i \in 1..3
      BY <2>6 DEF Classic!Actions
    <3> QED
      BY <2>1, <2>3, <2>6, <3>1
  <2>7. CASE a.updates = <<"down", "up", "down", "upDouble">>
    <3>1. a.known = 4 /\ a.event = "double" /\ i \in 1..4
      BY <2>7 DEF Classic!Actions
    <3> QED
      BY <2>1, <2>3, <2>7, <3>1
  <2>8. CASE a.updates = <<"down", "up", "down", "holdDouble", "upDoubleHeld">>
    <3>1. a.known = 5 /\ a.event = "double" /\ i \in 1..5
      BY <2>8 DEF Classic!Actions
    <3> QED
      BY <2>1, <2>3, <2>8, <3>1
  <2> QED
    BY <2>4, <2>5, <2>6, <2>7, <2>8 DEF Classic!Actions
<1> QED
  BY <1>1, <1>2, <1>3

\* The items of a notification, the events they are decoded to, and what is owed
\* for them.
ClassicItems == [encoded : 0..15, queued : BOOLEAN, time : Nat]
ClassicReports == [type : Clicks, count : Nat, queued : BOOLEAN, time : Nat]
ClassicDebts == [type : Clicks, queued : BOOLEAN, time : Nat]

\* An item is decoded to one event or to none.
LEMMA EventTypes ==
  ASSUME NEW e \in 0..15
  PROVE  Classic!EventType(e) = <<>> \/ \E c \in Clicks : Classic!EventType(e) = <<c>>
BY DEF Classic!EventType, Clicks

\* The events of an item are those of a notification.
LEMMA ReportedTyped ==
  ASSUME NEW item \in ClassicItems, NEW final \in Nat
  PROVE  Classic!Reported(item, final) \in Seq(ClassicReports)
<1>1. item.encoded \in 0..15 /\ item.queued \in BOOLEAN /\ item.time \in Nat
  BY DEF ClassicItems
<1>2. CASE Classic!EventType(item.encoded) = <<>>
  <2>1. Classic!Reported(item, final) = <<>>
    BY <1>2 DEF Classic!Reported
  <2> QED
    BY <2>1
<1>3. ASSUME NEW c \in Clicks, Classic!EventType(item.encoded) = <<c>>
      PROVE  Classic!Reported(item, final) \in Seq(ClassicReports)
  <2> DEFINE x == [type |-> c, count |-> final, queued |-> item.queued, time |-> item.time]
  <2>1. x \in ClassicReports
    BY <1>1 DEF ClassicReports
  <2>2. Classic!Reported(item, final) = <<x>>
    BY <1>3 DEF Classic!Reported
  <2> HIDE DEF x
  <2> QED
    BY <2>1, <2>2
<1> QED
  BY <1>1, <1>2, <1>3, EventTypes

\* The loop of decode_button_events.
ClassicTurns(q, final, f) ==
    f = [n \in 0..Len(q) |->
           IF n = 0 THEN <<>> ELSE f[n - 1] \o Classic!Reported(q[n], final)]

\* The loop ends with the events of the notification.
LEMMA ClassicLoop ==
  ASSUME NEW q \in Seq(ClassicItems), NEW final \in Nat
  PROVE  \E f : /\ f \in [0..Len(q) -> Seq(ClassicReports)]
                /\ f[0] = <<>>
                /\ \A i \in 1..Len(q) : f[i] = f[i - 1] \o Classic!Reported(q[i], final)
                /\ Classic!Decode(q, final) = f[Len(q)]
<1>1. Len(q) \in Nat /\ \A i \in 1..Len(q) : q[i] \in ClassicItems
  BY LenProperties, ElementOfSeq
<1> DEFINE V == Seq(ClassicReports)
           step == [i \in 1..Len(q) |-> [s \in V |-> s \o Classic!Reported(q[i], final)]]
<1>2. step \in [1..Len(q) -> [V -> V]]
  <2>1. ASSUME NEW i \in 1..Len(q), NEW s \in V
        PROVE  s \o Classic!Reported(q[i], final) \in V
    BY <1>1, ReportedTyped, ConcatProperties
  <2> QED
    BY <2>1
<1>3. <<>> \in V
  OBVIOUS
<1>4. \A i \in 1..Len(q), s \in V : step[i][s] = s \o Classic!Reported(q[i], final)
  OBVIOUS
<1> HIDE DEF V, step
<1>5. PICK f : IsFold(f, Len(q), V, <<>>, step)
  BY <1>1, <1>2, <1>3, FoldExists
<1>6. ASSUME NEW i \in 1..Len(q) PROVE f[i] = f[i - 1] \o Classic!Reported(q[i], final)
  <2>1. i - 1 \in 0..Len(q)
    BY <1>1
  <2>2. f[i - 1] \in V /\ f[i] = step[i][f[i - 1]]
    BY <1>5, <2>1 DEF IsFold
  <2> QED
    BY <1>4, <2>2
<1>7. ClassicTurns(q, final, f)
  <2>1. f \in [0..Len(q) -> V] /\ f[0] = <<>>
    BY <1>5 DEF IsFold
  <2>2. ASSUME NEW n \in 0..Len(q)
        PROVE  f[n] = IF n = 0 THEN <<>> ELSE f[n - 1] \o Classic!Reported(q[n], final)
    <3>1. n # 0 => n \in 1..Len(q)
      BY <1>1
    <3> QED
      BY <1>6, <2>1, <3>1
  <2> QED
    BY <2>1, <2>2 DEF ClassicTurns
<1> DEFINE g == CHOOSE g : ClassicTurns(q, final, g)
<1>8. ClassicTurns(q, final, g)
  BY <1>7
<1>9. Classic!Decode(q, final) = g[Len(q)]
  BY DEF Classic!Decode, ClassicTurns
<1> HIDE DEF g
<1>10. \A i \in 0..Len(q) : f[i] = g[i]
  <2>1. \A n \in 0..Len(q) : g[n] = IF n = 0 THEN <<>> ELSE g[n - 1] \o Classic!Reported(q[n], final)
    BY <1>8 DEF ClassicTurns
  <2>2. f[0] = <<>> /\ g[0] = <<>>
    BY <1>1, <1>5, <2>1 DEF IsFold
  <2>3. ASSUME NEW i \in 1..Len(q), f[i - 1] = g[i - 1] PROVE f[i] = g[i]
    <3>1. i \in 0..Len(q) /\ i # 0
      BY <1>1
    <3> QED
      BY <1>6, <2>1, <2>3, <3>1
  <2>4. Len(q) \in Nat /\ SameSteps(f, g, Len(q))
    BY <1>1, <2>2, <2>3 DEF SameSteps
  <2> QED
    BY <2>4, FoldUnique
<1>11. Classic!Decode(q, final) = f[Len(q)]
  BY <1>1, <1>9, <1>10
<1> QED
  BY <1>5, <1>6, <1>11 DEF IsFold, V

\* A notification is decoded item by item.
LEMMA ClassicDecodeAppended ==
  ASSUME NEW q \in Seq(ClassicItems), NEW x \in ClassicItems, NEW final \in Nat
  PROVE  /\ Classic!Decode(q, final) \in Seq(ClassicReports)
         /\ Classic!Decode(<<>>, final) = <<>>
         /\ Classic!Decode(Append(q, x), final)
              = Classic!Decode(q, final) \o Classic!Reported(x, final)
<1> DEFINE r == Append(q, x)
           n == Len(q)
<1>1. /\ n \in Nat /\ r \in Seq(ClassicItems) /\ Len(r) = n + 1 /\ r[n + 1] = x
      /\ \A i \in 1..n : r[i] = q[i]
  BY LenProperties, AppendProperties
<1>2. <<>> \in Seq(ClassicItems) /\ Len(<<>>) = 0
  OBVIOUS
<1> HIDE DEF r, n
<1>3. Classic!Decode(<<>>, final) = <<>>
  BY <1>2, ClassicLoop
<1>4. PICK f : /\ f \in [0..n -> Seq(ClassicReports)]
               /\ f[0] = <<>>
               /\ \A i \in 1..n : f[i] = f[i - 1] \o Classic!Reported(q[i], final)
               /\ Classic!Decode(q, final) = f[n]
  BY ClassicLoop DEF n
<1>5. PICK g : /\ g \in [0..Len(r) -> Seq(ClassicReports)]
               /\ g[0] = <<>>
               /\ \A i \in 1..Len(r) : g[i] = g[i - 1] \o Classic!Reported(r[i], final)
               /\ Classic!Decode(r, final) = g[Len(r)]
  BY <1>1, ClassicLoop
<1>6. \A i \in 0..n : f[i] = g[i]
  <2>1. ASSUME NEW i \in 1..n, f[i - 1] = g[i - 1] PROVE f[i] = g[i]
    <3>1. i \in 1..n + 1
      BY <1>1
    <3> QED
      BY <1>1, <1>4, <1>5, <2>1, <3>1
  <2>2. n \in Nat /\ SameSteps(f, g, n)
    BY <1>1, <1>4, <1>5, <2>1 DEF SameSteps
  <2> QED
    BY <2>2, FoldUnique
<1>7. g[n + 1] = g[n] \o Classic!Reported(x, final)
  <2>1. n + 1 \in 1..n + 1 /\ (n + 1) - 1 = n
    BY <1>1
  <2> QED
    BY <1>1, <1>5, <2>1
<1>8. n \in 0..n
  BY <1>1
<1>9. Classic!Decode(r, final) = Classic!Decode(q, final) \o Classic!Reported(x, final)
  BY <1>1, <1>4, <1>5, <1>6, <1>7, <1>8
<1>10. Classic!Decode(q, final) \in Seq(ClassicReports)
  BY <1>4, <1>8
<1> QED
  BY <1>3, <1>9, <1>10 DEF r

\* What is owed, with the final count of the notification.
ClassicStamp(os, final) ==
    [i \in DOMAIN os |->
        [type |-> os[i].type, count |-> final, queued |-> os[i].queued, time |-> os[i].time]]

\* Stamps are put on the events one by one.
LEMMA StampAppended ==
  ASSUME NEW os \in Seq(ClassicDebts), NEW ps \in Seq(ClassicDebts), NEW final \in Nat
  PROVE  ClassicStamp(os \o ps, final) = ClassicStamp(os, final) \o ClassicStamp(ps, final)
<1> DEFINE R == ClassicReports
           a == ClassicStamp(os, final)
           b == ClassicStamp(ps, final)
           c == ClassicStamp(os \o ps, final)
<1>1. \A qs \in Seq(ClassicDebts) : \A i \in 1..Len(qs) :
         [type |-> qs[i].type, count |-> final, queued |-> qs[i].queued, time |-> qs[i].time] \in R
  <2> SUFFICES ASSUME NEW qs \in Seq(ClassicDebts), NEW i \in 1..Len(qs)
               PROVE  [type |-> qs[i].type, count |-> final, queued |-> qs[i].queued,
                       time |-> qs[i].time] \in R
    OBVIOUS
  <2>1. qs[i] \in ClassicDebts
    BY ElementOfSeq
  <2> QED
    BY <2>1 DEF ClassicDebts, ClassicReports
<1>2. os \o ps \in Seq(ClassicDebts) /\ Len(os \o ps) = Len(os) + Len(ps)
      /\ Len(os) \in Nat /\ Len(ps) \in Nat
      /\ \A i \in 1..Len(os) + Len(ps) :
            (os \o ps)[i] = IF i <= Len(os) THEN os[i] ELSE ps[i - Len(os)]
  BY ConcatProperties, LenProperties
<1>3. \A qs \in Seq(ClassicDebts) : ClassicStamp(qs, final) \in Seq(R)
                                    /\ Len(ClassicStamp(qs, final)) = Len(qs)
  <2> SUFFICES ASSUME NEW qs \in Seq(ClassicDebts)
               PROVE  ClassicStamp(qs, final) \in Seq(R)
                      /\ Len(ClassicStamp(qs, final)) = Len(qs)
    OBVIOUS
  <2>1. Len(qs) \in Nat /\ DOMAIN qs = 1..Len(qs)
    BY LenProperties
  <2>2. ClassicStamp(qs, final) \in [1..Len(qs) -> R]
    BY <1>1, <2>1 DEF ClassicStamp
  <2> QED
    BY <2>1, <2>2
<1>4. a \in Seq(R) /\ b \in Seq(R) /\ c \in Seq(R) /\ Len(a) = Len(os) /\ Len(b) = Len(ps)
      /\ Len(c) = Len(os) + Len(ps)
  BY <1>2, <1>3
<1>5. a \o b \in Seq(R) /\ Len(a \o b) = Len(os) + Len(ps)
      /\ \A i \in 1..Len(os) + Len(ps) :
            (a \o b)[i] = IF i <= Len(os) THEN a[i] ELSE b[i - Len(os)]
  <2> HIDE DEF a, b, c, R
  <2>1. a \in Seq(R) /\ b \in Seq(R)
    BY <1>4
  <2>2. /\ a \o b \in Seq(R)
        /\ Len(a \o b) = Len(a) + Len(b)
        /\ \A i \in 1..Len(a) + Len(b) :
              (a \o b)[i] = IF i <= Len(a) THEN a[i] ELSE b[i - Len(a)]
    BY <2>1, ConcatProperties, Zenon
  <2> QED
    BY <1>4, <2>2
<1>6. ASSUME NEW i \in 1..Len(os) + Len(ps) PROVE c[i] = (a \o b)[i]
  <2>1. CASE i <= Len(os)
    <3>1. i \in 1..Len(os)
      BY <1>2, <2>1
    <3>2. (os \o ps)[i] = os[i] /\ (a \o b)[i] = a[i]
      BY <1>2, <1>5, <2>1
    <3>3. DOMAIN os = 1..Len(os) /\ DOMAIN (os \o ps) = 1..Len(os) + Len(ps)
      BY <1>2, LenProperties
    <3> QED
      BY <3>1, <3>2, <3>3 DEF ClassicStamp
  <2>2. CASE ~ (i <= Len(os))
    <3>1. i - Len(os) \in 1..Len(ps)
      BY <1>2, <2>2
    <3>2. (os \o ps)[i] = ps[i - Len(os)] /\ (a \o b)[i] = b[i - Len(os)]
      BY <1>2, <1>5, <2>2
    <3>3. DOMAIN ps = 1..Len(ps) /\ DOMAIN (os \o ps) = 1..Len(os) + Len(ps)
      BY <1>2, LenProperties
    <3> QED
      BY <3>1, <3>2, <3>3 DEF ClassicStamp
  <2> QED
    BY <2>1, <2>2
<1> HIDE DEF a, b, c
<1>7. c = a \o b
  BY <1>4, <1>5, <1>6, SeqEqual
<1> QED
  BY <1>7 DEF a, b, c

\* NeedAck looks at the items one by one.
LEMMA NeedAckAppended ==
  ASSUME NEW q \in Seq(ClassicItems), NEW x \in ClassicItems
  PROVE  Classic!NeedAck(Append(q, x)) <=> Classic!NeedAck(q) \/ Asks(x.encoded)
<1>1. /\ DOMAIN q = 1..Len(q) /\ Len(q) \in Nat
      /\ DOMAIN Append(q, x) = 1..Len(q) + 1
      /\ \A i \in 1..Len(q) : Append(q, x)[i] = q[i]
      /\ Append(q, x)[Len(q) + 1] = x
  BY LenProperties, AppendProperties
<1>2. \A i \in 1..Len(q) + 1 : i \in 1..Len(q) \/ i = Len(q) + 1
  BY <1>1
<1>3. Len(q) + 1 \in 1..Len(q) + 1 /\ \A i \in 1..Len(q) : i \in 1..Len(q) + 1
  BY <1>1
<1> QED
  BY <1>1, <1>2, <1>3 DEF Classic!NeedAck, Asks

\* An action in progress, before its update next.
ClassicDoings == [action : Classic!Actions, next : Nat]
ClassicGoing(d) == d \in ClassicDoings /\ d.next \in 1..Len(d.action.updates)

\* The notification being filled is decoded to what is owed for it, whatever final
\* count it will be sent with, and asks for an acknowledgement if it ends an action.
ClassicInv ==
    /\ doing = Classic!Idle \/ ClassicGoing(doing)
    /\ note \in Seq(ClassicItems) /\ count \in Nat
    /\ owed \in Seq(ClassicDebts)
    /\ \A final \in Nat : Classic!Decode(note, final) = ClassicStamp(owed, final)
    /\ owedAck \in BOOLEAN /\ (owedAck <=> Classic!NeedAck(note))
    /\ Classic!OneEventPerAction /\ Classic!AckEndsAction

\* An update that is added to the notification.
LEMMA ClassicUpdated ==
  ASSUME ClassicInv, NEW d \in Classic!Continuations, NEW e \in 0..15, NEW queued \in BOOLEAN,
         Classic!Update(d, e, queued)
  PROVE  ClassicInv'
<1> DEFINE kind == d.action.updates[d.next]
           item == [encoded |-> e, queued |-> queued, time |-> count]
           types == Classic!Owed(d.action, d.next, "none")
           debts == [i \in DOMAIN types |-> [type |-> types[i], queued |-> queued, time |-> count]]
<1>1. /\ count' = count + 1 /\ e \in Classic!Encoded[kind]
      /\ note' = Append(note, item)
      /\ owed' = owed \o debts
      /\ owedAck' = (owedAck \/ Classic!Ends(d.action, d.next))
      /\ doing' = IF Classic!Ends(d.action, d.next) THEN Classic!Idle
                  ELSE [d EXCEPT !.next = @ + 1]
      /\ result' = Classic!NoResult /\ expected' = Classic!NoResult
  BY DEF Classic!Update
<1>2. ClassicGoing(d)
  <2>1. CASE doing = Classic!Idle
    <3>1. PICK a \in Classic!Actions : d = [action |-> a, next |-> 1]
      BY <2>1 DEF Classic!Continuations
    <3>2. Len(a.updates) \in Nat \ {0}
      BY ClassicAction
    <3>3. d.action = a /\ d.next = 1 /\ d \in ClassicDoings
      BY <3>1 DEF ClassicDoings
    <3>4. 1 \in 1..Len(a.updates)
      BY <3>2
    <3> QED
      BY <3>3, <3>4 DEF ClassicGoing
  <2>2. CASE doing # Classic!Idle
    BY <2>2 DEF Classic!Continuations, ClassicInv
  <2> QED
    BY <2>1, <2>2
<1>3. /\ kind \in Kinds /\ (Classic!Ends(d.action, d.next) <=> kind \in Finals)
      /\ Classic!EventType(e) = types
  BY <1>1, <1>2, ClassicAction DEF ClassicGoing, ClassicDoings
<1>4. Asks(e) <=> Classic!Ends(d.action, d.next)
  BY <1>1, <1>3, FinalsAsk
<1>5. item \in ClassicItems /\ item.encoded = e /\ item.queued = queued /\ item.time = count
  BY DEF ClassicItems, ClassicInv
<1> HIDE DEF item, kind
<1>6. note' \in Seq(ClassicItems) /\ count' \in Nat
  BY <1>1, <1>5, AppendProperties DEF ClassicInv
<1>7. Classic!NeedAck(note') <=> owedAck \/ Classic!Ends(d.action, d.next)
  BY <1>1, <1>4, <1>5, NeedAckAppended DEF ClassicInv
<1>8. doing' = Classic!Idle \/ ClassicGoing(doing')
  <2>1. CASE ~Classic!Ends(d.action, d.next)
    <3>1. doing' = [d EXCEPT !.next = @ + 1] /\ d \in ClassicDoings
      BY <1>1, <1>2, <2>1 DEF ClassicGoing
    <3>2. doing'.action = d.action /\ doing'.next = d.next + 1 /\ doing' \in ClassicDoings
      BY <3>1 DEF ClassicDoings
    <3>3. d.next # Len(d.action.updates) /\ Len(d.action.updates) \in Nat
      BY <2>1, <3>1, ClassicAction DEF Classic!Ends, ClassicDoings
    <3> QED
      BY <1>2, <3>2, <3>3 DEF ClassicGoing, ClassicDoings
  <2> QED
    BY <1>1, <2>1
<1>9. Classic!AckEndsAction' /\ Classic!OneEventPerAction'
  BY <1>1 DEF Classic!AckEndsAction, Classic!OneEventPerAction
<1>10. owedAck' \in BOOLEAN /\ (owedAck' <=> owedAck \/ Classic!Ends(d.action, d.next))
  BY <1>1 DEF Classic!Ends
<1>11. /\ debts \in Seq(ClassicDebts)
       /\ \A final \in Nat : Classic!Reported(item, final) = ClassicStamp(debts, final)
  <2>1. types = <<>> \/ \E c \in Clicks : types = <<c>>
    BY <1>3, EventTypes
  <2> HIDE DEF types
  <2>2. CASE types = <<>>
    <3>1. debts = <<>>
      BY <2>2
    <3>2. \A final \in Nat : Classic!Reported(item, final) = <<>>
      BY <1>3, <1>5, <2>2 DEF Classic!Reported
    <3>3. \A final \in Nat : ClassicStamp(<<>>, final) = <<>>
      BY DEF ClassicStamp
    <3> HIDE DEF debts
    <3> QED
      BY <3>1, <3>2, <3>3
  <2>3. ASSUME NEW c \in Clicks, types = <<c>>
        PROVE  /\ debts \in Seq(ClassicDebts)
               /\ \A final \in Nat : Classic!Reported(item, final) = ClassicStamp(debts, final)
    <3> DEFINE x == [type |-> c, queued |-> queued, time |-> count]
    <3>1. x \in ClassicDebts
      BY DEF ClassicDebts, ClassicInv
    <3>2. debts = <<x>>
      BY <2>3
    <3>3. ASSUME NEW final \in Nat
          PROVE  Classic!Reported(item, final) = ClassicStamp(debts, final)
      <4> DEFINE y == [type |-> c, count |-> final, queued |-> queued, time |-> count]
      <4>1. Classic!Reported(item, final) = <<y>>
        BY <1>3, <1>5, <2>3 DEF Classic!Reported
      <4>2. ClassicStamp(debts, final) = <<y>>
        BY <3>2 DEF ClassicStamp
      <4> QED
        BY <4>1, <4>2
    <3> HIDE DEF x
    <3>4. debts \in Seq(ClassicDebts)
      BY <3>1, <3>2
    <3> QED
      BY <3>3, <3>4
  <2> QED
    BY <2>1, <2>2, <2>3
<1> HIDE DEF debts
<1>12. owed' \in Seq(ClassicDebts)
  BY <1>1, <1>11, ConcatProperties DEF ClassicInv
<1>13. ASSUME NEW final \in Nat
       PROVE  Classic!Decode(note', final) = ClassicStamp(owed', final)
  <2>1. Classic!Decode(note, final) = ClassicStamp(owed, final)
    BY DEF ClassicInv
  <2>2. Classic!Decode(note', final) = Classic!Decode(note, final) \o Classic!Reported(item, final)
    BY <1>1, <1>5, ClassicDecodeAppended DEF ClassicInv
  <2>3. ClassicStamp(owed', final) = ClassicStamp(owed, final) \o ClassicStamp(debts, final)
    BY <1>1, <1>11, StampAppended DEF ClassicInv
  <2> QED
    BY <1>11, <2>1, <2>2, <2>3
<1> QED
  BY <1>6, <1>7, <1>8, <1>9, <1>10, <1>12, <1>13 DEF ClassicInv

\* A notification that arrives.
LEMMA ClassicNotified ==
  ASSUME ClassicInv, Classic!Notify
  PROVE  ClassicInv'
<1>1. /\ note' = <<>> /\ owed' = <<>> /\ owedAck' = FALSE /\ UNCHANGED <<doing, count>>
      /\ result'.needsAck = Classic!NeedAck(note) /\ expected'.needsAck = owedAck
      /\ result'.events = Classic!Decode(note, count)
      /\ expected'.events = ClassicStamp(owed, count)
  BY DEF Classic!Notify, ClassicStamp
<1>2. note' \in Seq(ClassicItems) /\ ~Classic!NeedAck(note') /\ owed' \in Seq(ClassicDebts)
  BY <1>1 DEF Classic!NeedAck
<1>3. Classic!NeedAck(note) = owedAck
  BY DEF ClassicInv, Classic!NeedAck
<1>4. \A final \in Nat : Classic!Decode(note', final) = ClassicStamp(owed', final)
  <2>1. \A final \in Nat : Classic!Decode(<<>>, final) = <<>>
    <3> SUFFICES ASSUME NEW final \in Nat PROVE Classic!Decode(<<>>, final) = <<>>
      OBVIOUS
    <3> DEFINE x == [encoded |-> 0, queued |-> TRUE, time |-> 0]
    <3>1. x \in ClassicItems
      BY DEF ClassicItems
    <3>2. <<>> \in Seq(ClassicItems)
      OBVIOUS
    <3> HIDE DEF x
    <3> QED
      BY <3>1, <3>2, ClassicDecodeAppended
  <2>2. \A final \in Nat : ClassicStamp(<<>>, final) = <<>>
    BY DEF ClassicStamp
  <2> QED
    BY <1>1, <2>1, <2>2
<1>5. Classic!AckEndsAction' /\ Classic!OneEventPerAction'
  BY <1>1, <1>3 DEF ClassicInv, Classic!AckEndsAction, Classic!OneEventPerAction
<1> QED
  BY <1>1, <1>2, <1>4, <1>5 DEF ClassicInv

\* A round Flic at rest.
LEMMA ClassicStarts ==
  ASSUME Classic!Init
  PROVE  ClassicInv
<1>1. note = <<>> /\ owed = <<>> /\ owedAck = FALSE /\ count = 0 /\ doing = Classic!Idle
      /\ result = expected
  BY DEF Classic!Init
<1>2. note \in Seq(ClassicItems) /\ ~Classic!NeedAck(note) /\ owed \in Seq(ClassicDebts)
  BY <1>1 DEF Classic!NeedAck
<1>3. ASSUME NEW final \in Nat PROVE Classic!Decode(<<>>, final) = <<>>
  <2> DEFINE x == [encoded |-> 0, queued |-> TRUE, time |-> 0]
  <2>1. x \in ClassicItems
    BY DEF ClassicItems
  <2>2. <<>> \in Seq(ClassicItems)
    OBVIOUS
  <2> HIDE DEF x
  <2> QED
    BY <2>1, <2>2, ClassicDecodeAppended
<1>4. \A final \in Nat : ClassicStamp(<<>>, final) = <<>>
  BY DEF ClassicStamp
<1> QED
  BY <1>1, <1>2, <1>3, <1>4 DEF ClassicInv, Classic!AckEndsAction, Classic!OneEventPerAction

\* Every step of a round Flic keeps the invariant.
LEMMA ClassicSteps ==
  ASSUME ClassicInv, Classic!Next \/ UNCHANGED Classic!vars
  PROVE  ClassicInv'
<1>1. ASSUME NEW d \in Classic!Continuations, NEW e \in 0..15, NEW queued \in BOOLEAN,
             Classic!Update(d, e, queued)
      PROVE  ClassicInv'
  BY <1>1, ClassicUpdated
<1>2. CASE Classic!Notify
  BY <1>2, ClassicNotified
<1>3. CASE UNCHANGED Classic!vars
  BY <1>3 DEF Classic!vars, ClassicInv, Classic!AckEndsAction, Classic!OneEventPerAction
<1> QED
  BY <1>1, <1>2, <1>3 DEF Classic!Next

-----------------------------------------------------------------------------
(* A Duo *)

\* What the bits of an update say.
DuoUpdates ==
    [button : Duo!Buttons, hasDelta : BOOLEAN, delta : Nat, timeDelta : Nat, code : 0..7,
     extra : BOOLEAN, gesture : Duo!Gestures,
     queueBits : {<<>>, <<0>>, <<1, 0>>, <<1, 1>>}]

\* The events of the Duo, and what the loop keeps from turn to turn.
DuoReports ==
    [type : Clicks \cup Swipes, button : Duo!Buttons, count : Nat, queued : BOOLEAN,
     time : Nat]
DuoAccs ==
    [counts : [Duo!Buttons -> Nat], got : SUBSET Duo!Buttons, time : Nat,
     endOfQueue : BOOLEAN, events : Seq(DuoReports), needsAck : BOOLEAN, position : Nat,
     size : Nat, truncated : BOOLEAN]

\* An update takes at least 39 bits: what is left of a payload before the last update
\* of a notification is never mistaken for padding.
LEMMA UpdateBits ==
  ASSUME NEW u \in DuoUpdates
  PROVE  Duo!Bits(u) \in Nat /\ Duo!Bits(u) >= 39
<1>1. \A d \in Nat : Duo!DeltaBits(d) \in Nat
  BY DEF Duo!DeltaBits
<1>2. \A g : Duo!GestureBits(g) \in Nat
  BY DEF Duo!GestureBits
<1>3. u.delta \in Nat /\ Len(u.queueBits) \in Nat
  BY DEF DuoUpdates
<1> DEFINE a == IF u.hasDelta THEN Duo!DeltaBits(u.delta) ELSE 0
           b == Len(u.queueBits)
           c == IF u.code \in {4, 7} THEN 1 ELSE 0
           d == IF u.code \in 0..4 \cup {6} THEN Duo!GestureBits(u.gesture) ELSE 0
<1>4. a \in Nat /\ b \in Nat /\ c \in Nat /\ d \in Nat
  BY <1>1, <1>2, <1>3
<1>5. Duo!Bits(u) = 1 + a + 3 + 8 + b + 3 + c + d + 24
  BY DEF Duo!Bits
<1> HIDE DEF a, b, c, d
<1> QED
  BY <1>4, <1>5

\* The clicks and swipes of each kind of update.
LEMMA DuoKinds ==
  ASSUME NEW kind \in Kinds, NEW u \in DuoUpdates, u.code = Duo!Code[kind],
         u.extra = (kind \in {"holdDouble", "upDoubleHeld"})
  PROVE  /\ Duo!AsksAck(u) <=> kind \in Finals
         /\ Duo!Click(u) =
              IF kind = "hold" THEN <<"hold">>
              ELSE IF u.gesture \in Swipes THEN <<>>
              ELSE IF kind \in {"upSingle", "timeout"} THEN <<"single">>
              ELSE IF kind \in {"upDouble", "upDoubleHeld"} THEN <<"double">> ELSE <<>>
         /\ Duo!Swipe(u) =
              IF /\ kind \in {"up", "upSingle", "upSingleHeld", "upDouble", "upDoubleHeld"}
                 /\ u.gesture \in Swipes
                THEN <<u.gesture>> ELSE <<>>
<1> USE DEF Kinds, Finals
<1>0. /\ Duo!Code["down"] = 5 /\ Duo!Code["up"] = 0 /\ Duo!Code["upSingle"] = 1
      /\ Duo!Code["upSingleHeld"] = 2 /\ Duo!Code["upDouble"] = 3
      /\ Duo!Code["upDoubleHeld"] = 4 /\ Duo!Code["timeout"] = 6 /\ Duo!Code["hold"] = 7
      /\ Duo!Code["holdDouble"] = 7
  BY DEF Duo!Code
<1>1. /\ kind = "down" => u.code = 5
      /\ kind = "up" => u.code = 0
      /\ kind = "upSingle" => u.code = 1
      /\ kind = "upSingleHeld" => u.code = 2
      /\ kind = "upDouble" => u.code = 3
      /\ kind = "upDoubleHeld" => u.code = 4
      /\ kind = "timeout" => u.code = 6
      /\ kind = "hold" => u.code = 7 /\ ~u.extra
      /\ kind = "holdDouble" => u.code = 7 /\ u.extra
  BY <1>0
<1>2. Duo!AsksAck(u) <=> kind \in Finals
  BY <1>1 DEF Duo!AsksAck
<1>3. CASE u.gesture \in Swipes
  BY <1>1, <1>2, <1>3 DEF Duo!Click, Duo!Swipe
<1>4. CASE u.gesture \notin Swipes
  BY <1>1, <1>2, <1>4 DEF Duo!Click, Duo!Swipe
<1> QED
  BY <1>3, <1>4

\* A sequence of at most one element.
LEMMA AtMostOne ==
  ASSUME NEW X, NEW s, s = <<>> \/ \E t \in X : s = <<t>>
  PROVE  s \in Seq(X)
<1>1. <<>> \in Seq(X) /\ \A t \in X : <<t>> \in Seq(X)
  OBVIOUS
<1> QED
  BY <1>1

\* The updates of an action: each is decoded to what the user is owed for it.
LEMMA DuoAction ==
  ASSUME NEW a \in Duo!Actions, NEW g \in Duo!Gestures, NEW i \in 1..Len(a.updates),
         NEW u \in DuoUpdates, u.code = Duo!Code[a.updates[i]],
         u.extra = (a.updates[i] \in {"holdDouble", "upDoubleHeld"}),
         u.gesture = IF i >= a.release THEN g ELSE "none"
  PROVE  /\ Duo!AsksAck(u) <=> Duo!Ends(a, i)
         /\ Duo!Click(u) \o Duo!Swipe(u) = Duo!Owed(a, i, g)
         /\ \/ Duo!Owed(a, i, g) = <<>>
            \/ \E t \in Clicks \cup Swipes : Duo!Owed(a, i, g) = <<t>>
<1> DEFINE kind == a.updates[i]
           clicks == IF kind = "hold" THEN <<"hold">>
                     ELSE IF u.gesture \in Swipes THEN <<>>
                     ELSE IF kind \in {"upSingle", "timeout"} THEN <<"single">>
                     ELSE IF kind \in {"upDouble", "upDoubleHeld"} THEN <<"double">> ELSE <<>>
           swipes == IF /\ kind \in {"up", "upSingle", "upSingleHeld", "upDouble", "upDoubleHeld"}
                        /\ u.gesture \in Swipes
                       THEN <<u.gesture>> ELSE <<>>
<1>1. "none" \notin Swipes
  BY Parameters
<1>2. /\ kind \in Kinds /\ (Duo!Ends(a, i) <=> kind \in Finals)
      /\ swipes = <<>> \/ clicks = <<>>
      /\ (IF swipes # <<>> THEN swipes ELSE clicks) = Duo!Owed(a, i, g)
  <2> USE DEF Duo!Ends, Kinds, Finals, Duo!Owed
  <2>1. CASE a.updates = <<"down", "up", "timeout">>
    <3>1. a.known = 3 /\ a.event = "single" /\ a.release = 2 /\ i \in 1..3
      BY <2>1 DEF Duo!Actions
    <3> QED
      BY <1>1, <2>1, <3>1
  <2>2. CASE a.updates = <<"down", "upSingle">>
    <3>1. a.known = 2 /\ a.event = "single" /\ a.release = 2 /\ i \in 1..2
      BY <2>2 DEF Duo!Actions
    <3> QED
      BY <1>1, <2>2, <3>1
  <2>3. CASE a.updates = <<"down", "hold", "upSingleHeld">>
    <3>1. a.known = 2 /\ a.event = "hold" /\ a.release = 3 /\ i \in 1..3
      BY <2>3 DEF Duo!Actions
    <3> QED
      BY <1>1, <2>3, <3>1
  <2>4. CASE a.updates = <<"down", "up", "down", "upDouble">>
    <3>1. a.known = 4 /\ a.event = "double" /\ a.release = 4 /\ i \in 1..4
      BY <2>4 DEF Duo!Actions
    <3> QED
      BY <1>1, <2>4, <3>1
  <2>5. CASE a.updates = <<"down", "up", "down", "holdDouble", "upDoubleHeld">>
    <3>1. a.known = 5 /\ a.event = "double" /\ a.release = 5 /\ i \in 1..5
      BY <2>5 DEF Duo!Actions
    <3> QED
      BY <1>1, <2>5, <3>1
  <2> QED
    BY <2>1, <2>2, <2>3, <2>4, <2>5 DEF Duo!Actions
<1>3. Duo!Click(u) = clicks /\ Duo!Swipe(u) = swipes /\ (Duo!AsksAck(u) <=> kind \in Finals)
  BY <1>2, DuoKinds
<1>4. /\ clicks = <<>> \/ \E t \in Clicks \cup Swipes : clicks = <<t>>
      /\ swipes = <<>> \/ \E t \in Clicks \cup Swipes : swipes = <<t>>
  BY DEF Clicks
<1> HIDE DEF clicks, swipes
<1>5. CASE clicks = <<>>
  <2>1. swipes \in Seq(Clicks \cup Swipes)
    BY <1>4, AtMostOne
  <2>2. <<>> \o swipes = swipes
    BY <2>1, ConcatEmptySeq
  <2> QED
    BY <1>2, <1>3, <1>4, <1>5, <2>2
<1>6. CASE swipes = <<>>
  <2>1. clicks \in Seq(Clicks \cup Swipes)
    BY <1>4, AtMostOne
  <2>2. clicks \o <<>> = clicks
    BY <2>1, ConcatEmptySeq
  <2> QED
    BY <1>2, <1>3, <1>4, <1>6, <2>2
<1> QED
  BY <1>2, <1>5, <1>6

\* The sum of TotalBits.
BitTurns(q, f) == f = [n \in 0..Len(q) |-> IF n = 0 THEN 0 ELSE f[n - 1] + Duo!Bits(q[n])]

\* The sum adds up the bits of every update.
LEMMA BitsLoop ==
  ASSUME NEW q \in Seq(DuoUpdates)
  PROVE  \E f : /\ f \in [0..Len(q) -> Nat] /\ f[0] = 0
                /\ \A i \in 1..Len(q) : f[i] = f[i - 1] + Duo!Bits(q[i])
                /\ Duo!TotalBits(q) = f[Len(q)]
<1>1. Len(q) \in Nat /\ \A i \in 1..Len(q) : q[i] \in DuoUpdates
  BY LenProperties, ElementOfSeq
<1> DEFINE step == [i \in 1..Len(q) |-> [s \in Nat |-> s + Duo!Bits(q[i])]]
<1>2. step \in [1..Len(q) -> [Nat -> Nat]]
  <2>1. ASSUME NEW i \in 1..Len(q), NEW s \in Nat PROVE s + Duo!Bits(q[i]) \in Nat
    BY <1>1, UpdateBits
  <2> QED
    BY <2>1
<1>3. \A i \in 1..Len(q), s \in Nat : step[i][s] = s + Duo!Bits(q[i])
  OBVIOUS
<1> HIDE DEF step
<1>4. PICK f : IsFold(f, Len(q), Nat, 0, step)
  BY <1>1, <1>2, FoldExists
<1>5. ASSUME NEW i \in 1..Len(q) PROVE f[i] = f[i - 1] + Duo!Bits(q[i])
  <2>1. i - 1 \in 0..Len(q)
    BY <1>1
  <2>2. f[i - 1] \in Nat /\ f[i] = step[i][f[i - 1]]
    BY <1>4, <2>1 DEF IsFold
  <2> QED
    BY <1>3, <2>2
<1>6. BitTurns(q, f)
  <2>1. f \in [0..Len(q) -> Nat] /\ f[0] = 0
    BY <1>4 DEF IsFold
  <2>2. ASSUME NEW n \in 0..Len(q)
        PROVE  f[n] = IF n = 0 THEN 0 ELSE f[n - 1] + Duo!Bits(q[n])
    <3>1. n # 0 => n \in 1..Len(q)
      BY <1>1
    <3> QED
      BY <1>5, <2>1, <3>1
  <2> QED
    BY <2>1, <2>2 DEF BitTurns
<1> DEFINE g == CHOOSE g : BitTurns(q, g)
<1>7. BitTurns(q, g)
  BY <1>6
<1>8. Duo!TotalBits(q) = g[Len(q)]
  BY DEF Duo!TotalBits, BitTurns
<1> HIDE DEF g
<1>9. \A i \in 0..Len(q) : f[i] = g[i]
  <2>1. \A n \in 0..Len(q) : g[n] = IF n = 0 THEN 0 ELSE g[n - 1] + Duo!Bits(q[n])
    BY <1>7 DEF BitTurns
  <2>2. f[0] = 0 /\ g[0] = 0
    BY <1>1, <1>4, <2>1 DEF IsFold
  <2>3. ASSUME NEW i \in 1..Len(q), f[i - 1] = g[i - 1] PROVE f[i] = g[i]
    <3>1. i \in 0..Len(q) /\ i # 0
      BY <1>1
    <3> QED
      BY <1>5, <2>1, <2>3, <3>1
  <2>4. Len(q) \in Nat /\ SameSteps(f, g, Len(q))
    BY <1>1, <2>2, <2>3 DEF SameSteps
  <2> QED
    BY <2>4, FoldUnique
<1>10. Duo!TotalBits(q) = f[Len(q)]
  BY <1>1, <1>8, <1>9
<1> QED
  BY <1>4, <1>5, <1>10 DEF IsFold

\* A notification grows by the bits of each update.
LEMMA BitsAppended ==
  ASSUME NEW q \in Seq(DuoUpdates), NEW x \in DuoUpdates
  PROVE  /\ Duo!TotalBits(q) \in Nat
         /\ Duo!TotalBits(<<>>) = 0
         /\ Duo!TotalBits(Append(q, x)) = Duo!TotalBits(q) + Duo!Bits(x)
<1> DEFINE r == Append(q, x)
           n == Len(q)
<1>1. /\ n \in Nat /\ r \in Seq(DuoUpdates) /\ Len(r) = n + 1 /\ r[n + 1] = x
      /\ \A i \in 1..n : r[i] = q[i]
  BY LenProperties, AppendProperties
<1>2. <<>> \in Seq(DuoUpdates) /\ Len(<<>>) = 0
  OBVIOUS
<1> HIDE DEF r, n
<1>3. Duo!TotalBits(<<>>) = 0
  BY <1>2, BitsLoop
<1>4. PICK f : /\ f \in [0..n -> Nat] /\ f[0] = 0
               /\ \A i \in 1..n : f[i] = f[i - 1] + Duo!Bits(q[i])
               /\ Duo!TotalBits(q) = f[n]
  BY BitsLoop DEF n
<1>5. PICK g : /\ g \in [0..Len(r) -> Nat] /\ g[0] = 0
               /\ \A i \in 1..Len(r) : g[i] = g[i - 1] + Duo!Bits(r[i])
               /\ Duo!TotalBits(r) = g[Len(r)]
  BY <1>1, BitsLoop
<1>6. \A i \in 0..n : f[i] = g[i]
  <2>1. ASSUME NEW i \in 1..n, f[i - 1] = g[i - 1] PROVE f[i] = g[i]
    <3>1. i \in 1..n + 1
      BY <1>1
    <3> QED
      BY <1>1, <1>4, <1>5, <2>1, <3>1
  <2>2. n \in Nat /\ SameSteps(f, g, n)
    BY <1>1, <1>4, <1>5, <2>1 DEF SameSteps
  <2> QED
    BY <2>2, FoldUnique
<1>7. g[n + 1] = g[n] + Duo!Bits(x)
  <2>1. n + 1 \in 1..n + 1 /\ (n + 1) - 1 = n
    BY <1>1
  <2> QED
    BY <1>1, <1>5, <2>1
<1>8. n \in 0..n
  BY <1>1
<1>9. Duo!TotalBits(r) = Duo!TotalBits(q) + Duo!Bits(x)
  BY <1>1, <1>4, <1>5, <1>6, <1>7, <1>8
<1>10. Duo!TotalBits(q) \in Nat
  BY <1>4, <1>8
<1> QED
  BY <1>3, <1>9, <1>10 DEF r

\* A turn of the loop keeps the types of what it works on.
LEMMA TurnTyped ==
  ASSUME NEW acc \in DuoAccs, NEW u \in DuoUpdates
  PROVE  Duo!DecodeUpdate(acc, u) \in DuoAccs
<1> DEFINE read == Duo!ReadCount(acc, u)
           n == Duo!Adjust(u.code, read)
           types == Duo!Click(u) \o Duo!Swipe(u)
           time == acc.time + u.timeDelta
           event(type) == [type |-> type, button |-> u.button, count |-> n,
                           queued |-> Duo!Queued(acc, u), time |-> time]
           events == [i \in DOMAIN types |-> event(types[i])]
           new == [acc EXCEPT !.counts[u.button] = n, !.got = @ \cup {u.button},
                              !.time = time, !.endOfQueue = Duo!EndsQueue(acc, u),
                              !.events = @ \o events,
                              !.needsAck = @ \/ Duo!AsksAck(u),
                              !.position = @ + Duo!Bits(u),
                              !.truncated = @ \/ acc.position + Duo!Bits(u) > 8 * acc.size]
<1>1. /\ acc.counts \in [Duo!Buttons -> Nat] /\ acc.got \in SUBSET Duo!Buttons
      /\ acc.time \in Nat /\ acc.endOfQueue \in BOOLEAN /\ acc.events \in Seq(DuoReports)
      /\ acc.needsAck \in BOOLEAN /\ acc.position \in Nat /\ acc.size \in Nat
      /\ acc.truncated \in BOOLEAN
      /\ u.button \in Duo!Buttons /\ u.delta \in Nat /\ u.timeDelta \in Nat
  BY DEF DuoAccs, DuoUpdates
<1>2. read \in Nat
  <2>1. acc.counts[u.button] \in Nat
    BY <1>1
  <2> QED
    BY <1>1, <2>1 DEF Duo!ReadCount
<1>3. n \in Nat
  BY <1>2 DEF Duo!Adjust
<1>4. /\ Duo!Queued(acc, u) \in BOOLEAN /\ Duo!EndsQueue(acc, u) \in BOOLEAN
      /\ (acc.needsAck \/ Duo!AsksAck(u)) \in BOOLEAN
      /\ (acc.truncated \/ acc.position + Duo!Bits(u) > 8 * acc.size) \in BOOLEAN
      /\ Duo!Bits(u) \in Nat /\ time \in Nat
  BY <1>1, UpdateBits DEF Duo!Queued, Duo!EndsQueue, Duo!AsksAck
<1>5. types \in Seq(Clicks \cup Swipes)
  <2>1. Duo!Click(u) = <<>> \/ \E t \in Clicks \cup Swipes : Duo!Click(u) = <<t>>
    <3>1. Duo!Click(u) \in {<<>>, <<"single">>, <<"double">>, <<"hold">>}
      BY DEF Duo!Click
    <3> QED
      BY <3>1 DEF Clicks
  <2>2. Duo!Swipe(u) = <<>> \/ \E t \in Clicks \cup Swipes : Duo!Swipe(u) = <<t>>
    BY DEF Duo!Swipe
  <2>3. Duo!Click(u) \in Seq(Clicks \cup Swipes) /\ Duo!Swipe(u) \in Seq(Clicks \cup Swipes)
    BY <2>1, <2>2, AtMostOne
  <2> QED
    BY <2>3, ConcatProperties
<1> HIDE DEF read, n, types, time
<1>6. events \in Seq(DuoReports)
  <2>1. Len(types) \in Nat /\ DOMAIN types = 1..Len(types)
        /\ \A i \in 1..Len(types) : types[i] \in Clicks \cup Swipes
    BY <1>5, LenProperties, ElementOfSeq
  <2>2. \A i \in 1..Len(types) : event(types[i]) \in DuoReports
    BY <1>1, <1>3, <1>4, <2>1 DEF DuoReports
  <2> HIDE DEF event
  <2> QED
    BY <2>1, <2>2
<1> HIDE DEF events
<1>7. acc.events \o events \in Seq(DuoReports)
  BY <1>1, <1>6, ConcatProperties
<1>8. new \in DuoAccs
  <2>1. [acc.counts EXCEPT ![u.button] = n] \in [Duo!Buttons -> Nat]
    BY <1>1, <1>3
  <2>2. acc.got \cup {u.button} \in SUBSET Duo!Buttons /\ acc.position + Duo!Bits(u) \in Nat
    BY <1>1, <1>4
  <2> QED
    BY <1>1, <1>4, <1>7, <2>1, <2>2 DEF DuoAccs
<1>9. Duo!DecodeUpdate(acc, u) = IF ~Duo!MorePayload(acc) THEN acc ELSE new
  BY DEF Duo!DecodeUpdate, new, events, types, n, read, time
<1> QED
  BY <1>8, <1>9

\* The loop of decode_duo_button_events.
DuoTurns(start, q, f) ==
    f = [n \in 0..Len(q) |-> IF n = 0 THEN start ELSE Duo!DecodeUpdate(f[n - 1], q[n])]

\* The loop ends with what its turns make of the start.
LEMMA DuoLoop ==
  ASSUME NEW start \in DuoAccs, NEW q \in Seq(DuoUpdates)
  PROVE  \E f : /\ f \in [0..Len(q) -> DuoAccs] /\ f[0] = start
                /\ \A i \in 1..Len(q) : f[i] = Duo!DecodeUpdate(f[i - 1], q[i])
                /\ Duo!Loop(start, q) = f[Len(q)]
<1>1. Len(q) \in Nat /\ \A i \in 1..Len(q) : q[i] \in DuoUpdates
  BY LenProperties, ElementOfSeq
<1> DEFINE step == [i \in 1..Len(q) |-> [s \in DuoAccs |-> Duo!DecodeUpdate(s, q[i])]]
<1>2. step \in [1..Len(q) -> [DuoAccs -> DuoAccs]]
  <2>1. ASSUME NEW i \in 1..Len(q), NEW s \in DuoAccs PROVE Duo!DecodeUpdate(s, q[i]) \in DuoAccs
    BY <1>1, TurnTyped
  <2> QED
    BY <2>1
<1>3. \A i \in 1..Len(q), s \in DuoAccs : step[i][s] = Duo!DecodeUpdate(s, q[i])
  OBVIOUS
<1> HIDE DEF step
<1>4. PICK f : IsFold(f, Len(q), DuoAccs, start, step)
  BY <1>1, <1>2, FoldExists
<1>5. ASSUME NEW i \in 1..Len(q) PROVE f[i] = Duo!DecodeUpdate(f[i - 1], q[i])
  <2>1. i - 1 \in 0..Len(q)
    BY <1>1
  <2>2. f[i - 1] \in DuoAccs /\ f[i] = step[i][f[i - 1]]
    BY <1>4, <2>1 DEF IsFold
  <2> QED
    BY <1>3, <2>2
<1>6. DuoTurns(start, q, f)
  <2>1. f \in [0..Len(q) -> DuoAccs] /\ f[0] = start
    BY <1>4 DEF IsFold
  <2>2. ASSUME NEW n \in 0..Len(q)
        PROVE  f[n] = IF n = 0 THEN start ELSE Duo!DecodeUpdate(f[n - 1], q[n])
    <3>1. n # 0 => n \in 1..Len(q)
      BY <1>1
    <3> QED
      BY <1>5, <2>1, <3>1
  <2> QED
    BY <2>1, <2>2 DEF DuoTurns
<1> DEFINE g == CHOOSE g : DuoTurns(start, q, g)
<1>7. DuoTurns(start, q, g)
  BY <1>6
<1>8. Duo!Loop(start, q) = g[Len(q)]
  BY DEF Duo!Loop, DuoTurns
<1> HIDE DEF g
<1>9. \A i \in 0..Len(q) : f[i] = g[i]
  <2>1. \A n \in 0..Len(q) : g[n] = IF n = 0 THEN start ELSE Duo!DecodeUpdate(g[n - 1], q[n])
    BY <1>7 DEF DuoTurns
  <2>2. f[0] = start /\ g[0] = start
    BY <1>1, <1>4, <2>1 DEF IsFold
  <2>3. ASSUME NEW i \in 1..Len(q), f[i - 1] = g[i - 1] PROVE f[i] = g[i]
    <3>1. i \in 0..Len(q) /\ i # 0
      BY <1>1
    <3> QED
      BY <1>5, <2>1, <2>3, <3>1
  <2>4. Len(q) \in Nat /\ SameSteps(f, g, Len(q))
    BY <1>1, <2>2, <2>3 DEF SameSteps
  <2> QED
    BY <2>4, FoldUnique
<1>10. Duo!Loop(start, q) = f[Len(q)]
  BY <1>1, <1>8, <1>9
<1> QED
  BY <1>4, <1>5, <1>10 DEF IsFold

\* A notification is decoded update by update.
LEMMA LoopAppended ==
  ASSUME NEW start \in DuoAccs, NEW q \in Seq(DuoUpdates), NEW x \in DuoUpdates
  PROVE  /\ Duo!Loop(start, q) \in DuoAccs
         /\ Duo!Loop(start, <<>>) = start
         /\ Duo!Loop(start, Append(q, x)) = Duo!DecodeUpdate(Duo!Loop(start, q), x)
<1> DEFINE r == Append(q, x)
           n == Len(q)
<1>1. /\ n \in Nat /\ r \in Seq(DuoUpdates) /\ Len(r) = n + 1 /\ r[n + 1] = x
      /\ \A i \in 1..n : r[i] = q[i]
  BY LenProperties, AppendProperties
<1>2. <<>> \in Seq(DuoUpdates) /\ Len(<<>>) = 0
  OBVIOUS
<1> HIDE DEF r, n
<1>3. Duo!Loop(start, <<>>) = start
  BY <1>2, DuoLoop
<1>4. PICK f : /\ f \in [0..n -> DuoAccs] /\ f[0] = start
               /\ \A i \in 1..n : f[i] = Duo!DecodeUpdate(f[i - 1], q[i])
               /\ Duo!Loop(start, q) = f[n]
  BY DuoLoop DEF n
<1>5. PICK g : /\ g \in [0..Len(r) -> DuoAccs] /\ g[0] = start
               /\ \A i \in 1..Len(r) : g[i] = Duo!DecodeUpdate(g[i - 1], r[i])
               /\ Duo!Loop(start, r) = g[Len(r)]
  BY <1>1, DuoLoop
<1>6. \A i \in 0..n : f[i] = g[i]
  <2>1. ASSUME NEW i \in 1..n, f[i - 1] = g[i - 1] PROVE f[i] = g[i]
    <3>1. i \in 1..n + 1
      BY <1>1
    <3> QED
      BY <1>1, <1>4, <1>5, <2>1, <3>1
  <2>2. n \in Nat /\ SameSteps(f, g, n)
    BY <1>1, <1>4, <1>5, <2>1 DEF SameSteps
  <2> QED
    BY <2>2, FoldUnique
<1>7. g[n + 1] = Duo!DecodeUpdate(g[n], x)
  <2>1. n + 1 \in 1..n + 1 /\ (n + 1) - 1 = n
    BY <1>1
  <2> QED
    BY <1>1, <1>5, <2>1
<1>8. n \in 0..n
  BY <1>1
<1>9. Duo!Loop(start, r) = Duo!DecodeUpdate(Duo!Loop(start, q), x)
  BY <1>1, <1>4, <1>5, <1>6, <1>7, <1>8
<1>10. Duo!Loop(start, q) \in DuoAccs
  BY <1>4, <1>8
<1> QED
  BY <1>3, <1>9, <1>10 DEF r

\* Where the decoder is when it has read the updates of the notification so far, in a
\* payload that is long enough for them, and where it starts.
DuoStart(size) ==
    [counts |-> decoder.counts, got |-> {}, time |-> decoder.time,
     endOfQueue |-> decoder.endOfQueue, events |-> <<>>, needsAck |-> FALSE,
     position |-> 0, size |-> size, truncated |-> FALSE]
DuoRead(size) ==
    [counts |-> bCount, got |-> {note[i].button : i \in DOMAIN note}, time |-> bTime,
     endOfQueue |-> ~bQueueing, events |-> owed, needsAck |-> owedAck,
     position |-> Duo!TotalBits(note), size |-> size, truncated |-> FALSE]

\* An action in progress, before its update next.
DuoDoings == [action : Duo!Actions, next : Nat, gesture : Duo!Gestures]
DuoGoing(d) == d \in DuoDoings /\ d.next \in 1..Len(d.action.updates)

\* The types of the Duo, and of what the session keeps.
DuoTypes ==
    /\ use \in Uses
    /\ doing = [b \in Duo!Buttons |-> doing[b]]
    /\ \A b \in Duo!Buttons : doing[b] = Duo!Idle \/ DuoGoing(doing[b])
    /\ bCount \in [Duo!Buttons -> Nat] /\ bTime \in Nat /\ bQueueing \in BOOLEAN
    /\ note \in Seq(DuoUpdates) /\ owed \in Seq(DuoReports) /\ owedAck \in BOOLEAN
    /\ decoder \in [counts : [Duo!Buttons -> Nat], time : Nat, endOfQueue : BOOLEAN]

\* The notification being filled is decoded to the counts and the time of the Duo and
\* to what is owed for it, however long the payload will become.
DuoInv ==
    /\ DuoTypes
    /\ \A size \in Nat : size > Duo!Bytes(Duo!TotalBits(note))
                            => Duo!Loop(DuoStart(size), note) = DuoRead(size)
    /\ result = expected

\* The updates of an action.
LEMMA ActionLength ==
  ASSUME NEW a \in Duo!Actions
  PROVE  /\ Len(a.updates) \in Nat \ {0}
         /\ \A i \in 1..Len(a.updates) : a.updates[i] \in Kinds
<1>1. CASE a.updates = <<"down", "up", "timeout">>
  BY <1>1 DEF Kinds
<1>2. CASE a.updates = <<"down", "upSingle">>
  BY <1>2 DEF Kinds
<1>3. CASE a.updates = <<"down", "hold", "upSingleHeld">>
  BY <1>3 DEF Kinds
<1>4. CASE a.updates = <<"down", "up", "down", "upDouble">>
  BY <1>4 DEF Kinds
<1>5. CASE a.updates = <<"down", "up", "down", "holdDouble", "upDoubleHeld">>
  BY <1>5 DEF Kinds
<1> QED
  BY <1>1, <1>2, <1>3, <1>4, <1>5 DEF Duo!Actions

\* The buttons of a notification.
LEMMA ButtonsAppended ==
  ASSUME NEW q \in Seq(DuoUpdates), NEW x \in DuoUpdates
  PROVE  {Append(q, x)[i].button : i \in DOMAIN Append(q, x)}
           = {q[i].button : i \in DOMAIN q} \cup {x.button}
<1> DEFINE r == Append(q, x)
<1>1. /\ Len(q) \in Nat /\ DOMAIN q = 1..Len(q) /\ DOMAIN r = 1..Len(q) + 1
      /\ \A i \in 1..Len(q) : r[i] = q[i]
      /\ r[Len(q) + 1] = x
  BY LenProperties, AppendProperties
<1> HIDE DEF r
<1>2. ASSUME NEW i \in DOMAIN r
      PROVE  r[i].button \in {q[j].button : j \in DOMAIN q} \cup {x.button}
  <2>1. i \in 1..Len(q) \/ i = Len(q) + 1
    BY <1>1
  <2> QED
    BY <1>1, <2>1
<1>3. ASSUME NEW j \in DOMAIN q PROVE q[j].button \in {r[i].button : i \in DOMAIN r}
  <2>1. j \in DOMAIN r /\ r[j] = q[j]
    BY <1>1
  <2> QED
    BY <2>1
<1>4. x.button \in {r[i].button : i \in DOMAIN r}
  <2>1. Len(q) + 1 \in DOMAIN r
    BY <1>1
  <2> QED
    BY <1>1, <2>1
<1>5. {r[i].button : i \in DOMAIN r} = {q[i].button : i \in DOMAIN q} \cup {x.button}
  BY <1>2, <1>3, <1>4
<1> QED
  BY <1>5 DEF r

\* Four bytes or more are unread before the last update of a notification, and it ends
\* in the payload.
LEMMA NotPadding ==
  ASSUME NEW total \in Nat, NEW bits \in Nat, bits >= 39, NEW size \in Nat,
         size > Duo!Bytes(total + bits)
  PROVE  /\ size > Duo!Bytes(total) /\ size - Duo!Bytes(total) > 1
         /\ total + bits <= 8 * size
<1>1. (total + bits + 7) \div 8 >= ((total + 7) \div 8) + 4
  OBVIOUS
<1>2. (total + 7) \div 8 \in Nat
  OBVIOUS
<1>3. total + bits <= 8 * ((total + bits + 7) \div 8)
  OBVIOUS
<1> QED
  BY <1>1, <1>2, <1>3 DEF Duo!Bytes

\* The bits of the queue say where an update was.
LEMMA QueueRead ==
  ASSUME NEW place \in DOMAIN Duo!QueueBits
  PROVE  /\ place \in {"queued", "lastQueued", "live"}
         /\ Duo!QueueBits[place] \in {<<0>>, <<1, 0>>, <<1, 1>>}
         /\ Duo!QueueBits[place][1] = 0 \/ Duo!QueueBits[place][2] = 0 <=> place # "live"
         /\ Duo!QueueBits[place][1] = 1 <=> place # "queued"
<1>1. /\ Duo!QueueBits["queued"] = <<0>> /\ Duo!QueueBits["lastQueued"] = <<1, 0>>
      /\ Duo!QueueBits["live"] = <<1, 1>>
      /\ DOMAIN Duo!QueueBits = {"queued", "lastQueued", "live"}
  BY DEF Duo!QueueBits
<1> QED
  BY <1>1

\* An update that the Duo adds to the notification.
LEMMA DuoUpdated ==
  ASSUME DuoInv, NEW b \in use.pressed, NEW d \in Duo!Continuations(b),
         NEW place \in DOMAIN Duo!QueueBits, NEW gap \in Gaps \cup {0},
         Duo!Update(b, d, place, gap)
  PROVE  DuoInv'
<1> DEFINE kind == d.action.updates[d.next]
           first == \A i \in DOMAIN note : note[i].button # b
           after == bCount[b] + gap + 1
           n == IF Duo!Code[kind] <= 5 /\ after % 2 = 0 THEN after + 1 ELSE after
           types == Duo!Owed(d.action, d.next, d.gesture)
           delta == IF first THEN n - bCount[b] - 1 ELSE 0
           gesture == IF d.next >= d.action.release THEN d.gesture ELSE "none"
           extra == kind \in {"holdDouble", "upDoubleHeld"}
           queueBits == IF bQueueing THEN Duo!QueueBits[place] ELSE <<>>
           u == [button |-> b, hasDelta |-> first, delta |-> delta, timeDelta |-> 1,
                 code |-> Duo!Code[kind], extra |-> extra, gesture |-> gesture,
                 queueBits |-> queueBits]
           debts == [i \in DOMAIN types |->
                       [type |-> types[i], button |-> b, count |-> n,
                        queued |-> place # "live", time |-> bTime + 1]]
<1>1. /\ place # "live" => bQueueing
      /\ gap # 0 => first
      /\ note' = Append(note, u)
      /\ owed' = owed \o debts
      /\ owedAck' = (owedAck \/ Duo!Ends(d.action, d.next))
      /\ bCount' = [bCount EXCEPT ![b] = n] /\ bTime' = bTime + 1
      /\ bQueueing' = (place = "queued")
      /\ doing' = [doing EXCEPT ![b] =
                     IF Duo!Ends(d.action, d.next) THEN Duo!Idle ELSE [d EXCEPT !.next = @ + 1]]
      /\ result' = Duo!NoResult /\ expected' = Duo!NoResult
      /\ UNCHANGED <<use, decoder>>
  BY DEF Duo!Update
<1>2. b \in Duo!Buttons /\ gap \in Nat
  BY Parameters DEF DuoInv, DuoTypes, Duo!Buttons
<1>3. DuoGoing(d)
  <2>1. CASE doing[b] = Duo!Idle
    <3>1. PICK a \in Duo!Actions, g \in Duo!Gestures :
             d = [action |-> a, next |-> 1, gesture |-> g]
      BY <2>1 DEF Duo!Continuations
    <3>2. Len(a.updates) \in Nat \ {0}
      BY ActionLength
    <3>3. d.action = a /\ d.next = 1 /\ d \in DuoDoings
      BY <3>1 DEF DuoDoings
    <3>4. 1 \in 1..Len(a.updates)
      BY <3>2
    <3> QED
      BY <3>3, <3>4 DEF DuoGoing
  <2>2. CASE doing[b] # Duo!Idle
    BY <1>2, <2>2 DEF Duo!Continuations, DuoInv, DuoTypes
  <2> QED
    BY <2>1, <2>2
<1>4. /\ d.action \in Duo!Actions /\ d.gesture \in Duo!Gestures
      /\ d.next \in 1..Len(d.action.updates) /\ d \in DuoDoings
  BY <1>3 DEF DuoGoing, DuoDoings
<1>5. kind \in Kinds /\ Duo!Code[kind] \in 0..7
  BY <1>4, ActionLength DEF Kinds, Duo!Code
<1>6. bCount[b] \in Nat /\ after \in Nat /\ n \in Nat /\ n >= after /\ delta \in Nat
      /\ (Duo!Code[kind] <= 5 => n % 2 # 0)
  <2>1. bCount[b] \in Nat
    BY <1>2 DEF DuoInv, DuoTypes
  <2>2. after \in Nat /\ after >= bCount[b] + 1
    BY <1>2, <2>1
  <2> HIDE DEF after
  <2>3. n \in Nat /\ n >= after /\ (Duo!Code[kind] <= 5 => n % 2 # 0)
    BY <1>5, <2>2
  <2> QED
    BY <2>1, <2>2, <2>3
<1>7. u \in DuoUpdates
  <2>1. queueBits \in {<<>>, <<0>>, <<1, 0>>, <<1, 1>>}
    BY QueueRead
  <2>2. gesture \in Duo!Gestures
    BY <1>4 DEF Duo!Gestures
  <2> QED
    BY <1>2, <1>5, <1>6, <2>1, <2>2 DEF DuoUpdates
<1>8. /\ u.button = b /\ u.hasDelta = first /\ u.delta = delta /\ u.timeDelta = 1
      /\ u.code = Duo!Code[kind] /\ u.extra = extra /\ u.gesture = gesture
      /\ u.queueBits = queueBits
  OBVIOUS
<1>9. /\ Duo!AsksAck(u) <=> Duo!Ends(d.action, d.next)
      /\ Duo!Click(u) \o Duo!Swipe(u) = types
      /\ types = <<>> \/ \E t \in Clicks \cup Swipes : types = <<t>>
  <2> HIDE DEF u
  <2> QED
    BY <1>4, <1>7, <1>8, DuoAction
<1> HIDE DEF u
<1>10. debts \in Seq(DuoReports)
  <2>0. bTime + 1 \in Nat
    BY DEF DuoInv, DuoTypes
  <2> HIDE DEF types, n
  <2>1. ASSUME NEW t \in Clicks \cup Swipes
        PROVE  [type |-> t, button |-> b, count |-> n, queued |-> place # "live",
                time |-> bTime + 1] \in DuoReports
    BY <1>2, <1>6, <2>0 DEF DuoReports
  <2>2. CASE types = <<>>
    BY <2>2
  <2>3. ASSUME NEW t \in Clicks \cup Swipes, types = <<t>> PROVE debts \in Seq(DuoReports)
    <3> DEFINE x == [type |-> t, button |-> b, count |-> n, queued |-> place # "live",
                     time |-> bTime + 1]
    <3>1. x \in DuoReports
      BY <2>1
    <3>2. debts = <<x>>
      BY <2>3
    <3> HIDE DEF x, debts
    <3> QED
      BY <3>1, <3>2
  <2> QED
    BY <1>9, <2>2, <2>3
<1>11. /\ note' \in Seq(DuoUpdates) /\ owed' \in Seq(DuoReports)
       /\ Duo!TotalBits(note') = Duo!TotalBits(note) + Duo!Bits(u)
       /\ Duo!TotalBits(note) \in Nat /\ Duo!Bits(u) \in Nat /\ Duo!Bits(u) >= 39
  <2>1. note \in Seq(DuoUpdates) /\ owed \in Seq(DuoReports)
    BY DEF DuoInv, DuoTypes
  <2>2. note' \in Seq(DuoUpdates)
    BY <1>1, <1>7, <2>1, AppendProperties
  <2>3. owed' \in Seq(DuoReports)
    <3> HIDE DEF debts
    <3> QED
      BY <1>1, <1>10, <2>1, ConcatProperties
  <2>4. Duo!TotalBits(note') = Duo!TotalBits(note) + Duo!Bits(u) /\ Duo!TotalBits(note) \in Nat
    BY <1>1, <1>7, <2>1, BitsAppended
  <2> QED
    BY <1>7, <2>2, <2>3, <2>4, UpdateBits
<1>12. bCount' \in [Duo!Buttons -> Nat] /\ bTime' \in Nat /\ bQueueing' \in BOOLEAN
       /\ owedAck' \in BOOLEAN
  <2>1. bCount \in [Duo!Buttons -> Nat] /\ bTime \in Nat /\ owedAck \in BOOLEAN
    BY DEF DuoInv, DuoTypes
  <2> HIDE DEF n
  <2>2. bCount' \in [Duo!Buttons -> Nat] /\ bTime' \in Nat
    BY <1>1, <1>2, <1>6, <2>1
  <2>3. bQueueing' \in BOOLEAN /\ owedAck' \in BOOLEAN
    BY <1>1, <2>1
  <2> QED
    BY <2>2, <2>3
<1>13. /\ doing' = [c \in Duo!Buttons |-> doing'[c]]
       /\ \A c \in Duo!Buttons : doing'[c] = Duo!Idle \/ DuoGoing(doing'[c])
  <2> DEFINE e == IF Duo!Ends(d.action, d.next) THEN Duo!Idle ELSE [d EXCEPT !.next = @ + 1]
  <2>1. e = Duo!Idle \/ DuoGoing(e)
    <3>1. CASE ~Duo!Ends(d.action, d.next)
      <4>1. e = [d EXCEPT !.next = @ + 1]
        BY <3>1
      <4>2. e.action = d.action /\ e.next = d.next + 1 /\ e \in DuoDoings
        BY <1>4, <4>1 DEF DuoDoings
      <4>3. d.next # Len(d.action.updates) /\ Len(d.action.updates) \in Nat
        BY <1>4, <3>1, ActionLength DEF Duo!Ends
      <4>4. e.next \in 1..Len(e.action.updates)
        BY <1>4, <4>2, <4>3
      <4> QED
        BY <4>2, <4>4 DEF DuoGoing
    <3> QED
      BY <3>1
  <2>2. doing' = [doing EXCEPT ![b] = e]
    BY <1>1
  <2> HIDE DEF e
  <2>3. /\ doing = [c \in Duo!Buttons |-> doing[c]]
        /\ \A c \in Duo!Buttons : doing[c] = Duo!Idle \/ DuoGoing(doing[c])
    BY DEF DuoInv, DuoTypes
  <2>4. doing' = [c \in Duo!Buttons |-> IF c = b THEN e ELSE doing[c]]
    BY <2>2, <2>3
  <2>5. doing' = [c \in Duo!Buttons |-> doing'[c]]
    BY <2>4
  <2> QED
    BY <1>2, <2>1, <2>3, <2>4, <2>5
<1>14. DuoTypes'
  <2>1. use' = use /\ decoder' = decoder
    BY <1>1
  <2> QED
    BY <1>11, <1>12, <1>13, <2>1 DEF DuoInv, DuoTypes
<1>15. ASSUME NEW size \in Nat, size > Duo!Bytes(Duo!TotalBits(note'))
       PROVE  Duo!Loop(DuoStart(size)', note') = DuoRead(size)'
  <2> DEFINE start == DuoStart(size)
             acc == DuoRead(size)
  <2>1. /\ size > Duo!Bytes(Duo!TotalBits(note))
        /\ size - Duo!Bytes(Duo!TotalBits(note)) > 1
        /\ Duo!TotalBits(note) + Duo!Bits(u) <= 8 * size
    BY <1>11, <1>15, NotPadding
  <2>2. Duo!Loop(start, note) = acc
    BY <2>1 DEF DuoInv
  <2>3. start \in DuoAccs
    BY DEF DuoInv, DuoTypes, DuoStart, DuoAccs
  <2>4. DuoStart(size)' = start
    BY <1>1 DEF DuoStart
  <2>5. Duo!Loop(start, note') = Duo!DecodeUpdate(acc, u)
    BY <1>1, <1>7, <2>2, <2>3, LoopAppended DEF DuoInv, DuoTypes
  <2>6. /\ acc.counts = bCount /\ acc.time = bTime /\ acc.endOfQueue = ~bQueueing
        /\ acc.events = owed /\ acc.needsAck = owedAck
        /\ acc.position = Duo!TotalBits(note) /\ acc.size = size
        /\ acc.got = {note[i].button : i \in DOMAIN note}
        /\ acc.truncated = FALSE
    BY DEF DuoRead
  <2>7. Duo!MorePayload(acc) /\ ~(acc.position + Duo!Bits(u) > 8 * acc.size)
    <3>1. Duo!Bytes(Duo!TotalBits(note)) \in Nat
      BY <1>11 DEF Duo!Bytes
    <3> QED
      BY <1>11, <2>1, <2>6, <3>1 DEF Duo!UnreadBytes, Duo!MorePayload
  <2>8. Duo!Adjust(u.code, Duo!ReadCount(acc, u)) = n
    <3>1. b \notin acc.got <=> first
      BY <2>6
    <3>2. CASE first
      <4>1. Duo!ReadCount(acc, u) = bCount[b] + (n - bCount[b] - 1) + 1
        BY <1>8, <2>6, <3>1, <3>2 DEF Duo!ReadCount
      <4>2. Duo!ReadCount(acc, u) = n
        BY <1>6, <4>1
      <4> QED
        BY <1>6, <1>8, <4>2 DEF Duo!Adjust
    <3>3. CASE ~first
      <4>1. gap = 0
        BY <1>1, <3>3
      <4>2. Duo!ReadCount(acc, u) = bCount[b] + 1
        BY <1>8, <2>6, <3>1, <3>3 DEF Duo!ReadCount
      <4>3. Duo!ReadCount(acc, u) = after
        BY <1>6, <4>1, <4>2
      <4> QED
        BY <1>8, <4>3 DEF Duo!Adjust
    <3> QED
      BY <3>2, <3>3
  <2>9. Duo!Queued(acc, u) = (place # "live") /\ Duo!EndsQueue(acc, u) = ~(place = "queued")
    <3>1. CASE bQueueing
      <4>1. u.queueBits = Duo!QueueBits[place] /\ acc.endOfQueue = FALSE
        BY <1>8, <2>6, <3>1
      <4> QED
        BY <4>1, QueueRead DEF Duo!Queued, Duo!EndsQueue
    <3>2. CASE ~bQueueing
      <4>1. acc.endOfQueue = TRUE /\ place = "live"
        BY <1>1, <2>6, <3>2
      <4> QED
        BY <4>1 DEF Duo!Queued, Duo!EndsQueue
    <3> QED
      BY <3>1, <3>2
  <2>10. {note'[i].button : i \in DOMAIN note'} = acc.got \cup {b}
    <3>1. note \in Seq(DuoUpdates)
      BY DEF DuoInv, DuoTypes
    <3>2. {Append(note, u)[i].button : i \in DOMAIN Append(note, u)} =
            {note[i].button : i \in DOMAIN note} \cup {u.button}
      BY <1>7, <3>1, ButtonsAppended
    <3>3. {note'[i].button : i \in DOMAIN note'} =
            {Append(note, u)[i].button : i \in DOMAIN Append(note, u)}
      BY <1>1
    <3> QED
      BY <1>8, <2>6, <3>2, <3>3
  <2> DEFINE new == [acc EXCEPT !.counts[b] = n, !.got = @ \cup {b}, !.time = bTime + 1,
                                !.endOfQueue = ~(place = "queued"), !.events = @ \o debts,
                                !.needsAck = @ \/ Duo!AsksAck(u),
                                !.position = @ + Duo!Bits(u), !.truncated = FALSE]
  <2>11. Duo!DecodeUpdate(acc, u) = new
    <3> HIDE DEF n, types, acc
    <3> QED
      BY <1>8, <1>9, <2>6, <2>7, <2>8, <2>9 DEF Duo!DecodeUpdate
  <2>12. DuoRead(size)' =
           [counts |-> [bCount EXCEPT ![b] = n], got |-> acc.got \cup {b}, time |-> bTime + 1,
            endOfQueue |-> ~(place = "queued"), events |-> owed \o debts,
            needsAck |-> (owedAck \/ Duo!AsksAck(u)),
            position |-> Duo!TotalBits(note) + Duo!Bits(u), size |-> size,
            truncated |-> FALSE]
    BY <1>1, <1>9, <1>11, <2>10 DEF DuoRead
  <2>13. new = DuoRead(size)'
    <3> DEFINE read == DuoRead(size)'
               got == {note[i].button : i \in DOMAIN note}
               live == ~bQueueing
               total == Duo!TotalBits(note)
    <3>1. acc = [counts |-> bCount, got |-> got, time |-> bTime, endOfQueue |-> live,
                 events |-> owed, needsAck |-> owedAck, position |-> total, size |-> size,
                 truncated |-> FALSE]
      BY DEF DuoRead
    <3> HIDE DEF got, live, total
    <3>2. read =
           [counts |-> [bCount EXCEPT ![b] = n], got |-> acc.got \cup {b}, time |-> bTime + 1,
            endOfQueue |-> ~(place = "queued"), events |-> owed \o debts,
            needsAck |-> (owedAck \/ Duo!AsksAck(u)),
            position |-> Duo!TotalBits(note) + Duo!Bits(u), size |-> size,
            truncated |-> FALSE]
      BY <2>12
    <3> DEFINE extended == [bCount EXCEPT ![b] = n]
               taken == acc.got \cup {b}
               later == bTime + 1
               ends == ~(place = "queued")
               events == owed \o debts
               asked == owedAck \/ Duo!AsksAck(u)
               position == Duo!TotalBits(note) + Duo!Bits(u)
    <3> HIDE DEF acc, read
    <3>3. new = [acc EXCEPT !.counts = extended, !.got = taken, !.time = later,
                            !.endOfQueue = ends, !.events = events, !.needsAck = asked,
                            !.position = position, !.truncated = FALSE]
      BY <2>6
    <3>4. read = [counts |-> extended, got |-> taken, time |-> later, endOfQueue |-> ends,
                  events |-> events, needsAck |-> asked, position |-> position, size |-> size,
                  truncated |-> FALSE]
      BY <3>2
    <3> HIDE DEF n, types, debts, new, extended, taken, later, ends, events, asked, position
    <3>5. new = [counts |-> extended, got |-> taken, time |-> later, endOfQueue |-> ends,
                 events |-> events, needsAck |-> asked, position |-> position, size |-> size,
                 truncated |-> FALSE]
      BY <3>1, <3>3
    <3> QED
      BY <3>4, <3>5 DEF read
  <2> QED
    BY <2>4, <2>5, <2>11, <2>13
<1>16. result' = expected'
  BY <1>1
<1> QED
  BY <1>14, <1>15, <1>16 DEF DuoInv

\* A notification with nothing in it leaves the decoder where it starts.
LEMMA NothingRead ==
  ASSUME NEW counts \in [Duo!Buttons -> Nat], NEW time \in Nat, NEW ended \in BOOLEAN,
         NEW size \in Nat
  PROVE  LET start == [counts |-> counts, got |-> {}, time |-> time, endOfQueue |-> ended,
                       events |-> <<>>, needsAck |-> FALSE, position |-> 0, size |-> size,
                       truncated |-> FALSE]
         IN Duo!Loop(start, <<>>) = start
<1> DEFINE start == [counts |-> counts, got |-> {}, time |-> time, endOfQueue |-> ended,
                     events |-> <<>>, needsAck |-> FALSE, position |-> 0, size |-> size,
                     truncated |-> FALSE]
           x == [button |-> 0, hasDelta |-> FALSE, delta |-> 0, timeDelta |-> 0, code |-> 0,
                 extra |-> FALSE, gesture |-> "none", queueBits |-> <<>>]
<1>1. start \in DuoAccs
  BY DEF DuoAccs
<1>2. x \in DuoUpdates
  BY DEF DuoUpdates, Duo!Buttons, Duo!Gestures
<1>3. <<>> \in Seq(DuoUpdates)
  OBVIOUS
<1> HIDE DEF start, x
<1>4. Duo!Loop(start, <<>>) = start
  BY <1>1, <1>2, <1>3, LoopAppended
<1> QED
  BY <1>4 DEF start

\* A notification that arrives.
LEMMA DuoNotified ==
  ASSUME DuoInv, Duo!Notify
  PROVE  DuoInv'
<1> DEFINE r == Duo!Decode(note, decoder.counts, decoder.time, decoder.endOfQueue)
           size == Duo!PayloadBytes(note)
<1>1. /\ note' = <<>> /\ owed' = <<>> /\ owedAck' = FALSE
      /\ decoder' = [counts |-> r.counts, time |-> r.time, endOfQueue |-> r.endOfQueue]
      /\ result' = [events |-> r.events, needsAck |-> r.needsAck,
                    counts |-> r.counts, time |-> r.time]
      /\ expected' = [events |-> owed, needsAck |-> owedAck, counts |-> bCount,
                      time |-> bTime]
      /\ UNCHANGED <<use, doing, bCount, bTime, bQueueing>>
  BY DEF Duo!Notify
<1>2. size \in Nat /\ size = Duo!Bytes(Duo!TotalBits(note)) + 1
      /\ Duo!Bytes(Duo!TotalBits(note)) \in Nat
  <2>1. Duo!TotalBits(note) \in Nat
    <3> DEFINE x == [button |-> 0, hasDelta |-> FALSE, delta |-> 0, timeDelta |-> 0,
                     code |-> 0, extra |-> FALSE, gesture |-> "none", queueBits |-> <<>>]
    <3>1. x \in DuoUpdates
      BY DEF DuoUpdates, Duo!Buttons, Duo!Gestures
    <3> HIDE DEF x
    <3> QED
      BY <3>1, BitsAppended DEF DuoInv, DuoTypes
  <2>2. Duo!Bytes(Duo!TotalBits(note)) \in Nat
    BY <2>1 DEF Duo!Bytes
  <2> QED
    BY <2>2 DEF Duo!PayloadBytes
<1>3. Duo!Loop(DuoStart(size), note) = DuoRead(size)
  <2> HIDE DEF size
  <2> QED
    BY <1>2 DEF DuoInv
<1>4. r = DuoRead(size)
  <2> DEFINE read == Duo!Loop(DuoStart(size), note)
             end == Duo!DecodeUpdate(read, Duo!Padding(read))
  <2>1. r = IF end.truncated THEN DuoStart(size) ELSE end
    BY DEF Duo!Decode, DuoStart
  <2> HIDE DEF r, size
  <2>2. read = DuoRead(size)
    BY <1>3
  <2> HIDE DEF read
  <2>3. read.position = Duo!TotalBits(note) /\ read.size = size /\ read.truncated = FALSE
    BY <2>2 DEF DuoRead
  <2>4. ~Duo!MorePayload(read)
    BY <1>2, <2>3 DEF Duo!MorePayload, Duo!UnreadBytes
  <2>5. end = read
    BY <2>4 DEF Duo!DecodeUpdate
  <2> QED
    BY <2>1, <2>2, <2>3, <2>5
<1> HIDE DEF r
<1>5. /\ r.counts = bCount /\ r.time = bTime /\ r.endOfQueue = ~bQueueing
      /\ r.events = owed /\ r.needsAck = owedAck
  BY <1>4 DEF DuoRead
<1>6. result' = expected'
  BY <1>1, <1>5
<1>7. decoder' = [counts |-> bCount, time |-> bTime, endOfQueue |-> ~bQueueing]
  BY <1>1, <1>5
<1>8. DuoTypes'
  <2>1. <<>> \in Seq(DuoUpdates) /\ <<>> \in Seq(DuoReports)
    OBVIOUS
  <2>2. decoder' \in [counts : [Duo!Buttons -> Nat], time : Nat, endOfQueue : BOOLEAN]
    BY <1>7 DEF DuoInv, DuoTypes
  <2> QED
    BY <1>1, <2>1, <2>2 DEF DuoInv, DuoTypes
<1>9. ASSUME NEW other \in Nat
      PROVE  Duo!Loop(DuoStart(other)', note') = DuoRead(other)'
  <2> DEFINE start == [counts |-> bCount, got |-> {}, time |-> bTime,
                       endOfQueue |-> ~bQueueing, events |-> <<>>, needsAck |-> FALSE,
                       position |-> 0, size |-> other, truncated |-> FALSE]
  <2>1. Duo!TotalBits(<<>>) = 0
    <3> DEFINE x == [button |-> 0, hasDelta |-> FALSE, delta |-> 0, timeDelta |-> 0,
                     code |-> 0, extra |-> FALSE, gesture |-> "none", queueBits |-> <<>>]
    <3>1. x \in DuoUpdates /\ <<>> \in Seq(DuoUpdates)
      BY DEF DuoUpdates, Duo!Buttons, Duo!Gestures
    <3> HIDE DEF x
    <3> QED
      BY <3>1, BitsAppended
  <2>2. DuoStart(other)' = start
    BY <1>7 DEF DuoStart
  <2>3. {note'[i].button : i \in DOMAIN note'} = {}
    BY <1>1
  <2>4. DuoRead(other)' = start
    BY <1>1, <2>1, <2>3 DEF DuoRead
  <2>5. Duo!Loop(start, <<>>) = start
    <3>1. bCount \in [Duo!Buttons -> Nat] /\ bTime \in Nat /\ (~bQueueing) \in BOOLEAN
      BY DEF DuoInv, DuoTypes
    <3> QED
      BY <3>1, NothingRead
  <2> HIDE DEF start
  <2> QED
    BY <1>1, <2>2, <2>4, <2>5
<1> QED
  BY <1>6, <1>8, <1>9 DEF DuoInv

\* A Duo at rest.
LEMMA DuoStarts ==
  ASSUME Duo!Init
  PROVE  DuoInv
<1>1. /\ use \in Uses /\ doing = [b \in Duo!Buttons |-> Duo!Idle]
      /\ bCount = [b \in Duo!Buttons |-> 0] /\ bTime = 0 /\ bQueueing \in BOOLEAN
      /\ note = <<>> /\ owed = <<>> /\ owedAck = FALSE
      /\ decoder = [counts |-> bCount, time |-> 0, endOfQueue |-> ~bQueueing]
      /\ result = expected
  BY DEF Duo!Init
<1>2. bCount \in [Duo!Buttons -> Nat]
  BY <1>1
<1>3. DuoTypes
  <2>1. <<>> \in Seq(DuoUpdates) /\ <<>> \in Seq(DuoReports)
    OBVIOUS
  <2>2. decoder \in [counts : [Duo!Buttons -> Nat], time : Nat, endOfQueue : BOOLEAN]
    BY <1>1, <1>2
  <2> QED
    BY <1>1, <1>2, <2>1, <2>2 DEF DuoTypes
<1>4. ASSUME NEW size \in Nat PROVE Duo!Loop(DuoStart(size), note) = DuoRead(size)
  <2> DEFINE start == [counts |-> bCount, got |-> {}, time |-> bTime,
                       endOfQueue |-> ~bQueueing, events |-> <<>>, needsAck |-> FALSE,
                       position |-> 0, size |-> size, truncated |-> FALSE]
  <2>1. Duo!TotalBits(<<>>) = 0
    <3> DEFINE x == [button |-> 0, hasDelta |-> FALSE, delta |-> 0, timeDelta |-> 0,
                     code |-> 0, extra |-> FALSE, gesture |-> "none", queueBits |-> <<>>]
    <3>1. x \in DuoUpdates /\ <<>> \in Seq(DuoUpdates)
      BY DEF DuoUpdates, Duo!Buttons, Duo!Gestures
    <3> HIDE DEF x
    <3> QED
      BY <3>1, BitsAppended
  <2>2. DuoStart(size) = start
    BY <1>1 DEF DuoStart
  <2>3. {note[i].button : i \in DOMAIN note} = {}
    BY <1>1
  <2>4. DuoRead(size) = start
    BY <1>1, <2>1, <2>3 DEF DuoRead
  <2>5. Duo!Loop(start, <<>>) = start
    <3>1. bTime \in Nat /\ (~bQueueing) \in BOOLEAN
      BY <1>1
    <3> QED
      BY <1>2, <3>1, NothingRead
  <2> HIDE DEF start
  <2> QED
    BY <1>1, <2>2, <2>4, <2>5
<1> QED
  BY <1>1, <1>3, <1>4 DEF DuoInv

\* Every step of a Duo keeps the invariant.
LEMMA DuoSteps ==
  ASSUME DuoInv, Duo!Next \/ UNCHANGED Duo!vars
  PROVE  DuoInv'
<1>1. ASSUME NEW b \in use.pressed, NEW d \in Duo!Continuations(b),
             NEW place \in DOMAIN Duo!QueueBits, NEW gap \in Gaps \cup {0},
             Duo!Update(b, d, place, gap)
      PROVE  DuoInv'
  BY <1>1, DuoUpdated
<1>2. CASE Duo!Notify
  BY <1>2, DuoNotified
<1>3. CASE UNCHANGED Duo!vars
  BY <1>3 DEF Duo!vars, Duo!duoVars, Duo!decoderVars, DuoInv, DuoTypes, DuoStart, DuoRead
<1> QED
  BY <1>1, <1>2, <1>3 DEF Duo!Next

-----------------------------------------------------------------------------
(* Both decoders *)

\* What holds of the decoder that a behaviour is about.
DecoderInv ==
    /\ subject = "duo" => DuoInv
    /\ subject = "classic" => ClassicInv

\* Both decoders start with it and keep it.
LEMMA DecoderInvariant == Spec => []DecoderInv
<1>1. Init => DecoderInv
  BY DuoStarts, ClassicStarts DEF Init, DecoderInv
<1>2. DecoderInv /\ [Next]_vars => DecoderInv'
  <2> SUFFICES ASSUME DecoderInv, [Next]_vars PROVE DecoderInv'
    OBVIOUS
  <2>1. subject' = subject
    BY DEF Next, vars
  <2>2. subject = "duo" => Duo!Next \/ UNCHANGED Duo!vars
    BY DEF Next, vars, noteVars, duoVars, Duo!vars, Duo!duoVars, Duo!decoderVars
  <2>3. subject = "classic" => Classic!Next \/ UNCHANGED Classic!vars
    BY DEF Next, vars, noteVars, classicVars, Classic!vars
  <2> QED
    BY <2>1, <2>2, <2>3, DuoSteps, ClassicSteps DEF DecoderInv
<1> QED
  BY <1>1, <1>2, PTL DEF Spec

\* decode_button_events and decode_duo_button_events report one event for each action
\* of the user, however its updates are spread over notifications.
THEOREM EventsReported == Spec => []OneEventPerAction
<1>1. DecoderInv => OneEventPerAction
  BY DEF DecoderInv, DuoInv, ClassicInv, OneEventPerAction, Duo!OneEventPerAction
<1> QED
  BY <1>1, DecoderInvariant, PTL

\* An acknowledgement is asked for exactly when a notification ends an action.
THEOREM AcksAsked == Spec => []AckEndsAction
<1>1. DecoderInv => AckEndsAction
  BY DEF DecoderInv, DuoInv, ClassicInv, AckEndsAction, Duo!AckEndsAction
<1> QED
  BY <1>1, DecoderInvariant, PTL

\* The counters and times that decode_duo_button_events rebuilds are those of the Duo.
THEOREM DuoCounts == Spec => []CountsRebuilt
<1>1. DecoderInv => CountsRebuilt
  BY DEF DecoderInv, DuoInv, CountsRebuilt, Duo!CountsRebuilt
<1> QED
  BY <1>1, DecoderInvariant, PTL
=============================================================================
