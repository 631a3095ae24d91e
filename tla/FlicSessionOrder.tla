---------------------------- MODULE FlicSessionOrder ----------------------------
(***************************************************************************)
(* What is invariably true of the order and the numbers of the packets on  *)
(* their way to a FlicSession, if nobody but the button has the session    *)
(* key, and of what reaches the session of an honest set-up.               *)
(***************************************************************************)
EXTENDS FlicSessionInvariant

\* Nobody else signs packets of the session's logical connection.
KeySecret == \A p \in Strays[setup] : OwnSigned(p) => p.conn # OwnConn

\* A packet that the button signed for the session.
Mine(p) == OwnSigned(p) /\ p.conn = OwnConn

\* An unsigned answer of the button in the handshake.
Unsigned(p) ==
    /\ p.conn = OwnConn
    /\ p.op \in {"FULL_VERIFY_RESPONSE_1", "FULL_VERIFY_FAIL_RESPONSE",
                 "QUICK_VERIFY_NEGATIVE_RESPONSE"}

(* Fragments *)

\* The pieces of a packet are followed by the rest of it, unless that is lost.
FragmentsTogether ==
    /\ pendingFragment # <<>> =>
         /\ Len(pendingFragment) = 1
         /\ IF downlink = <<>> THEN broken ELSE downlink[1] = Whole(pendingFragment[1])
    /\ \A i \in 1..Len(downlink) :
         downlink[i].more =>
            LET p == downlink[i].packets[1] IN
            /\ downlink[i] = Piece(p)
            /\ IF i = Len(downlink) THEN broken ELSE downlink[i + 1] = Whole(p)

\* Only events are notified together.
Bundle(s) == Len(s) > 1 => \A i \in 1..Len(s) : Mine(s[i]) /\ s[i].op = "BUTTON_EVENT"
BundlesOfEvents ==
    /\ \A h \in Coros : Bundle(packets[h])
    /\ \A v \in Elements(downlink) : Bundle(v.packets)

(* Numbers *)

\* A packet that the button signed has the number of its place in the session.
Numbered(p) ==
    Mine(p) =>
      /\ p.fault = "none"
      /\ \/ p.sig[2] = 0 /\ p.op \in {"FULL_VERIFY_RESPONSE_2", "QUICK_VERIFY_RESPONSE"}
         \/ p.sig[2] = 1 /\ p.op = "INIT_RESPONSE"
         \/ p.sig[2] > 1 /\ p.op \in {"BUTTON_EVENT", "PING_REQUEST",
                                      "GET_BATTERY_LEVEL_RESPONSE",
                                      "DISCONNECT_VERIFIED_LINK"}
      /\ p.op = "DISCONNECT_VERIFIED_LINK" => bState = "closed"

PacketsNumbered == \A p \in Arriving : Numbered(p)

\* How far each side has counted, at each point of the handshake.
CountersTrue ==
    /\ bState \in {"idle", "offered"} => bTx = 0
    /\ bState = "verified" => bTx = 1
    /\ ButtonOpen => bTx > 1
    /\ ~started \/ state \notin {"ESTABLISHED", "FAILED"} => rxCounter = 0
    /\ state = "ESTABLISHED" => 1 <= rxCounter /\ rxCounter <= bTx
    /\ state = "ESTABLISHED" /\ rxCounter > 1 => ready
    /\ ready /\ failure = NoFailure => rxCounter > 1

(* Order *)

\* p is to be handled before q, if both are the button's.  An honest button has
\* at most one unsigned answer on its way and nothing else with it.
Own(p) == Mine(p) \/ (setup.honest /\ Unsigned(p))
Rank(p) == IF Mine(p) THEN p.sig[2] + 1 ELSE 0
Before(p, q) == Own(p) /\ Own(q) => Rank(p) < Rank(q)

Ascending(s) == \A i, j \in 1..Len(s) : i < j => Before(s[i], s[j])
AllBefore(S, T) == \A p \in S, q \in T : Before(p, q)
Apart(S, T) == \A p \in S, q \in T : Own(p) /\ Own(q) => Rank(p) # Rank(q)

\* Handlers, fragments and the link are in the order of the button's packets.
InOrder ==
    /\ \A h \in Coros :
         /\ Ascending(packets[h])
         /\ AllBefore(Elements(packets[h]), Elements(pendingFragment))
         /\ \A v \in Elements(downlink) : AllBefore(Elements(packets[h]), Elements(v.packets))
         /\ \A g \in Coros \ {h} : Apart(Elements(packets[g]), Elements(packets[h]))
    /\ \A v \in Elements(downlink) : Ascending(v.packets)
    /\ \A i, j \in 1..Len(downlink) :
         i < j /\ ~(downlink[i].more /\ j = i + 1) =>
            AllBefore(Elements(downlink[i].packets), Elements(downlink[j].packets))
    /\ \A j \in 2..Len(downlink) :
         AllBefore(Elements(pendingFragment), Elements(downlink[j].packets))

\* What was handled is not on its way any more.
NoneBehind ==
    state # "FAILED" => \A p \in Arriving : Mine(p) => p.sig[2] >= rxCounter

\* No packet before one on its way is missing; while the link lasts, none at all.
NoneMissing ==
    state = "ESTABLISHED" =>
       /\ \A p \in Arriving : Mine(p) =>
            \A n \in rxCounter .. p.sig[2] : \E q \in Arriving : Mine(q) /\ q.sig[2] = n
       /\ ~broken =>
            \A n \in rxCounter .. bTx - 1 : \E q \in Arriving : Mine(q) /\ q.sig[2] = n

(* Event counts *)

\* A packet that tells an event count.
Counted(p) == Mine(p) /\ p.op \in {"INIT_RESPONSE", "BUTTON_EVENT"}

\* The next event count is one more than that of the last packet that told one.
CountsFollow ==
    state = "ESTABLISHED" =>
       /\ \A p \in Arriving : Mine(p) /\ p.op = "BUTTON_EVENT" =>
            \/ rxCounter > 1 /\ p.count = eventCount + 1
            \/ \E q \in Arriving : /\ Counted(q) /\ q.sig[2] < p.sig[2]
                                   /\ p.count = q.count + 1
       /\ ~broken /\ ButtonOpen =>
            \/ rxCounter > 1 /\ bCount = eventCount
            \/ \E q \in Arriving : Counted(q) /\ q.count = bCount

Numbers ==
    /\ PacketsNumbered /\ CountersTrue
    /\ NoneBehind /\ NoneMissing /\ CountsFollow

Lines == FragmentsTogether /\ BundlesOfEvents /\ InOrder

OrderInv == KeySecret => Lines /\ Numbers

(* Honest set-ups *)

\* What an honest button sends.
FromHonest(p) ==
    /\ p.conn = OwnConn
    /\ p.fault = "none" \/ (p.op = "FULL_VERIFY_RESPONSE_1" /\ p.fault = "mode")
    /\ Mine(p) \/ Unsigned(p) \/ p.op = "NO_LOGICAL_CONNECTION_SLOTS"
    /\ p.op \in {"FULL_VERIFY_RESPONSE_1", "QUICK_VERIFY_RESPONSE"} => p.new

\* An unsigned answer is on its way only until the session goes on.
AnswerTrue(p) ==
    Unsigned(p) =>
      /\ Answered /\ bState \in {"idle", "offered"}
      /\ state = "FAILED" \/ state = CASE p.op = "FULL_VERIFY_RESPONSE_1" -> "WAIT_FULL_VERIFY_1"
                              [] p.op = "FULL_VERIFY_FAIL_RESPONSE" -> "WAIT_FULL_VERIFY_2"
                              [] OTHER -> "WAIT_QUICK_VERIFY"

AnswersTrue ==
    \A p \in Arriving : (Foreign(p) \/ (started /\ FromHonest(p))) /\ AnswerTrue(p)

\* Until the session is ready only the running handler has packets, with the lock
\* or without: nothing else is notified.
OneByOne == ~ready => \A h \in Coros : h # current => packets[h] = <<>>

\* A session that was started has a decision or waits, and one that was not has
\* nothing to say.
FailuresTrue ==
    /\ started => state # "IDLE"
    /\ writing # {} => started
    /\ failure # NoFailure => started /\ state = "FAILED" /\ ready
    /\ state = "FAILED" => failure # NoFailure

HonestSession == AnswersTrue /\ OneByOne /\ FailuresTrue /\ NoSpuriousFailure

HonestInv == setup.honest => HonestSession

\* All that is invariably true of a session.
SessionInv == IInv /\ OrderInv /\ HonestInv
=============================================================================
