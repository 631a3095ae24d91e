------------------------------- MODULE DuoEvents -------------------------------
(***************************************************************************)
(* decode_duo_button_events (protocol.py) against a Duo that packs the      *)
(* updates of its two buttons into notifications wherever it likes.         *)
(*                                                                         *)
(* An update is a record of the fields of the bitstream; a count or a time  *)
(* is sent as a difference, a queue position by the bits that change it.    *)
(* Bits appear as the number of them an update takes, which decides where   *)
(* the decoder stops.  The time advances by one from update to update.      *)
(***************************************************************************)
EXTENDS ButtonGestures

CONSTANTS
    Gaps,  \* how far counts jump when the Duo dropped clicks
    Uses   \* what a run is about: the buttons pressed, of 0 and 1, and the
           \* bounds on the updates of the run and of one notification

VARIABLES
    use,       \* what this run is about
    doing,     \* per button: the action in progress, its next update and gesture
    bCount,    \* per button: its event count
    bTime,     \* the Duo's time of the last update
    bQueueing, \* updates are still those of the queue
    note,      \* the updates of the notification being filled
    owed,      \* the events the notification must be decoded to
    owedAck,   \* the notification ends an action
    decoder,   \* what the session keeps from one notification to the next
    result,    \* the last DuoDecodeResult
    expected   \* history: what it should have been

duoVars == <<use, doing, bCount, bTime, bQueueing, note, owed, owedAck>>
decoderVars == <<decoder, result, expected>>
vars == <<duoVars, decoderVars>>

Buttons == {0, 1}   \* big and small

Idle == [action |-> [updates |-> <<>>], next |-> 1, gesture |-> "none"]

Code == [down |-> 5, up |-> 0, upSingle |-> 1, upSingleHeld |-> 2, upDouble |-> 3,
         upDoubleHeld |-> 4, timeout |-> 6, hold |-> 7, holdDouble |-> 7]

-----------------------------------------------------------------------------
\* The decoder.

\* The bits of one update: _BitReader.read is called for each of its fields.
DeltaBits(delta) ==
    CASE delta = 0 -> 1
      [] delta = 1 -> 2
      [] delta \in 2..3 -> 4 + 2
      [] delta \in 4..15 -> 4 + 4
      [] delta \in 16..255 -> 4 + 8
      [] OTHER -> 4 + 32

GestureBits(gesture) ==
    CASE gesture = "none" -> 1
      [] gesture = "unrecognized" -> 2
      [] OTHER -> 4

Bits(u) ==
    1 + (IF u.hasDelta THEN DeltaBits(u.delta) ELSE 0)
      + 3 + 8 + Len(u.queueBits) + 3
      + (IF u.code \in {4, 7} THEN 1 ELSE 0)
      + (IF u.code \in 0..4 \cup {6} THEN GestureBits(u.gesture) ELSE 0)
      + 24

Bytes(bits) == (bits + 7) \div 8

UnreadBytes(acc) == acc.size - Bytes(acc.position)

\* Mutant: the final byte is taken for an update.
MutMorePayloadAny(acc) == UnreadBytes(acc) > 0

\* What is left of the current byte and a final byte are padding.
MorePayload(acc) == UnreadBytes(acc) > 1

\* Mutant: one flag for both buttons.
MutReadCountShared(acc, u) ==
    IF acc.got = {} THEN acc.counts[u.button] + u.delta + 1 ELSE acc.counts[u.button] + 1

\* The count of the update: a difference in the first update of a button in a
\* notification, one more than the last in the others.
ReadCount(acc, u) ==
    IF u.button \notin acc.got
      THEN acc.counts[u.button] + u.delta + 1
      ELSE acc.counts[u.button] + 1

\* Presses and releases have odd counts.
Adjust(code, count) == IF code <= 5 /\ count % 2 = 0 THEN count + 1 ELSE count

Queued(acc, u) ==
    ~acc.endOfQueue /\ (u.queueBits[1] = 0 \/ u.queueBits[2] = 0)

EndsQueue(acc, u) == acc.endOfQueue \/ u.queueBits[1] = 1

\* Mutant: the repeated gesture of a timeout is not taken into account.
MutClickRepeated(u) ==
    CASE u.code = 1 -> <<"single">>
      [] u.code \in {3, 4} -> <<"double">>
      [] u.code = 6 -> <<"single">>
      [] u.code = 7 /\ ~u.extra -> <<"hold">>
      [] OTHER -> <<>>

\* The click or hold an update reports, unless it carries a swipe.
Click(u) ==
    IF u.gesture \in Swipes /\ u.code # 7 THEN <<>>
    ELSE CASE u.code = 1 -> <<"single">>
           [] u.code \in {3, 4} -> <<"double">>
           [] u.code = 6 -> <<"single">>
           [] u.code = 7 /\ ~u.extra -> <<"hold">>
           [] OTHER -> <<>>

\* The swipe of a release; a timeout repeats it.
Swipe(u) == IF u.code <= 4 /\ u.gesture \in Swipes THEN <<u.gesture>> ELSE <<>>

AsksAck(u) == u.code \in {1, 2, 3, 4, 6}

\* One turn of the loop.  read raises beyond the end of the payload, which is
\* noted in truncated.
DecodeUpdate(acc, u) ==
    IF ~MorePayload(acc) THEN acc
    ELSE LET count == Adjust(u.code, ReadCount(acc, u))
             time == acc.time + u.timeDelta
             event(type) == [type |-> type, button |-> u.button, count |-> count,
                             queued |-> Queued(acc, u), time |-> time]
             types == Click(u) \o Swipe(u)
         IN [acc EXCEPT !.counts[u.button] = count,
                        !.got = @ \cup {u.button},
                        !.time = time,
                        !.endOfQueue = EndsQueue(acc, u),
                        !.events = @ \o [i \in DOMAIN types |-> event(types[i])],
                        !.needsAck = @ \/ AsksAck(u),
                        !.position = @ + Bits(u),
                        !.truncated = @ \/ acc.position + Bits(u) > 8 * acc.size]

\* The payload: whole bytes and a final one that is padding.
TotalBits(us) ==
    LET bits[n \in 0..Len(us)] == IF n = 0 THEN 0 ELSE bits[n - 1] + Bits(us[n])
    IN bits[Len(us)]

PayloadBytes(us) == Bytes(TotalBits(us)) + 1

\* The loop, over the updates of a notification.
Loop(start, us) ==
    LET acc[n \in 0..Len(us)] == IF n = 0 THEN start ELSE DecodeUpdate(acc[n - 1], us[n])
    IN acc[Len(us)]

\* The update that the zeros of the padding would be read as.
Padding(acc) ==
    [button |-> 0, hasDelta |-> 0 \notin acc.got, delta |-> 0, timeDelta |-> 0, code |-> 0,
     extra |-> FALSE, gesture |-> "none",
     queueBits |-> IF acc.endOfQueue THEN <<>> ELSE <<0>>]

\* The loop goes on behind the last update if it takes the padding for one; a
\* truncated payload raises, and nothing of it is kept.
Decode(us, counts, time, endOfQueue) ==
    LET start == [counts |-> counts, got |-> {}, time |-> time, endOfQueue |-> endOfQueue,
                  events |-> <<>>, needsAck |-> FALSE, position |-> 0,
                  size |-> PayloadBytes(us), truncated |-> FALSE]
        read == Loop(start, us)
        end == DecodeUpdate(read, Padding(read))
    IN IF end.truncated THEN start ELSE end

-----------------------------------------------------------------------------
NoResult == [events |-> <<>>, needsAck |-> FALSE, counts |-> [b \in Buttons |-> 0], time |-> 0]

\* A session after its init response, with or without a queue.
Init ==
    /\ use \in Uses
    /\ doing = [b \in Buttons |-> Idle]
    /\ bCount = [b \in Buttons |-> 0] /\ bTime = 0
    /\ bQueueing \in BOOLEAN
    /\ note = <<>> /\ owed = <<>> /\ owedAck = FALSE
    /\ decoder = [counts |-> bCount, time |-> 0, endOfQueue |-> ~bQueueing]
    /\ result = NoResult /\ expected = NoResult

\* What the user may be doing with a button: any action if it is at rest.
Continuations(b) ==
    IF doing[b] = Idle
      THEN {[action |-> a, next |-> 1, gesture |-> g] : a \in Actions, g \in Gestures}
      ELSE {doing[b]}

\* The places of an update in the queue, with the bits that say so.
QueueBits == [queued |-> <<0>>, lastQueued |-> <<1, 0>>, live |-> <<1, 1>>]

\* The Duo adds an update of an action d to the notification.  Clicks that it
\* dropped before the action leave a gap in its counts, which only the first
\* update of a button in a notification can express.
Update(b, d, place, gap) ==
    LET kind == d.action.updates[d.next]
        first == \A i \in DOMAIN note : note[i].button # b
        after == bCount[b] + gap + 1
        count == IF Code[kind] <= 5 /\ after % 2 = 0 THEN after + 1 ELSE after
        types == Owed(d.action, d.next, d.gesture)
    IN
    /\ Len(note) < use.note /\ bTime < use.updates
    /\ place # "live" => bQueueing
    /\ gap # 0 => d.next = 1 /\ first
    /\ note' = Append(note,
         [button |-> b, hasDelta |-> first, delta |-> IF first THEN count - bCount[b] - 1 ELSE 0,
          timeDelta |-> 1, code |-> Code[kind], extra |-> kind \in {"holdDouble", "upDoubleHeld"},
          gesture |-> IF d.next >= d.action.release THEN d.gesture ELSE "none",
          queueBits |-> IF bQueueing THEN QueueBits[place] ELSE <<>>])
    /\ owed' = owed \o [i \in DOMAIN types |->
                 [type |-> types[i], button |-> b, count |-> count,
                  queued |-> place # "live", time |-> bTime + 1]]
    /\ owedAck' = (owedAck \/ Ends(d.action, d.next))
    /\ bCount' = [bCount EXCEPT ![b] = count] /\ bTime' = bTime + 1
    /\ bQueueing' = (place = "queued")
    /\ doing' = [doing EXCEPT ![b] =
                   IF Ends(d.action, d.next) THEN Idle ELSE [d EXCEPT !.next = @ + 1]]
    /\ result' = NoResult /\ expected' = NoResult
    /\ UNCHANGED <<use, decoder>>

\* The notification arrives and is decoded with what the session kept.
Notify ==
    LET r == Decode(note, decoder.counts, decoder.time, decoder.endOfQueue) IN
    /\ note # <<>> /\ note' = <<>> /\ owed' = <<>> /\ owedAck' = FALSE
    /\ decoder' = [counts |-> r.counts, time |-> r.time, endOfQueue |-> r.endOfQueue]
    /\ result' = [events |-> r.events, needsAck |-> r.needsAck,
                  counts |-> r.counts, time |-> r.time]
    /\ expected' = [events |-> owed, needsAck |-> owedAck, counts |-> bCount, time |-> bTime]
    /\ UNCHANGED <<use, doing, bCount, bTime, bQueueing>>

Next ==
    \/ \E b \in use.pressed : \E d \in Continuations(b) :
         \E place \in DOMAIN QueueBits, gap \in Gaps \cup {0} : Update(b, d, place, gap)
    \/ Notify

Spec == Init /\ [][Next]_vars

-----------------------------------------------------------------------------
Types(events) == [i \in DOMAIN events |-> <<events[i].button, events[i].type>>]

\* Each action of the user becomes one event of its button, in whatever
\* notifications its updates travel: a swipe is not also a click, a hold is not
\* also a click on its release, and no update is skipped or read from padding.
OneEventPerAction == Types(result.events) = Types(expected.events)

\* The counters and times rebuilt from differences are those of the Duo, so what
\* is stored and acknowledged for each button is what it sent.
CountsRebuilt ==
    /\ result.counts = expected.counts /\ result.time = expected.time
    /\ result.events = expected.events

\* A notification asks for an acknowledgement exactly when it ends an action:
\* the Duo may forget a finished click or hold, and none that goes on.
AckEndsAction == result.needsAck = expected.needsAck
=============================================================================
