----------------------------- MODULE ClassicEvents -----------------------------
(***************************************************************************)
(* decode_button_events and button_events_need_ack (protocol.py) against a  *)
(* round Flic that splits its updates into notifications wherever it likes. *)
(***************************************************************************)
EXTENDS ButtonGestures

\* Swipes is empty: a round Flic reports none.
CONSTANT MaxCount   \* bound on the updates of a run

VARIABLES
    doing,     \* the action in progress and its next update
    queueing,  \* updates are still those of the queue
    count,     \* the button's count of updates
    note,      \* the items of the notification being filled
    owed,      \* the events the notification must be decoded to
    owedAck,   \* the notification ends a click or a hold
    result,    \* what the session makes of the last notification
    expected   \* history: what it should be

vars == <<doing, queueing, count, note, owed, owedAck, result, expected>>

\* The four bits of an item: 8 is a release with details, where 4 says that the
\* press was a hold, 2 that the click is known and 1 that it is a double one.
Encoded == [down |-> {1}, up |-> {0, 8}, upSingle |-> {10}, upSingleHeld |-> {14},
            upDouble |-> {11}, upDoubleHeld |-> {15}, timeout |-> {2}, hold |-> {3},
            holdDouble |-> {7}]

Bit(n, weight) == (n \div weight) % 2 = 1

BaseType(e) == IF Bit(e, 8) THEN 0 ELSE e % 4

EventType(e) ==
    IF Bit(e, 8)
      THEN IF ~Bit(e, 2) THEN <<>>
           ELSE IF Bit(e, 1) THEN <<"double">>
           ELSE IF Bit(e, 4) THEN <<>> ELSE <<"single">>
      ELSE CASE BaseType(e) = 2 -> <<"single">>
             [] BaseType(e) = 3 /\ e # 7 -> <<"hold">>
             [] OTHER -> <<>>

\* decode_button_events: every event of a notification bears its final count.
Reported(item, final) ==
    [i \in DOMAIN EventType(item.encoded) |->
        [type |-> EventType(item.encoded)[i], count |-> final,
         queued |-> item.queued, time |-> item.time]]

Decode(items, final) ==
    LET events[n \in 0..Len(items)] ==
            IF n = 0 THEN <<>> ELSE events[n - 1] \o Reported(items[n], final)
    IN events[Len(items)]

\* Mutant: only timeouts are acknowledged.
MutNeedAckTimeouts(items) == \E i \in DOMAIN items : items[i].encoded = 2

\* button_events_need_ack tests the low bits of any item: 10 and 14 count as a
\* timeout as well, which asks for nothing more.
NeedAck(items) ==
    \E i \in DOMAIN items :
        LET e == items[i].encoded IN e % 4 = 2 \/ (Bit(e, 8) /\ Bit(e, 2))

-----------------------------------------------------------------------------
Idle == [action |-> [updates |-> <<>>], next |-> 1]
NoResult == [events |-> <<>>, needsAck |-> FALSE]

Init ==
    /\ doing = Idle /\ queueing \in BOOLEAN /\ count = 0
    /\ note = <<>> /\ owed = <<>> /\ owedAck = FALSE
    /\ result = NoResult /\ expected = NoResult

\* What the user may be doing: any action if the button is at rest.
Continuations == IF doing = Idle THEN {[action |-> a, next |-> 1] : a \in Actions} ELSE {doing}

\* The button adds the next update of an action d to the notification.
Update(d, encoded, queued) ==
    LET kind == d.action.updates[d.next]
        types == Owed(d.action, d.next, "none")
    IN
    /\ count < MaxCount /\ count' = count + 1
    /\ encoded \in Encoded[kind]
    /\ queued => queueing
    /\ queueing' = queued
    /\ note' = Append(note, [encoded |-> encoded, queued |-> queued, time |-> count])
    /\ owed' = owed \o [i \in DOMAIN types |->
                          [type |-> types[i], queued |-> queued, time |-> count]]
    /\ owedAck' = (owedAck \/ Ends(d.action, d.next))
    /\ doing' = IF Ends(d.action, d.next) THEN Idle ELSE [d EXCEPT !.next = @ + 1]
    /\ result' = NoResult /\ expected' = NoResult

\* The notification arrives with the count of its last update.
Notify ==
    /\ note # <<>> /\ note' = <<>> /\ owed' = <<>> /\ owedAck' = FALSE
    /\ result' = [events |-> Decode(note, count), needsAck |-> NeedAck(note)]
    /\ expected' = [events |-> [i \in DOMAIN owed |->
                       [type |-> owed[i].type, count |-> count,
                        queued |-> owed[i].queued, time |-> owed[i].time]],
                    needsAck |-> owedAck]
    /\ UNCHANGED <<doing, queueing, count>>

Next ==
    \/ \E d \in Continuations, encoded \in 0..15, queued \in BOOLEAN :
         Update(d, encoded, queued)
    \/ Notify

Spec == Init /\ [][Next]_vars

-----------------------------------------------------------------------------
\* Each action of the user becomes one event with its own time and place in the
\* queue, in whatever notifications its updates travel: a hold is not also a
\* click on its release, and the press that begins a double click is none.
OneEventPerAction == result.events = expected.events

\* A notification asks for an acknowledgement exactly when it ends an action:
\* the button may forget a finished click or hold, and none that goes on.
AckEndsAction == result.needsAck = expected.needsAck
=============================================================================
