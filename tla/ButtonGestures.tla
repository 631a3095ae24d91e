---------------------------- MODULE ButtonGestures ----------------------------
(***************************************************************************)
(* What a user does with a button and the updates a Flic sends for it, as   *)
(* the decoders of protocol.py expect them.  The button is external: the    *)
(* table is read off the cases the decoders tell apart.                     *)
(***************************************************************************)
EXTENDS Naturals, Sequences

CONSTANT Swipes   \* directions of a swipe

\* The updates of one action, the user event it stands for, the update from
\* which the event is known, and the release that carries a swipe.  A release
\* that may still become a double click is followed by a timeout if it does not.
Actions == {
    [updates |-> <<"down", "up", "timeout">>,
     event |-> "single", known |-> 3, release |-> 2],
    [updates |-> <<"down", "upSingle">>,
     event |-> "single", known |-> 2, release |-> 2],
    [updates |-> <<"down", "hold", "upSingleHeld">>,
     event |-> "hold", known |-> 2, release |-> 3],
    [updates |-> <<"down", "up", "down", "upDouble">>,
     event |-> "double", known |-> 4, release |-> 4],
    [updates |-> <<"down", "up", "down", "holdDouble", "upDoubleHeld">>,
     event |-> "double", known |-> 5, release |-> 5]}

\* A movement the button does not recognize is no swipe.
Gestures == Swipes \cup {"none", "unrecognized"}

\* The user events owed for update i of an action (README.md: swipes and holds
\* without duplicate click events): a swipe replaces the click that carries it,
\* while a hold is known before the swipe is.
Owed(action, i, gesture) ==
    IF gesture \in Swipes
      THEN IF i = action.release THEN <<gesture>>
           ELSE IF i = action.known /\ action.event = "hold" THEN <<"hold">> ELSE <<>>
      ELSE IF i = action.known THEN <<action.event>> ELSE <<>>

Ends(action, i) == i = Len(action.updates)
=============================================================================
