--------------------------- MODULE ReliableDelivery ---------------------------
(***************************************************************************)
(* What the integration promises about the events of one button: those of  *)
(* one boot are handled from the first on and without a gap, and the       *)
(* button forgets none that was not handled.  EventDelivery implements     *)
(* this specification across reconnects, reloads, crashes and reboots.     *)
(***************************************************************************)
EXTENDS Naturals

CONSTANT Boots   \* the boots of the button

VARIABLES
    pressed,    \* per boot, how many events the button has recorded
    handled,    \* per boot, the counts Home Assistant has handled
    forgotten   \* per boot, the count up to which the button forgot events

RInit ==
    /\ pressed = [b \in Boots |-> 0]
    /\ handled = [b \in Boots |-> {}]
    /\ forgotten = [b \in Boots |-> 0]

RPress(b) ==
    /\ pressed' = [pressed EXCEPT ![b] = @ + 1]
    /\ UNCHANGED <<handled, forgotten>>

\* Several events may be handled at once, but none is skipped.
RHandle(b, n) ==
    /\ n \in 1..pressed[b]
    /\ handled[b] \subseteq 1..n
    /\ handled' = [handled EXCEPT ![b] = 1..n]
    /\ UNCHANGED <<pressed, forgotten>>

RForget(b, n) ==
    /\ n > forgotten[b]
    /\ 1..n \subseteq handled[b]
    /\ forgotten' = [forgotten EXCEPT ![b] = n]
    /\ UNCHANGED <<pressed, handled>>

RNext ==
    \E b \in Boots :
        \/ RPress(b)
        \/ \E n \in 1..pressed[b] : RHandle(b, n) \/ RForget(b, n)

RSpec == RInit /\ [][RNext]_<<pressed, handled, forgotten>>
=============================================================================
