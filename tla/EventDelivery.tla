----------------------------- MODULE EventDelivery -----------------------------
(***************************************************************************)
(* The way of a button event into Home Assistant: the counts a session      *)
(* starts from and stores in the config entry, the listeners of the event   *)
(* entity, acknowledgements, and what reconnects, reloads, crashes of Home  *)
(* Assistant and reboots of the button do to them (runtime.py, __init__.py, *)
(* event.py, and _handle_established in protocol.py).                       *)
(*                                                                         *)
(* Handlers of one session take turns (the notification lock), so a session *)
(* has one queue of notifications and at most one handler that is suspended *)
(* in writing an acknowledgement.  Sessions of an earlier connection, or of *)
(* the FlicDevice before a reload, may still have work left.                *)
(***************************************************************************)
EXTENDS Naturals, Sequences

CONSTANTS
    Sessions,    \* FlicSession objects
    NoSession,   \* the button has no link
    MaxBoot,     \* bound on the boots of the button
    MaxPress,    \* bound on the events of one boot
    Budgets      \* what may go wrong in a run: see BudgetAssumption

ASSUME SessionAssumption == NoSession \notin Sessions
ASSUME BootAssumption == MaxBoot \in Nat \ {0}
ASSUME BoundAssumption == MaxPress \in Nat

\* Bounds on the presses of one boot, crashes of Home Assistant, unloads of the
\* entry, losses of the link and reboots of the button.  In a calm run nothing
\* crashes and a connection is only made when the earlier ones have no work left.
BudgetRecords ==
    [press : 0..MaxPress, crash : Nat, unload : Nat, loss : Nat, reboot : Nat,
     calm : BOOLEAN]

ASSUME BudgetAssumption ==
    /\ Budgets \subseteq BudgetRecords
    /\ \A b \in Budgets : b.calm => b.crash = 0

VARIABLES
    phase,      \* the config entry: see Phases
    listening,  \* the event entity is in self._event_listeners
    entryData,  \* event count and boot id in entry.data
    disk,       \* the same in the stored copy of the entry
    session,    \* per session: its state, result, and whether the current
                \* FlicDevice made it
    inbox,      \* per session: notifications not handled yet, in order
    acking,     \* sessions with a handler suspended in the write of an ack
    acks,       \* per session: acks on their way to the button
    link,       \* the session the button is connected to
    boot,       \* the button: its boot id
    pressed,    \* the button: events recorded, per boot
    forgotten,  \* the button: events acknowledged, per boot
    serving,    \* the button: it has answered the init request
    sent,       \* the button: the last count it notified on this link
    handled,    \* history: counts passed to _handle_event, per boot
    heard,      \* history: those some listener was given
    left        \* one of Budgets, less what has gone wrong so far

entryVars == <<phase, listening>>
dataVars == <<entryData, disk>>
sessionVars == <<session, inbox, acking>>
linkVars == <<acks, link>>
buttonVars == <<boot, pressed, forgotten, serving, sent>>
historyVars == <<handled, heard>>
vars == <<entryVars, dataVars, sessionVars, linkVars, buttonVars, historyVars, left>>

\* "stuck" is an entry whose platforms failed to unload.
Phases == {"unloaded", "starting", "loaded", "unloading", "stuck"}

Boots == 1..MaxBoot

Counters == [count : 0..MaxPress, boot : Boots \cup {0}]

Higher(a, b) == IF a > b THEN a ELSE b

\* The FlicDevice may start connections: it exists and was not stopped.
Running == phase # "unloaded"

\* Nothing is left to do for s.
Drained(s) == link # s /\ inbox[s] = <<>> /\ s \notin acking

-----------------------------------------------------------------------------
\* An entry as pairing leaves it, and a button that has just booted.
Init ==
    /\ phase = "unloaded" /\ listening = FALSE
    /\ entryData = [count |-> 0, boot |-> 1] /\ disk = entryData
    /\ session = [s \in Sessions |->
                    [state |-> "failed", count |-> 0, boot |-> 0, current |-> FALSE]]
    /\ inbox = [s \in Sessions |-> <<>>]
    /\ acking = {}
    /\ acks = [s \in Sessions |-> <<>>] /\ link = NoSession
    /\ boot = 1
    /\ pressed = [b \in Boots |-> 0] /\ forgotten = [b \in Boots |-> 0]
    /\ serving = FALSE /\ sent = 0
    /\ handled = [b \in Boots |-> {}] /\ heard = [b \in Boots |-> {}]
    /\ left \in Budgets

-----------------------------------------------------------------------------
\* The config entry.

\* async_setup_entry up to the forwarding: the device connects from here on.
Setup ==
    /\ phase = "unloaded" /\ phase' = "starting"
    /\ UNCHANGED <<listening, dataVars, sessionVars, linkVars, buttonVars, historyVars, left>>

\* async_added_to_hass of the event entity, and the end of async_setup_entry.
Subscribe ==
    /\ phase = "starting" /\ phase' = "loaded"
    /\ listening' = TRUE
    /\ UNCHANGED <<dataVars, sessionVars, linkVars, buttonVars, historyVars, left>>

\* async_unload_platforms: the entities remove their listeners.  If one of the
\* platforms fails, async_stop is not called.
UnloadPlatforms(ok) ==
    /\ phase = "loaded" /\ left.unload > 0
    /\ phase' = IF ok THEN "unloading" ELSE "stuck"
    /\ \/ listening' = FALSE
       \/ ~ok /\ UNCHANGED listening
    /\ left' = [left EXCEPT !.unload = @ - 1]
    /\ UNCHANGED <<dataVars, sessionVars, linkVars, buttonVars, historyVars>>

\* The link of s ends.  Notifications that reached the host have their tasks;
\* the others, and the acknowledgements under way, are lost.
LinkEnds(s) ==
    /\ link' = NoSession /\ serving' = FALSE /\ sent' = 0
    /\ acks' = [acks EXCEPT ![s] = <<>>]
    /\ \E k \in 0..Len(inbox[s]) : inbox' = [inbox EXCEPT ![s] = SubSeq(@, 1, k)]

\* async_stop: the client is disconnected, the tasks of its notifications are
\* not waited for, and the next set-up makes a new FlicDevice.
StopDevice ==
    /\ phase = "unloading" /\ phase' = "unloaded"
    /\ session' = [s \in Sessions |-> [session[s] EXCEPT !.current = FALSE]]
    /\ IF link = NoSession
         THEN UNCHANGED <<linkVars, inbox, serving, sent>>
         ELSE LinkEnds(link)
    /\ UNCHANGED <<listening, dataVars, acking, boot, pressed, forgotten, historyVars, left>>

\* Home Assistant writes the entry to disk some time after it changed.
Save ==
    /\ disk # entryData /\ disk' = entryData
    /\ UNCHANGED <<entryVars, entryData, sessionVars, linkVars, buttonVars, historyVars, left>>

\* Home Assistant ends without saving and starts again.
Crash ==
    /\ left.crash > 0 /\ left' = [left EXCEPT !.crash = @ - 1]
    /\ phase' = "unloaded" /\ listening' = FALSE
    /\ entryData' = disk
    /\ session' = [s \in Sessions |->
                     [state |-> "failed", count |-> 0, boot |-> 0, current |-> FALSE]]
    /\ inbox' = [s \in Sessions |-> <<>>] /\ acking' = {}
    /\ acks' = [s \in Sessions |-> <<>>] /\ link' = NoSession
    /\ serving' = FALSE /\ sent' = 0
    /\ UNCHANGED <<disk, boot, pressed, forgotten, historyVars>>

-----------------------------------------------------------------------------
\* The session.

\* A connection attempt succeeds up to the init request, which carries the
\* counters of the entry as they were when the session was made.
Open(s) ==
    /\ Running /\ link = NoSession /\ Drained(s)
    /\ left.calm => \A r \in Sessions : Drained(r)
    /\ link' = s
    /\ session' = [session EXCEPT ![s] =
                     [state |-> "open", count |-> entryData.count,
                      boot |-> entryData.boot, current |-> TRUE]]
    /\ UNCHANGED <<entryVars, dataVars, inbox, acking, acks, buttonVars, historyVars, left>>

\* Mutant: the boot id is not stored.
MutStoreCountOnly(s) == entryData' = [entryData EXCEPT !.count = session'[s].count]

\* _handle_state: the counters of the session become those of the entry.
Store(s) ==
    entryData' = [count |-> session'[s].count, boot |-> session'[s].boot]

\* feed_gatt of the next notification, unless a handler holds the lock.
Next1(s) ==
    /\ inbox[s] # <<>> /\ s \notin acking
    /\ inbox' = [inbox EXCEPT ![s] = Tail(@)]

\* Mutant: the count of the init response is taken only if it is higher.
MutHandleInitHigher(s, m) ==
    /\ session' = [session EXCEPT ![s].count = Higher(@, m.upto), ![s].boot = m.boot]
    /\ Store(s)
    /\ UNCHANGED <<acking, acks, historyVars>>

\* The init response.  It names the boot of the button here; one without a boot id
\* leaves the session the boot of its request, which is the same unless the button
\* has rebooted meanwhile (FlicSession has both).  The two counters of a Duo are one.
HandleInit(s, m) ==
    /\ session' = [session EXCEPT ![s].count = m.upto, ![s].boot = m.boot]
    /\ Store(s)
    /\ UNCHANGED <<acking, acks, historyVars>>

\* _handle_event of the device and of the event entity: the events are fired on
\* the bus if the entity listens to the FlicDevice that made the session.
Fire(s, b, events) ==
    heard' = IF session[s].current /\ listening
               THEN [heard EXCEPT ![b] = @ \cup events]
               ELSE heard

\* Mutant: events of a session of the FlicDevice before a reload are dropped,
\* though their count is stored.
MutHandleEventsStaleDropped(s, m) ==
    /\ session' = [session EXCEPT ![s].count = m.upto]
    /\ Store(s)
    /\ handled' = IF session[s].current
                    THEN [handled EXCEPT ![m.boot] = @ \cup m.first..m.upto]
                    ELSE handled
    /\ UNCHANGED <<acking, acks, heard>>

\* Mutant: the acknowledgement carries the next expected count.
MutHandleEventsAcksNext(s, m) ==
    /\ session' = [session EXCEPT ![s].count = m.upto]
    /\ Store(s)
    /\ handled' = [handled EXCEPT ![m.boot] = @ \cup m.first..m.upto]
    /\ acks' = IF m.needsAck /\ link = s THEN [acks EXCEPT ![s] = Append(@, m.upto + 1)] ELSE acks
    /\ UNCHANGED <<acking, heard>>

\* The counts are stored, then the listeners are called, then an event that
\* asks for it is acknowledged; the handler waits for the write.
HandleEvents(s, m) ==
    LET events == m.first..m.upto IN
    /\ session' = [session EXCEPT ![s].count = m.upto]
    /\ Store(s)
    /\ handled' = [handled EXCEPT ![m.boot] = @ \cup events]
    /\ Fire(s, m.boot, events)
    /\ IF m.needsAck
         THEN /\ acks' = IF link = s
                           THEN [acks EXCEPT ![s] = Append(@, m.upto)]
                           ELSE acks
              /\ acking' = acking \cup {s}
         ELSE UNCHANGED <<acks, acking>>

Handle(s) ==
    /\ Next1(s)
    /\ session[s].state = "open"
    /\ LET m == Head(inbox[s]) IN
         IF m.kind = "init" THEN HandleInit(s, m) ELSE HandleEvents(s, m)
    /\ UNCHANGED <<entryVars, disk, link, buttonVars, left>>

\* A failed session ignores what still arrives.
Ignore(s) ==
    /\ Next1(s)
    /\ session[s].state = "failed"
    /\ UNCHANGED <<entryVars, dataVars, session, acking, linkVars, buttonVars,
                   historyVars, left>>

AckReturns(s) ==
    /\ s \in acking /\ acking' = acking \ {s}
    /\ UNCHANGED <<entryVars, dataVars, session, inbox, linkVars, buttonVars,
                   historyVars, left>>

\* The write fails: feed_gatt marks the session as failed.
AckRaises(s) ==
    /\ s \in acking /\ acking' = acking \ {s}
    /\ session' = [session EXCEPT ![s].state = "failed"]
    /\ UNCHANGED <<entryVars, dataVars, inbox, linkVars, buttonVars, historyVars, left>>

\* Mutant: the client of a failed session stays connected.
MutCloseKeepsLink(s) ==
    /\ link = s /\ session[s].state = "failed"
    /\ UNCHANGED vars

\* _process_notification disconnects the client of a failed session.
Close(s) ==
    /\ link = s /\ session[s].state = "failed"
    /\ LinkEnds(s)
    /\ UNCHANGED <<entryVars, dataVars, session, acking, boot, pressed, forgotten,
                   historyVars, left>>

-----------------------------------------------------------------------------
\* The button and the link (external).

Press ==
    /\ pressed[boot] < left.press
    /\ pressed' = [pressed EXCEPT ![boot] = @ + 1]
    /\ UNCHANGED <<entryVars, dataVars, sessionVars, linkVars, boot, forgotten, serving,
                   sent, historyVars, left>>

\* The button answers an init request with the count before the events it will
\* send: those after the count of the request if that is of this boot.
ButtonInit(s) ==
    /\ link = s /\ ~serving /\ serving' = TRUE
    /\ sent' = IF session[s].boot = boot
                 THEN Higher(session[s].count, forgotten[boot])
                 ELSE forgotten[boot]
    /\ inbox' = [inbox EXCEPT ![s] =
                   Append(@, [kind |-> "init", upto |-> sent', boot |-> boot])]
    /\ UNCHANGED <<entryVars, dataVars, session, acking, linkVars, boot, pressed, forgotten,
                   historyVars, left>>

ButtonSends(s, n, needsAck) ==
    /\ link = s /\ serving
    /\ n \in (sent + 1)..pressed[boot]
    /\ sent' = n
    /\ inbox' = [inbox EXCEPT ![s] =
                   Append(@, [kind |-> "events", first |-> sent + 1, upto |-> n,
                              boot |-> boot, needsAck |-> needsAck])]
    /\ UNCHANGED <<entryVars, dataVars, session, acking, linkVars, boot, pressed, forgotten,
                   serving, historyVars, left>>

AckArrives(s) ==
    /\ link = s /\ acks[s] # <<>>
    /\ acks' = [acks EXCEPT ![s] = Tail(@)]
    /\ forgotten' = [forgotten EXCEPT ![boot] = Higher(@, Head(acks[s]))]
    /\ UNCHANGED <<entryVars, dataVars, sessionVars, link, boot, pressed, serving, sent,
                   historyVars, left>>

LinkLost(s) ==
    /\ link = s /\ left.loss > 0
    /\ left' = [left EXCEPT !.loss = @ - 1]
    /\ LinkEnds(s)
    /\ UNCHANGED <<entryVars, dataVars, session, acking, boot, pressed, forgotten,
                   historyVars>>

\* A reboot (a new battery) loses the button's events and its link.
Reboot ==
    /\ boot + 1 \in Boots /\ boot' = boot + 1
    /\ left.reboot > 0 /\ left' = [left EXCEPT !.reboot = @ - 1]
    /\ IF link = NoSession
         THEN UNCHANGED <<linkVars, inbox, serving, sent>>
         ELSE LinkEnds(link)
    /\ UNCHANGED <<entryVars, dataVars, session, acking, pressed, forgotten,
                   historyVars>>

-----------------------------------------------------------------------------
EntryStep ==
    \/ Setup \/ Subscribe \/ StopDevice \/ Save \/ Crash
    \/ \E ok \in BOOLEAN : UnloadPlatforms(ok)

SessionStep(s) ==
    \/ Open(s) \/ Handle(s) \/ Ignore(s)
    \/ AckReturns(s) \/ AckRaises(s) \/ Close(s)

ButtonStep(s) ==
    \/ ButtonInit(s) \/ AckArrives(s) \/ LinkLost(s)
    \/ \E n \in 1..MaxPress, needsAck \in BOOLEAN : ButtonSends(s, n, needsAck)

Next ==
    \/ EntryStep
    \/ Press \/ Reboot
    \/ \E s \in Sessions : SessionStep(s) \/ ButtonStep(s)

Spec == Init /\ [][Next]_vars

\* Ready handlers run, writes end, a device without a link finds a button that
\* has something to tell, and a connected button answers and sends.  Nothing is
\* assumed of presses, crashes, losses, reboots and the user.
Fairness ==
    /\ WF_vars(Subscribe) /\ WF_vars(StopDevice)
    /\ WF_vars(\E s \in Sessions : Open(s))
    /\ \A s \in Sessions :
         /\ WF_vars(Handle(s) \/ Ignore(s))
         /\ WF_vars(AckReturns(s) \/ AckRaises(s))
         /\ WF_vars(Close(s))
         /\ WF_vars(ButtonInit(s))
         /\ WF_vars(\E n \in 1..MaxPress, needsAck \in BOOLEAN : ButtonSends(s, n, needsAck))

FairSpec == Spec /\ Fairness

-----------------------------------------------------------------------------
Messages ==
    [kind : {"init"}, upto : 0..MaxPress, boot : Boots]
      \cup [kind : {"events"}, first : 1..MaxPress, upto : 1..MaxPress, boot : Boots,
            needsAck : BOOLEAN]

SessionRecords ==
    [state : {"open", "failed"}, count : 0..MaxPress, boot : Boots \cup {0}, current : BOOLEAN]

TypeOK ==
    /\ phase \in Phases /\ listening \in BOOLEAN
    /\ entryData \in Counters /\ disk \in Counters
    /\ session \in [Sessions -> SessionRecords]
    /\ inbox \in [Sessions -> Seq(Messages)]
    /\ acking \subseteq Sessions
    /\ acks \in [Sessions -> Seq(1..MaxPress)] /\ link \in Sessions \cup {NoSession}
    /\ boot \in Boots /\ pressed \in [Boots -> 0..MaxPress]
    /\ forgotten \in [Boots -> 0..MaxPress] /\ serving \in BOOLEAN /\ sent \in 0..MaxPress
    /\ handled \in [Boots -> SUBSET (1..MaxPress)] /\ heard \in [Boots -> SUBSET (1..MaxPress)]
    /\ left \in BudgetRecords

\* The counters that a session will be asked to start from never run ahead of
\* what was handled in the boot they name, wherever they are kept: in the entry,
\* on disk, or in a session of an old connection that may still store its own.
CountsAreHandled ==
    \A c \in {entryData, disk} \cup {session[s] : s \in Sessions} :
        c.boot = 0 \/ 1..c.count \subseteq handled[c.boot]

(* What the proofs need besides: the inductive invariant *)

\* The events of a boot that were handled are its first ones.
HandledPrefix ==
    \A b \in Boots : \E n \in 0..pressed[b] : handled[b] = 1..n

ForgottenHandled == \A b \in Boots : 1..forgotten[b] \subseteq handled[b]

\* The counts that notifications under way carry are those of pressed and, in an
\* init response, of handled events.
NotesTrue ==
    \A s \in Sessions : \A i \in 1..Len(inbox[s]) :
        LET m == inbox[s][i] IN
        IF m.kind = "init" THEN 1..m.upto \subseteq handled[m.boot]
        ELSE m.first <= m.upto /\ m.upto <= pressed[m.boot]

\* The counters of an open session when it comes to its notification i.
CountBefore(s, i) == IF i = 1 THEN session[s].count ELSE inbox[s][i - 1].upto
BootBefore(s, i) == IF i = 1 THEN session[s].boot ELSE inbox[s][i - 1].boot

\* Events continue where the session is by then.
Contiguous ==
    \A s \in Sessions : session[s].state = "open" =>
        \A i \in 1..Len(inbox[s]) : inbox[s][i].kind = "events" =>
            /\ inbox[s][i].first = CountBefore(s, i) + 1
            /\ inbox[s][i].boot = BootBefore(s, i)

\* The link carries notifications of this boot, the init response first, and the
\* button knows where the session of the link will be.
LinkCurrent ==
    /\ link = NoSession => ~serving
    /\ \A s \in Sessions : link = s =>
         /\ \A i \in 1..Len(inbox[s]) : inbox[s][i].boot = boot
         /\ ~serving => inbox[s] = <<>>
         /\ serving /\ session[s].state = "open" =>
              /\ sent = CountBefore(s, Len(inbox[s]) + 1)
              /\ boot = BootBefore(s, Len(inbox[s]) + 1)

\* Acknowledgements travel on the link only, and for events that were handled.
AcksHandled ==
    \A s \in Sessions : \A i \in 1..Len(acks[s]) :
        link = s /\ 1..acks[s][i] \subseteq handled[boot]

\* What is handled before the button forgets it is handled in order, so every
\* count that is kept or under way stays behind what was handled.
IInv ==
    /\ HandledPrefix /\ ForgottenHandled /\ CountsAreHandled /\ NotesTrue
    /\ Contiguous /\ LinkCurrent /\ AcksHandled

\* When connections do not overlap and nothing is forgotten in a crash, no
\* notification on its way repeats an event that was handled.
NothingRepeated ==
    left.calm => \A s \in Sessions : \A i \in DOMAIN inbox[s] :
        LET m == inbox[s][i] IN
        m.kind = "events" /\ session[s].state = "open" => m.first \notin handled[m.boot]

(* What the proof of NothingRepeated needs besides *)

\* The counters c name all events of the button's boot that were handled.
Tells(c) == handled[boot] \subseteq 1..(IF c.boot = boot THEN c.count ELSE 0)

\* One session at most has work left.
OneAtWork == \A r, s \in Sessions : Drained(r) \/ Drained(s) \/ r = s

\* The notifications of a session are of one boot and in order: those of events
\* follow the others, and none was sent before the one with the last count.
Sequenced ==
    \A s \in Sessions : \A j \in 1..Len(inbox[s]) :
        /\ link = s => inbox[s][j].upto <= sent
        /\ \A i \in 1..j - 1 : LET m == inbox[s][i]  n == inbox[s][j] IN
              n.kind = "events" /\ n.boot = m.boot /\ m.upto < n.first

\* What was handled is behind the init response on its way, and nothing was
\* handled of a boot whose session is still to come.
InitsTrue ==
    \A s \in Sessions : \A i \in 1..Len(inbox[s]) :
        LET m == inbox[s][i] IN
        /\ m.kind = "init" /\ session[s].state = "open" => handled[m.boot] \subseteq 1..m.upto
        /\ m.boot # boot => handled[boot] = {}

\* The entry is never behind what was handled, so the button resumes at the first
\* event that was not.
CalmParts ==
    /\ left.crash = 0
    /\ \A b \in Boots : b > boot => pressed[b] = 0
    /\ OneAtWork /\ Sequenced /\ InitsTrue /\ NothingRepeated
    /\ Tells(entryData)
    /\ link # NoSession /\ ~serving => Tells(session[link])
    /\ serving => handled[boot] \subseteq 1..sent

\* That is so where connections do not overlap and nothing crashes.
CalmInv == left.calm => CalmParts

\* The inductive invariant of all runs and that of calm ones.
DeliveryInv == IInv /\ CalmInv

\* An event the button forgot was given to a listener (device_trigger.py:5-6).
ForgottenWereHeard ==
    \A b \in Boots : 1..forgotten[b] \subseteq heard[b]

\* An event is handled, unless the button reboots first or the entry is not set
\* up, whatever connections are lost and acknowledgements fail meanwhile.
Served ==
    \A b \in Boots, n \in 1..MaxPress :
        (boot = b /\ pressed[b] >= n)
            ~> (n \in handled[b] \/ boot # b \/ phase = "unloaded")

\* The events of a boot are handled without a gap and only handled ones are
\* forgotten, across all connections.
Delivery == INSTANCE ReliableDelivery
ImplementsDelivery == Delivery!RSpec
=============================================================================
